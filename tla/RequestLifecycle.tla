-------------------------- MODULE RequestLifecycle --------------------------
(***************************************************************************)
(* One HTTP request through the gateway (gateway/app.py): ingress permits, *)
(* lifecycle reservation, body, profile, attempts under admitted leases,   *)
(* relay, the shadow attempt, and the release of everything on every path, *)
(* cancellation by the deadline or by the server included.                 *)
(*                                                                         *)
(* The event loop runs a task from one await that suspends to the next, so *)
(* a step of a task is such a run.  The locks of ingress.py and            *)
(* streaming.py are never held across a suspension: taking and giving back *)
(* a permit is part of the step around it.  A cancellation is delivered at *)
(* the await the task is suspended in, which pc names.                     *)
(***************************************************************************)
EXTENDS Integers, FiniteSets, FiniteSetsExt

CONSTANTS
    Request,
    Sends,        \* Sends[r]: sends the attempt budget allows
    HasShadow,    \* HasShadow[r]: the client authorizes a shadow leg
    Inbound, Preauth, Readers, Retained,   \* ingress limits, in requests
    Permits,      \* foreground permits
    Lifecycles,   \* requests the lifecycle spool has room for
    MaxTrouble    \* bound: cancellations by the server; a shutdown weighs two

ASSUME LifecycleAssumption ==
    /\ IsFiniteSet(Request)
    /\ Sends \in [Request -> Nat \ {0}] /\ HasShadow \in [Request -> BOOLEAN]
    /\ {Inbound, Preauth, Readers, Retained, Permits, Lifecycles} \subseteq Nat \ {0}
    /\ MaxTrouble \in Nat

VARIABLES
    pc,       \* pc[r]: the await the request's task is suspended in
    shadow,   \* shadow[r]: the same for its shadow task
    kill,     \* kill[r]: the shadow task has been cancelled and has not run yet
    held,     \* held[r]: permits, quotas and open responses the request holds
    call,     \* call[r]: its current attempt and its shadow attempt
    plan,     \* plan[r]: how the attempt will be resolved and what follows
    unwind,   \* unwind[r]: the exception the task is unwinding with
    life,     \* life[r]: its lifecycle reservation
    reply,    \* reply[r]: the response to the client
    timer,    \* timer[r]: the deadline
    trouble,  \* cancellations by the server and shutdowns so far
    app,      \* "open", "nohttp" and "closed": how far aclose has come
    hist      \* what properties look back at

vars == <<pc, shadow, kill, held, call, plan, unwind, life, reply, timer, app, trouble, hist>>

NoCall == [lease |-> "none", sent |-> FALSE, provider |-> "idle", reserved |-> FALSE]
NoPlan == [outcome |-> "none", uncertain |-> FALSE, next |-> "settle"]

Users(res) == Cardinality({r \in Request : res \in held[r]})
PermitsUsed == Users("permit") + Users("shadow_permit")
PermitFreeLate == PermitsUsed <= Permits     \* mutant of PermitFree
PermitFree  == PermitsUsed < Permits
ReaderFree  == Users("reader") < Readers
BodyFits    == Users("body") < Retained
Waiting     == {r \in Request : pc[r] = "permit"}

Running(r) == shadow[r] \notin {"off", "done"}

(* 10 or 12 events: four and two for each attempt.                         *)
BudgetUnshadowed(r) == 4 + 2 * Sends[r]      \* mutant of Budget

Budget(r) == 4 + 2 * (Sends[r] + IF HasShadow[r] THEN 1 ELSE 0)

(* _open: events are refused once the request is terminal.                 *)
Open(r) == life[r].state = "open" /\ life[r].outcome = "none"

(* finished: the terminal event, once, and the unused slots go back.       *)
Ended(r, outcome) ==
    IF Open(r) THEN [life[r] EXCEPT !.outcome = outcome, !.left = 0] ELSE life[r]

(* attempt_started and attempt_finished: one event each, in a pair.        *)
Begun(r)  == [life EXCEPT ![r].left = @ - 1, ![r].pend = @ + 1]
Paid(r)   == [life EXCEPT ![r].left = @ - 1, ![r].pend = @ - 1]

SetMain(r, c) == call' = [call EXCEPT ![r].main = c]
Main(r) == call[r].main
-----------------------------------------------------------------------------
(* Before the first attempt.                                               *)

(* No inbound permit; a closed gateway, an invalid request, no pre-auth    *)
(* permit.                                                                 *)
TurnedAway(r) ==
    /\ pc[r] = "new"
    /\ held' = [held EXCEPT ![r] = IF Users("inbound") < Inbound THEN {"inbound"} ELSE {}]
    /\ pc' = [pc EXCEPT ![r] = "reply"]
    /\ UNCHANGED <<shadow, kill, call, plan, unwind, life, reply, timer, app, trouble, hist>>

(* A key that does not verify; no room in the lifecycle spool, with the    *)
(* deadline already armed.                                                 *)
Unauthenticated(r) ==
    /\ pc[r] = "new" /\ app = "open"
    /\ Users("inbound") < Inbound /\ Users("preauth") < Preauth
    /\ held' = [held EXCEPT ![r] = {"inbound", "preauth"}]
    /\ \E t \in {"off", "armed"} : timer' = [timer EXCEPT ![r] = t]
    /\ pc' = [pc EXCEPT ![r] = "reply"]
    /\ UNCHANGED <<shadow, kill, call, plan, unwind, life, reply, app, trouble, hist>>

Reserved == Cardinality({r \in Request : life[r].state = "open"})

Admit(r) ==
    /\ pc[r] = "new" /\ app = "open"
    /\ Users("inbound") < Inbound /\ Users("preauth") < Preauth /\ Reserved < Lifecycles
    /\ timer' = [timer EXCEPT ![r] = "armed"]
    /\ LET l == [state |-> "open", left |-> Budget(r) - 1, pend |-> 0, outcome |-> "none"]
       IN  IF ReaderFree
           THEN /\ held' = [held EXCEPT ![r] = {"inbound", "reader"}]
                /\ life' = [life EXCEPT ![r] = l] /\ pc' = [pc EXCEPT ![r] = "body"]
           ELSE /\ held' = [held EXCEPT ![r] = {"inbound"}]
                /\ life' = [life EXCEPT ![r] = [l EXCEPT !.left = 0, !.outcome = "rejected"]]
                /\ pc' = [pc EXCEPT ![r] = "reply"]
    /\ UNCHANGED <<shadow, kill, call, plan, unwind, reply, app, trouble, hist>>

(* read_retained_body returns; its bytes stay counted.                     *)
BodyRead(r) ==
    /\ pc[r] = "body" /\ BodyFits
    /\ held' = [held EXCEPT ![r] = (@ \ {"reader"}) \cup {"body"}]
    /\ pc' = [pc EXCEPT ![r] = "profile"]
    /\ UNCHANGED <<shadow, kill, call, plan, unwind, life, reply, timer, app, trouble, hist>>

(* A limit, a timeout, a malformed body, or a disconnected client.         *)
BodyRefused(r) ==
    /\ pc[r] = "body"
    /\ \E o \in {"client", "rejected"} : life' = [life EXCEPT ![r] = Ended(r, o)]
    /\ held' = [held EXCEPT ![r] = @ \ {"reader"}]
    /\ pc' = [pc EXCEPT ![r] = "reply"]
    /\ UNCHANGED <<shadow, kill, call, plan, unwind, reply, timer, app, trouble, hist>>

(* profile_accepted, authorize, the identity check, and queued.            *)
Profiled(r) ==
    /\ pc[r] = "profile" /\ Open(r)
    /\ life' = [life EXCEPT ![r].left = @ - 2]
    /\ pc' = [pc EXCEPT ![r] = "acquire"]
    /\ UNCHANGED <<shadow, kill, held, call, plan, unwind, reply, timer, app, trouble, hist>>

(* Unsupported, not authorized, another identity; no route for the lease.  *)
Unroutable(r) ==
    /\ pc[r] \in {"profile", "acquire"}
    /\ life' = [life EXCEPT ![r] = Ended(r, "rejected")]
    /\ pc' = [pc EXCEPT ![r] = "reply"]
    /\ UNCHANGED <<shadow, kill, held, call, plan, unwind, reply, timer, app, trouble, hist>>

(* The finally of _http: the deadline is off and the shadow cancelled.     *)
Finally(r) ==
    /\ pc' = [pc EXCEPT ![r] = "release"]
    /\ timer' = [timer EXCEPT ![r] = IF @ = "armed" THEN "off" ELSE @]
    /\ kill' = [kill EXCEPT ![r] = Running(r)]

(* except Exception: terminal event, and an error when none was sent.      *)
AfterError(r) ==
    /\ life' = [life EXCEPT ![r] = Ended(r, "upstream")]
    /\ IF reply[r] = "none" THEN pc' = [pc EXCEPT ![r] = "late"] /\ UNCHANGED <<timer, kill>>
       ELSE Finally(r)

(* An event after aclose has ended the lifecycle, or another exception.    *)
ProfileFails(r) ==
    /\ pc[r] = "profile"
    /\ AfterError(r)
    /\ UNCHANGED <<shadow, held, call, plan, unwind, reply, app, trouble, hist>>
-----------------------------------------------------------------------------
(* An attempt: _attempt.                                                   *)

Resolve(r, outcome, uncertain, next) ==
    /\ plan' = [plan EXCEPT ![r] = [outcome |-> outcome, uncertain |-> uncertain, next |-> next]]
    /\ pc' = [pc EXCEPT ![r] = "resolve"]

(* attempt_started is the send fence: when it raises, the lease goes back. *)
Start(r, c) ==
    IF Open(r) /\ life[r].left >= 3
    THEN /\ SetMain(r, [c EXCEPT !.reserved = TRUE])
         /\ life' = Begun(r)
         /\ pc' = [pc EXCEPT ![r] = "prepare"]
         /\ UNCHANGED <<plan, unwind>>
    ELSE /\ SetMain(r, c) /\ Resolve(r, "upstream", FALSE, "settle")
         /\ unwind' = [unwind EXCEPT ![r] = "error"]
         /\ UNCHANGED life

Leased(r) ==
    /\ pc[r] = "acquire" /\ hist[r].sends < Sends[r]
    /\ hist' = [hist EXCEPT ![r].sends = @ + 1]
    /\ LET c == [NoCall EXCEPT !.lease = "open"]
       IN  IF PermitFree
           THEN held' = [held EXCEPT ![r] = @ \cup {"permit"}] /\ Start(r, c)
           ELSE /\ SetMain(r, c) /\ pc' = [pc EXCEPT ![r] = "permit"]
                /\ UNCHANGED <<held, plan, unwind, life>>
    /\ UNCHANGED <<shadow, kill, reply, timer, app, trouble>>

TakePermit(r) ==
    /\ pc[r] = "permit" /\ PermitFree
    /\ held' = [held EXCEPT ![r] = @ \cup {"permit"}]
    /\ Start(r, Main(r))
    /\ UNCHANGED <<shadow, kill, reply, timer, app, trouble, hist>>

(* resolve, prepare_dispatch, rewrite; then send.  A closed client raises  *)
(* before anything is sent.                                                *)
Prepared(r) ==
    /\ pc[r] = "prepare"
    /\ IF app = "open"
       THEN /\ SetMain(r, [Main(r) EXCEPT !.sent = TRUE, !.provider = "running"])
            /\ pc' = [pc EXCEPT ![r] = "send"] /\ UNCHANGED plan
       ELSE /\ SetMain(r, [Main(r) EXCEPT !.sent = TRUE])
            /\ Resolve(r, "upstream", FALSE, "answer")
    /\ UNCHANGED <<shadow, kill, held, unwind, life, reply, timer, app, trouble, hist>>

(* An OSError of the rewrite is taken for one of the transport.            *)
PrepareFails(r) ==
    /\ pc[r] = "prepare"
    /\ \E u \in BOOLEAN : Resolve(r, "upstream", u, "answer")
    /\ UNCHANGED <<shadow, kill, held, call, unwind, life, reply, timer, app, trouble, hist>>

ConnectFails(r) ==
    /\ pc[r] = "send"
    /\ SetMain(r, [Main(r) EXCEPT !.provider = "idle"])
    /\ \E next \in {"acquire", "answer"} : Resolve(r, "upstream", FALSE, next)
    /\ UNCHANGED <<shadow, kill, held, unwind, life, reply, timer, app, trouble, hist>>

(* A transport error while sending or in the body of an error answer.      *)
TransportFails(r) ==
    /\ pc[r] \in {"send", "error_body"}
    /\ Resolve(r, "upstream", TRUE, "answer")
    /\ UNCHANGED <<shadow, kill, held, call, unwind, life, reply, timer, app, trouble, hist>>

Headers(r) == pc[r] = "send" /\ app = "open" /\ Open(r)

Refused(r) ==
    /\ Headers(r)
    /\ held' = [held EXCEPT ![r] = @ \cup {"stream"}]
    /\ pc' = [pc EXCEPT ![r] = "error_body"]
    /\ UNCHANGED <<shadow, kill, call, plan, unwind, life, reply, timer, app, trouble, hist>>

(* The classified error: another leg, or the buffered answer.              *)
ErrorRead(r) ==
    /\ pc[r] = "error_body" /\ app = "open"
    /\ SetMain(r, [Main(r) EXCEPT !.provider = "ended"])
    /\ \E next \in {"acquire", "answer"} : Resolve(r, "upstream", FALSE, next)
    /\ UNCHANGED <<shadow, kill, held, unwind, life, reply, timer, app, trouble, hist>>

(* reconcile_dispatch: the call ran at another deployment.                 *)
Mismatched(r) ==
    /\ Headers(r)
    /\ held' = [held EXCEPT ![r] = @ \cup {"stream"}]
    /\ SetMain(r, [Main(r) EXCEPT !.provider = "elsewhere"])
    /\ Resolve(r, "upstream", FALSE, "answer")
    /\ UNCHANGED <<shadow, kill, unwind, life, reply, timer, app, trouble, hist>>

(* try_shadow: an idle permit, and nobody waits.                           *)
ShadowPermit == PermitFree /\ Waiting = {}

(* A successful answer; the first one decides the shadow.                  *)
Accepted(r) ==
    /\ Headers(r)
    /\ IF shadow[r] = "off" /\ ShadowPermit
       THEN /\ shadow' = [shadow EXCEPT ![r] = "acquire"]
            /\ held' = [held EXCEPT ![r] = @ \cup {"stream", "shadow_permit"}]
       ELSE held' = [held EXCEPT ![r] = @ \cup {"stream"}] /\ UNCHANGED shadow
    /\ pc' = [pc EXCEPT ![r] = "relay"]
    /\ UNCHANGED <<kill, call, plan, unwind, life, reply, timer, app, trouble, hist>>

RelayStart(r) ==
    /\ pc[r] = "relay" /\ reply[r] = "none"
    /\ reply' = [reply EXCEPT ![r] = "started"]
    /\ UNCHANGED <<pc, shadow, kill, held, call, plan, unwind, life, timer, app, trouble, hist>>

RelayDone(r) ==
    /\ pc[r] = "relay" /\ reply[r] = "started" /\ app = "open"
    /\ reply' = [reply EXCEPT ![r] = "done"]
    /\ SetMain(r, [Main(r) EXCEPT !.provider = "ended"])
    /\ Resolve(r, "completed", FALSE, "settle")
    /\ UNCHANGED <<shadow, kill, held, unwind, life, timer, app, trouble, hist>>

(* The client disconnects, or one of the two streams fails.                *)
Broken == {"client", "stream"}

RelayFails(r) ==
    /\ pc[r] = "relay"
    /\ \E o \in Broken : Resolve(r, o, TRUE, "settle")
    /\ UNCHANGED <<shadow, kill, held, call, unwind, life, reply, timer, app, trouble, hist>>

(* finish_async or fail_before_send is durable.                            *)
Lease(uncertain) == IF uncertain THEN "kept" ELSE "released"

AfterResolveQuiet(r) ==                      \* mutant of AfterResolve
    IF unwind[r] = "none" THEN "record" ELSE "close"

(* A second cancellation in a handler skips the event.                     *)
AfterResolve(r) == IF "record" \in hist[r].cut THEN "close" ELSE "record"

Resolved(r) ==
    /\ pc[r] = "resolve"
    /\ SetMain(r, [Main(r) EXCEPT !.lease = Lease(plan[r].uncertain)])
    /\ pc' = [pc EXCEPT ![r] = AfterResolve(r)]
    /\ plan' = [plan EXCEPT ![r].uncertain = FALSE]
    /\ UNCHANGED <<shadow, kill, held, unwind, life, reply, timer, app, trouble, hist>>

AnswersFirst(r) == plan[r].outcome = "upstream"   \* mutant of Answers

(* No leg is left for the failure: the client is told.                     *)
Answers(r) == plan[r].next = "answer"

(* attempt_finished: it raises without its first event, and after the      *)
(* terminal one; then the exception replaces a cancellation.               *)
Recorded(r) ==
    /\ pc[r] = "record"
    /\ IF Main(r).reserved /\ Open(r)
       THEN life' = Paid(r) /\ UNCHANGED unwind
       ELSE unwind' = [unwind EXCEPT ![r] = "error"] /\ UNCHANGED life
    /\ pc' = [pc EXCEPT ![r] =
                IF unwind'[r] = "none" /\ Answers(r) THEN "answer" ELSE "close"]
    /\ plan' = [plan EXCEPT ![r] = IF unwind'[r] = "none" THEN @ ELSE NoPlan]
    /\ UNCHANGED <<shadow, kill, held, call, reply, timer, app, trouble, hist>>

(* An error of the gateway or the provider's own, before the upstream      *)
(* response is closed.                                                     *)
Answered(r) ==
    /\ pc[r] = "answer"
    /\ reply' = [reply EXCEPT ![r] = "done"]
    /\ \E o \in {plan[r].outcome} \cup IF Main(r).provider = "ended" THEN {"client"} ELSE {} :
         plan' = [plan EXCEPT ![r].outcome = o]
    /\ pc' = [pc EXCEPT ![r] = "close"]
    /\ UNCHANGED <<shadow, kill, held, call, unwind, life, timer, app, trouble, hist>>

(* Where the task goes when _attempt has returned or raised.               *)
Leave(r) ==
    CASE unwind[r] = "cancel" ->
           /\ pc' = [pc EXCEPT ![r] = "cancelled"]
           /\ kill' = [kill EXCEPT ![r] = Running(r)] /\ UNCHANGED <<life, timer, hist>>
      [] unwind[r] = "error"  -> AfterError(r) /\ UNCHANGED hist
      [] unwind[r] = "none" /\ plan[r].next = "acquire" ->
           pc' = [pc EXCEPT ![r] = "acquire"] /\ UNCHANGED <<kill, life, timer, hist>>
      [] OTHER ->
           /\ pc' = [pc EXCEPT ![r] = "settle"]
           /\ kill' = [kill EXCEPT ![r] = Running(r) /\ plan[r].outcome = "client"]
           /\ hist' = [hist EXCEPT ![r].result = plan[r].outcome]
           /\ UNCHANGED <<life, timer>>

(* The finally of _attempt: close the response, then give the permit back. *)
Closed(r) ==
    /\ pc[r] = "close"
    /\ held' = [held EXCEPT ![r] = @ \ {"stream", "permit"}]
    /\ Leave(r)
    /\ plan' = [plan EXCEPT ![r] = NoPlan] /\ unwind' = [unwind EXCEPT ![r] = "none"]
    /\ UNCHANGED <<shadow, call, reply, app, trouble>>
-----------------------------------------------------------------------------
(* After the attempts.                                                     *)

(* The terminal result waits for the shadow.                               *)
Settled(r) ==
    /\ pc[r] = "settle" /\ ~Running(r)
    /\ life' = [life EXCEPT ![r] = Ended(r, hist[r].result)]
    /\ Finally(r)
    /\ UNCHANGED <<shadow, held, call, plan, unwind, reply, app, trouble, hist>>

(* except CancelledError: the shadow is gathered, then the terminal event, *)
(* and 504 when nothing was sent.                                          *)
Cancelled(r) ==
    /\ pc[r] = "cancelled" /\ ~Running(r)
    /\ life' = [life EXCEPT ![r] =
                  Ended(r, IF timer[r] = "expired" THEN "deadline" ELSE "client")]
    /\ IF timer[r] = "expired" /\ reply[r] = "none"
       THEN pc' = [pc EXCEPT ![r] = "late"] /\ UNCHANGED <<timer, kill>>
       ELSE Finally(r)
    /\ UNCHANGED <<shadow, held, call, plan, unwind, reply, app, trouble, hist>>

(* An error response of _http, in its course or from a handler.            *)
Replied(r) ==
    /\ pc[r] \in {"reply", "late"}
    /\ reply' = [reply EXCEPT ![r] = "done"]
    /\ Finally(r)
    /\ UNCHANGED <<shadow, held, call, plan, unwind, life, app, trouble, hist>>

Gone(c) == IF c.lease \in {"released", "kept"} THEN NoCall ELSE c

(* release: a missing terminal event, and the slots.                       *)
Unreserved(r) ==
    IF life[r].state = "open" THEN [Ended(r, "upstream") EXCEPT !.state = "released"]
    ELSE life[r]

(* The task is over and its locals are gone; what it still holds is lost.  *)
Ends(r, lost) ==
    /\ pc' = [pc EXCEPT ![r] = "done"]
    /\ call' = [call EXCEPT ![r].main = Gone(@)]
    /\ plan' = [plan EXCEPT ![r] = NoPlan] /\ unwind' = [unwind EXCEPT ![r] = "none"]
    /\ reply' = [reply EXCEPT ![r] = "none"] /\ timer' = [timer EXCEPT ![r] = "off"]
    /\ hist' = [hist EXCEPT ![r] = [sends |-> 0, result |-> "none", cut |-> @.cut \cup lost]]

Released(r) ==
    /\ pc[r] = "release" /\ ~Running(r)
    /\ held' = [held EXCEPT ![r] = @ \ {"inbound", "preauth", "body"}]
    /\ life' = [life EXCEPT ![r] = [Unreserved(r) EXCEPT !.outcome = "none"]]
    /\ Ends(r, {})
    /\ UNCHANGED <<shadow, kill, app, trouble>>
-----------------------------------------------------------------------------
(* Cancellation.                                                           *)

(* Mutant of Uncertain: what was sent is taken for not sent.               *)
NeverUncertain(r) == FALSE

Uncertain(r) == Main(r).sent

InAttempt == {"permit", "prepare", "send", "error_body", "relay"}

(* Mutant of CancelBody: the reader permit is not given back.              *)
CancelBodyKept(r) == held' = held

CancelBody(r) == held' = [held EXCEPT ![r] = @ \ {"reader"}]

ToHandlerOnly(r) ==                          \* mutant of ToHandler
    pc' = [pc EXCEPT ![r] = "cancelled"] /\ kill' = kill

ToHandler(r) ==
    /\ pc' = [pc EXCEPT ![r] = "cancelled"] /\ kill' = [kill EXCEPT ![r] = Running(r)]

Lost(r, what) == hist' = [hist EXCEPT ![r].cut = @ \cup what]

(* The exception arrives at the await pc names.  A shielded operation      *)
(* completes first.  An exception out of a finally, or out of a handler,   *)
(* skips what follows there.                                               *)
InCourse(r) ==
    \/ /\ pc[r] = "body" /\ CancelBody(r) /\ ToHandler(r)
       /\ UNCHANGED <<plan, unwind, reply, hist>>
    \/ /\ pc[r] \in {"profile", "acquire", "reply", "settle"} /\ ToHandler(r)
       /\ reply' = [reply EXCEPT ![r] = IF pc[r] = "reply" THEN "started" ELSE @]
       /\ UNCHANGED <<held, plan, unwind, hist>>
    \/ /\ pc[r] \in InAttempt /\ Resolve(r, "client", Uncertain(r), "settle")
       /\ unwind' = [unwind EXCEPT ![r] = "cancel"]
       /\ reply' = [reply EXCEPT ![r] = IF pc[r] = "relay" THEN "started" ELSE @]
       /\ UNCHANGED <<kill, held, hist>>
    \/ /\ pc[r] = "resolve"
       /\ IF unwind[r] = "none" THEN UNCHANGED hist ELSE Lost(r, {"record"})
       /\ unwind' = [unwind EXCEPT ![r] = "cancel"]
       /\ UNCHANGED <<pc, kill, held, plan, reply>>
    \/ /\ pc[r] = "record" /\ unwind' = [unwind EXCEPT ![r] = "cancel"]
       /\ UNCHANGED <<pc, kill, held, plan, reply, hist>>
    \/ /\ pc[r] = "answer" /\ unwind' = [unwind EXCEPT ![r] = "cancel"]
       /\ pc' = [pc EXCEPT ![r] = "close"]
       /\ reply' = [reply EXCEPT ![r] = "started"]
       /\ UNCHANGED <<kill, held, plan, hist>>
    \/ /\ pc[r] = "close" /\ ToHandler(r)
       /\ IF "stream" \in held[r]
          THEN held' = [held EXCEPT ![r] = @ \ {"stream"}] /\ Lost(r, held[r] \cap {"permit"})
          ELSE held' = [held EXCEPT ![r] = @ \ {"permit"}] /\ UNCHANGED hist
       /\ plan' = [plan EXCEPT ![r] = NoPlan] /\ unwind' = [unwind EXCEPT ![r] = "none"]
       /\ UNCHANGED reply

(* ... or in a handler of _http, and the rest of the handler is skipped.   *)
InHandler(r) ==
    /\ pc[r] \in {"cancelled", "late"}
    /\ pc' = [pc EXCEPT ![r] = "release"] /\ kill' = [kill EXCEPT ![r] = Running(r)]
    /\ reply' = [reply EXCEPT ![r] = IF pc[r] = "late" THEN "started" ELSE @]
    /\ UNCHANGED <<held, plan, unwind, hist>>

(* ... or in the finally of _http, and what was not yet given back is not. *)
InFinally(r) ==
    /\ pc[r] = "release"
    /\ IF Running(r)
       THEN /\ held' = [held EXCEPT ![r] = @ \ {"inbound"}]
            /\ Ends(r, held[r] \cup {"life", "shadow"})
       ELSE /\ held' = [held EXCEPT ![r] = @ \ {"inbound", "preauth", "body"}]
            /\ Ends(r, {"life"})
    /\ UNCHANGED kill

(* expire_request; the finally of _http has switched it off.               *)
Expire(r) ==
    /\ timer[r] = "armed" /\ (InCourse(r) \/ InHandler(r))
    /\ timer' = [timer EXCEPT ![r] = "expired"]
    /\ UNCHANGED <<shadow, call, life, app, trouble>>

(* The server cancels the task.                                            *)
ServerCancels(r) ==
    /\ trouble < MaxTrouble /\ trouble' = trouble + 1
    /\ \/ (InCourse(r) \/ InHandler(r)) /\ UNCHANGED <<call, timer>>
       \/ InFinally(r)
    /\ UNCHANGED <<shadow, life, app>>
-----------------------------------------------------------------------------
(* The shadow task: _shadow_attempt.                                       *)

Shadow(r) == call[r].shadow
SetShadow(r, c) == call' = [call EXCEPT ![r].shadow = c]
ShadowAt(r, at) == shadow' = [shadow EXCEPT ![r] = at]

Awake(r, at) == shadow[r] = at /\ ~kill[r]

ShadowResolve(r, c, uncertain) ==
    /\ SetShadow(r, [c EXCEPT !.lease = IF uncertain THEN "keeping" ELSE "releasing"])
    /\ ShadowAt(r, "resolve")

(* try_acquire_shadow; attempt_started.                                    *)
ShadowLeased(r) ==
    /\ Awake(r, "acquire") /\ HasShadow[r]
    /\ LET c == [NoCall EXCEPT !.lease = "open"]
       IN  IF Open(r) /\ life[r].left >= 3
           THEN /\ SetShadow(r, [c EXCEPT !.reserved = TRUE])
                /\ life' = Begun(r) /\ ShadowAt(r, "prepare")
           ELSE ShadowResolve(r, c, FALSE) /\ UNCHANGED life
    /\ UNCHANGED <<pc, kill, held, plan, unwind, reply, timer, app, trouble, hist>>

ShadowRefused(r) ==
    /\ Awake(r, "acquire") /\ ShadowAt(r, "close")
    /\ UNCHANGED <<pc, kill, held, call, plan, unwind, life, reply, timer, app, trouble, hist>>

ShadowSent(r) ==
    /\ Awake(r, "prepare")
    /\ LET c == [Shadow(r) EXCEPT !.sent = TRUE]
       IN  \/ /\ app = "open" /\ SetShadow(r, [c EXCEPT !.provider = "running"])
              /\ ShadowAt(r, "send")
           \/ app # "open" /\ ShadowResolve(r, c, TRUE)
           \/ ShadowResolve(r, Shadow(r), FALSE)          \* preparation fails
    /\ UNCHANGED <<pc, kill, held, plan, unwind, life, reply, timer, app, trouble, hist>>

ShadowAnswered(r) ==
    /\ Awake(r, "send")
    /\ \/ /\ app = "open" /\ Open(r) /\ ShadowAt(r, "drain") /\ UNCHANGED call
          /\ held' = [held EXCEPT ![r] = @ \cup {"shadow_stream"}]
       \/ /\ app = "open" /\ Open(r)
          /\ held' = [held EXCEPT ![r] = @ \cup {"shadow_stream"}]
          /\ ShadowResolve(r, [Shadow(r) EXCEPT !.provider = "elsewhere"], FALSE)
       \/ ShadowResolve(r, [Shadow(r) EXCEPT !.provider = "idle"], FALSE) /\ UNCHANGED held
       \/ ShadowResolve(r, Shadow(r), TRUE) /\ UNCHANGED held
    /\ UNCHANGED <<pc, kill, plan, unwind, life, reply, timer, app, trouble, hist>>

ShadowDrained(r) ==
    /\ Awake(r, "drain")
    /\ \/ app = "open" /\ ShadowResolve(r, [Shadow(r) EXCEPT !.provider = "ended"], FALSE)
       \/ ShadowResolve(r, Shadow(r), TRUE)
    /\ UNCHANGED <<pc, kill, held, plan, unwind, life, reply, timer, app, trouble, hist>>

ShadowResolved(r) ==
    /\ shadow[r] = "resolve" /\ ~kill[r]
    /\ SetShadow(r, [Shadow(r) EXCEPT !.lease = Lease(@ = "keeping")])
    /\ ShadowAt(r, IF "shadow_record" \in hist[r].cut THEN "close" ELSE "record")
    /\ UNCHANGED <<pc, kill, held, plan, unwind, life, reply, timer, app, trouble, hist>>

(* A record that raises is suppressed.                                     *)
ShadowRecorded(r) ==
    /\ Awake(r, "record") /\ ShadowAt(r, "close")
    /\ life' = IF Shadow(r).reserved /\ Open(r) THEN Paid(r) ELSE life
    /\ UNCHANGED <<pc, kill, held, call, plan, unwind, reply, timer, app, trouble, hist>>

ShadowClosed(r) ==
    /\ Awake(r, "close") /\ ShadowAt(r, "done") /\ SetShadow(r, Gone(Shadow(r)))
    /\ held' = [held EXCEPT ![r] = @ \ {"shadow_stream", "shadow_permit"}]
    /\ UNCHANGED <<pc, kill, plan, unwind, life, reply, timer, app, trouble, hist>>

(* The cancellation by its request.  A lease that is being resolved is     *)
(* terminal when the handler looks, and its event is not recorded.         *)
ShadowCancelled(r) ==
    /\ kill[r] /\ Running(r) /\ kill' = [kill EXCEPT ![r] = FALSE]
    /\ \/ /\ shadow[r] = "acquire" /\ ShadowAt(r, "close") /\ UNCHANGED <<held, call, hist>>
       \/ /\ shadow[r] \in {"prepare", "send", "drain"}
          /\ ShadowResolve(r, Shadow(r), Shadow(r).sent) /\ UNCHANGED <<held, hist>>
       \/ /\ shadow[r] = "resolve" /\ Lost(r, {"shadow_record"})
          /\ UNCHANGED <<shadow, held, call>>
       \/ shadow[r] = "record" /\ UNCHANGED <<shadow, held, call, hist>>
       \/ /\ shadow[r] = "close" /\ ShadowAt(r, "done") /\ SetShadow(r, Gone(Shadow(r)))
          /\ IF "shadow_stream" \in held[r]
             THEN /\ held' = [held EXCEPT ![r] = @ \ {"shadow_stream"}]
                  /\ Lost(r, {"shadow_permit"})
             ELSE held' = [held EXCEPT ![r] = @ \ {"shadow_permit"}] /\ UNCHANGED hist
    /\ UNCHANGED <<pc, plan, unwind, life, reply, timer, app, trouble>>
-----------------------------------------------------------------------------
(* aclose: the HTTP client, then every active lifecycle.  It waits for no  *)
(* request.                                                                *)

CloseHttp ==
    /\ app = "open" /\ app' = "nohttp"
    /\ trouble + 2 <= MaxTrouble /\ trouble' = trouble + 2
    /\ UNCHANGED <<pc, shadow, kill, held, call, plan, unwind, life, reply, timer, hist>>

CloseLifecycles ==
    /\ app = "nohttp" /\ app' = "closed"
    /\ life' = [r \in Request |-> Unreserved(r)]
    /\ UNCHANGED <<pc, shadow, kill, held, call, plan, unwind, reply, timer, trouble, hist>>
-----------------------------------------------------------------------------
Init ==
    /\ pc = [r \in Request |-> "new"] /\ shadow = [r \in Request |-> "off"]
    /\ kill = [r \in Request |-> FALSE] /\ held = [r \in Request |-> {}]
    /\ call = [r \in Request |-> [main |-> NoCall, shadow |-> NoCall]]
    /\ plan = [r \in Request |-> NoPlan] /\ unwind = [r \in Request |-> "none"]
    /\ life = [r \in Request |->
                 [state |-> "none", left |-> 0, pend |-> 0, outcome |-> "none"]]
    /\ reply = [r \in Request |-> "none"] /\ timer = [r \in Request |-> "off"]
    /\ app = "open" /\ trouble = 0
    /\ hist = [r \in Request |-> [sends |-> 0, result |-> "none", cut |-> {}]]

Arrive(r) == TurnedAway(r) \/ Unauthenticated(r) \/ Admit(r)

Serve(r) ==
    \/ BodyRead(r) \/ BodyRefused(r) \/ Profiled(r) \/ ProfileFails(r) \/ Unroutable(r)
    \/ Leased(r) \/ TakePermit(r) \/ Prepared(r) \/ PrepareFails(r)
    \/ ConnectFails(r) \/ TransportFails(r) \/ Refused(r) \/ ErrorRead(r) \/ Mismatched(r)
    \/ Accepted(r) \/ RelayStart(r) \/ RelayDone(r) \/ RelayFails(r)
    \/ Resolved(r) \/ Recorded(r) \/ Answered(r) \/ Closed(r)
    \/ Settled(r) \/ Cancelled(r) \/ Replied(r) \/ Released(r)

ShadowTask(r) ==
    \/ ShadowLeased(r) \/ ShadowRefused(r) \/ ShadowSent(r) \/ ShadowAnswered(r)
    \/ ShadowDrained(r) \/ ShadowResolved(r) \/ ShadowRecorded(r) \/ ShadowClosed(r)
    \/ ShadowCancelled(r)

Next ==
    \/ \E r \in Request : Arrive(r) \/ Serve(r) \/ ShadowTask(r) \/ Expire(r) \/ ServerCancels(r)
    \/ CloseHttp \/ CloseLifecycles

(* The event loop runs every task that does not wait for a client, for a   *)
(* provider or for capacity, and the deadline timer fires.                 *)
Remote == {"body", "profile", "acquire", "send", "error_body", "relay", "answer"}

Spec ==
    /\ Init /\ [][Next]_vars
    /\ \A r \in Request :
         /\ WF_vars(pc[r] \notin Remote /\ Serve(r))
         /\ WF_vars((kill[r] \/ shadow[r] \notin {"send", "drain"}) /\ ShadowTask(r))
         /\ WF_vars(Expire(r))
-----------------------------------------------------------------------------
Outcome == {"none", "completed", "client", "deadline", "upstream", "stream", "rejected"}

Resource == {"inbound", "preauth", "reader", "body", "permit", "stream",
             "shadow_permit", "shadow_stream"}

(* Types, and no limit is exceeded: permits, readers and retained bodies.  *)
TypeOK ==
    /\ \A r \in Request : held[r] \subseteq Resource /\ life[r].outcome \in Outcome
    /\ Users("inbound") <= Inbound /\ Users("preauth") <= Preauth
    /\ Users("reader") <= Readers /\ Users("body") <= Retained
    /\ PermitsUsed <= Permits

(* A request that is over has given everything back and resolved its       *)
(* leases, whichever path it took, but for what a cancellation that met    *)
(* the close of a response, or the finally of the request, has lost        *)
(* (_http, _attempt, _shadow_attempt, read_retained_body).                 *)
Returned ==
    \A r \in Request : pc[r] = "done" =>
        /\ held[r] \subseteq hist[r].cut
        /\ life[r].state = "open" => "life" \in hist[r].cut
        /\ Running(r) => "shadow" \in hist[r].cut
        /\ Main(r).lease # "open"
        /\ Shadow(r).lease \in {"none", "released", "kept"} \/ "shadow" \in hist[r].cut

(* The attempt permit pool is cancellation-safe: a request that is over    *)
(* holds no permit (AttemptPermitPool, _attempt, _shadow_attempt).         *)
PermitsReturned ==
    \A r \in Request : pc[r] = "done" /\ ~Running(r) =>
        held[r] \cap {"permit", "shadow_permit"} = {}

(* Account capacity is given back only when the provider does not run the  *)
(* call at that deployment: never called, over, or another deployment      *)
(* (finish_async, fail_before_send and the handlers of both attempts).     *)
CapacityHonest ==
    \A r \in Request, c \in {"main", "shadow"} :
        call[r][c].lease = "released" => call[r][c].provider # "running"

(* The events of a request are complete: when it is terminal, every        *)
(* attempt reserved has its resolution recorded, unless the process closed *)
(* or a cancellation came between the resolution and its event             *)
(* (record_attempt, record, attempt_finished, finished).                   *)
Paired ==
    \A r \in Request :
        \/ Open(r) \/ life[r].pend = 0
        \/ app = "closed" \/ hist[r].cut \cap {"record", "shadow_record"} # {}

(* The reservation covers what a request may still record: its events      *)
(* never run out, whatever fallbacks and shadow it has                     *)
(* (lifecycle_events in _http, attempt_started).                           *)
SlotsSuffice ==
    \A r \in Request : Open(r) =>
        /\ life[r].left > life[r].pend
        /\ pc[r] = "permit" \/ (shadow[r] = "acquire" /\ HasShadow[r]) => life[r].left >= 3

(* A shadow never changes the client's result: once the attempt has given  *)
(* it, no other outcome is recorded (_http waits for the shadow before it  *)
(* records).                                                               *)
ResultKept ==
    \A r \in Request :
        hist[r].result # "none" /\ life[r].outcome # "none" => life[r].outcome = hist[r].result

(* No fallback after response bytes: nothing is sent to a provider once    *)
(* the client has been sent the start of a response (_attempt's alternate, *)
(* ResponseStart).                                                         *)
NoReplay ==
    [][\A r \in Request : Main(r)'.sent /\ ~Main(r).sent => reply[r] = "none"]_vars

(* Every request that arrives ends, also when permits are lost, providers  *)
(* hang and shadows run on: again and again none is in progress (the       *)
(* deadline, the handlers of _http and the cancellation of its shadow).    *)
RequestsEnd == []<>(\A r \in Request : pc[r] \in {"new", "done"})
=============================================================================
