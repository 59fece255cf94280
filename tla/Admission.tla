------------------------------ MODULE Admission ------------------------------
(***************************************************************************)
(* Admission of requests (AdmissionController and DispatchLease in         *)
(* gateway/scheduler.py): asyncio tasks that queue for a lease, the pump   *)
(* that grants leases while it holds the pump lock, and what cancels it.   *)
(*                                                                         *)
(* A step is what runs between two awaits.  The pump awaits the activation *)
(* gate, the reservation and the dispatch record; a task awaits the pump   *)
(* lock and its future.  The waiters are the entries of the queue: the two *)
(* change together between awaits.  The fair queue is WDRRQueue, the       *)
(* routing decisions are RouteEngine's; contraction of a waiter's ceiling  *)
(* is WDRRQueue!Contract and not repeated here.  Nor is a journal that     *)
(* fails: no leg is available after that.                                  *)
(***************************************************************************)
EXTENDS RouteEngine, SequencesExt

CONSTANTS
    Key,             \* client keys, numbered
    Qos,             \* Qos[r]: [key, tier, weight]
    Tier, Weight,    \* as in WDRRQueue
    MaxStreak, Cap,
    MaxConcurrency,  \* max_concurrency of a key
    MaxWaiters,      \* max_waiters of a key
    MaxGlobal,       \* max_waiters_global
    Moves,           \* what the environment may do: <<account, from, to>>
    MaxEvent         \* bound: cancellations, lapses, shadows and moves together

ASSUME AdmissionAssumption ==
    /\ \A r \in Request : /\ Qos[r] \in [key : Key, tier : Tier, weight : Weight]
                          /\ Route[r] \in Seq([account : Account, causes : SUBSET Cause])
    /\ Parallel \in [Account -> Nat]
    /\ Moves \subseteq Account \X Gate \X Gate
    /\ IsFiniteSet(Request) /\ Tier \subseteq Nat
    /\ {MaxConcurrency, MaxWaiters, MaxGlobal, MaxEvent} \subseteq Nat

VARIABLES
    task,      \* where the task of each request is
    future,    \* the future its waiter holds
    cause,     \* the cause the task asks for
    expired,   \* requests whose deadline has passed
    revoked,   \* requests whose authorization is gone
    queue,     \* _waiters and _queue
    fair,      \* fairness state of the queue
    pump,      \* the pump that holds the lock
    active,    \* _active_by_key
    wakes,     \* wake tasks created and not yet run
    missed,    \* history: a change since the last pump began that nobody is told
    events     \* cancellations, lapses, shadows and moves so far

runtime == <<slot, shadows, sent, gate>>
waiters == <<queue, fair>>
vars == <<slot, shadows, sent, gate, task, future, cause, expired, revoked,
          queue, fair, pump, active, wakes, missed, events>>

WAKE == "wake"    \* the owner of a pump that wake() runs

Fairness == INSTANCE WDRRQueue WITH sel <- <<>>, turns <- <<>>, Offer <- {}, MaxTurns <- 0

NoCause == [r \in Request |-> "none"]

Idle == [owner |-> "nobody", pc |-> "idle", excluded |-> {}, once |-> NoCause, pick |-> <<>>]

KeyOf(r) == Qos[r].key

(* QueueEntry: scarce if the whole ceiling names one account.              *)
EntryOf(r) ==
    [id |-> r, key |-> KeyOf(r), tier |-> Qos[r].tier, weight |-> Qos[r].weight,
     class |-> IF Cardinality({AccountOf(r, i) : i \in DOMAIN Route[r]}) = 1
               THEN "scarce" ELSE "flexible"]

Members(q) == {q[i].id : i \in DOMAIN q}
Waiting == Members(queue)

(* The entries of all other requests, in their order.                      *)
Outside(q, R) ==
    LET kept[i \in 0..Len(q)] ==
            IF i = 0 THEN <<>>
            ELSE IF q[i].id \in R THEN kept[i - 1] ELSE Append(kept[i - 1], q[i])
    IN  kept[Len(q)]

Without(r) == Outside(queue, {r})

Event == events < MaxEvent /\ events' = events + 1

(* The key's authorization is gone, or the deadline has passed.            *)
Dead == expired \cup revoked
-----------------------------------------------------------------------------
(* The pump.                                                               *)

PumpBy(owner) ==
    /\ pump' = [Idle EXCEPT !.owner = owner, !.pc = "scan"]
    /\ missed' = FALSE

(* _preview of a waiter that is not dead: the cause to dispatch it for and *)
(* the legs.  A primary with no leg may use what blocks its primaries.     *)
PreviewCause(r) ==
    LET c == IF pump.once[r] = "none" THEN cause[r] ELSE pump.once[r]
        b == PrimaryBlockingCause(r)
    IN  IF Filter(r, c) = {} /\ c = "primary" /\ b # {} THEN CHOOSE x \in b : TRUE ELSE c

Preview(r) ==
    IF active[KeyOf(r)] >= MaxConcurrency THEN {}
    ELSE {i \in Filter(r, PreviewCause(r)) : CanSend(r, i)}

PreviewAccounts(r) == {AccountOf(r, i) : i \in Preview(r)}

(* unprotected_accounts: a flexible entry leaves alone what the scarce     *)
(* entries among R could use.                                              *)
Allowed(r, R) ==
    IF EntryOf(r).class = "scarce" THEN PreviewAccounts(r)
    ELSE PreviewAccounts(r) \ UNION {PreviewAccounts(x) : x \in {y \in R : EntryOf(y).class = "scarce"}}

(* The pump returns: its owner goes on to wait for its future.             *)
PumpDone ==
    /\ pump' = Idle
    /\ task' = IF pump.owner = WAKE THEN task ELSE [task EXCEPT ![pump.owner] = "wait"]

Exclude(r) == pump' = [pump EXCEPT !.pc = "scan", !.excluded = @ \cup {r}, !.pick = <<>>]

(* One round of the loop up to the activation gate: _previews fails the    *)
(* dead, propose selects, an entry without an allowed account is excluded. *)
Scan ==
    LET ready == {r \in Waiting \ Dead : Preview(r) # {}}
        A == {i \in DOMAIN queue : queue[i].id \in ready \ pump.excluded}
    IN  /\ pump.pc = "scan"
        /\ queue' = Outside(queue, Dead)
        /\ future' = [r \in Request |-> IF r \in Waiting \cap Dead THEN "error" ELSE future[r]]
        /\ IF A = {} THEN PumpDone
           ELSE /\ \E s \in Fairness!Selections(A) :
                   LET r == s.entry.id
                       allowed == Allowed(r, ready)
                   IN  IF allowed = {} THEN Exclude(r)
                       ELSE pump' = [pump EXCEPT !.pc = "gate", !.pick =
                               <<[id |-> r, fair |-> s.fair, cause |-> PreviewCause(r),
                                  legs |-> Preview(r), leg |-> 0,
                                  avoid |-> PreviewAccounts(r) \ allowed]>>]
                /\ UNCHANGED task
        /\ UNCHANGED <<runtime, cause, expired, revoked, fair, active, wakes, missed,
                       events>>

Pick == pump.pick[1]

(* Mutant of Reauthorized: what the preview saw is good enough.            *)
ReauthorizedEarlier(r) == TRUE

(* The second look, inside the activation gate.                            *)
Reauthorized(r) == r \notin Dead

(* Inside the gate: authorize again, select, take an active permit.        *)
EnterGate ==
    LET r == Pick.id
        once == [pump.once EXCEPT ![r] = IF @ = Pick.cause THEN "none" ELSE @]
        found == {i \in Filter(r, Pick.cause) : AccountOf(r, i) \notin Pick.avoid}
    IN  /\ pump.pc = "gate"
        /\ IF ~Reauthorized(r)
           THEN /\ queue' = Without(r) /\ future' = [future EXCEPT ![r] = "error"]
                /\ pump' = [pump EXCEPT !.pc = "scan", !.pick = <<>>]
                /\ UNCHANGED active
           ELSE /\ UNCHANGED <<queue, future>>
                /\ IF \/ found = {} \/ Min(found) \notin Pick.legs \/ ~CanSend(r, Min(found))
                      \/ active[KeyOf(r)] >= MaxConcurrency
                   THEN /\ pump' = [pump EXCEPT !.pc = "scan", !.excluded = @ \cup {r},
                                                !.once = once, !.pick = <<>>]
                        /\ UNCHANGED active
                   ELSE /\ pump' = [pump EXCEPT !.pc = "reserve", !.once = once,
                                                !.pick[1].leg = Min(found)]
                        /\ active' = [active EXCEPT ![KeyOf(r)] = @ + 1]
        /\ UNCHANGED <<runtime, task, cause, expired, revoked, fair, wakes, missed, events>>

(* Mutant of PermitBack: the denial keeps the permit.                      *)
PermitKept(r) == active

PermitBack(r) == [active EXCEPT ![KeyOf(r)] = @ - 1]

(* try_reserve_async returns.  After a denial that leads to another cause  *)
(* the entry is tried once more for that cause, else it is excluded.       *)
Reserve ==
    LET r == Pick.id
        answer == IF r \in expired THEN "none" ELSE Reservation(r, Pick.leg)
    IN  /\ pump.pc = "reserve"
        /\ IF answer = "granted"
           THEN /\ slot' = [slot EXCEPT ![r] = Pick.leg]
                /\ pump' = [pump EXCEPT !.pc = "mark"]
                /\ UNCHANGED active
           ELSE /\ active' = PermitBack(r)
                /\ IF answer = "none" THEN Exclude(r)
                   ELSE pump' = [pump EXCEPT !.pc = "scan", !.once[r] = answer, !.pick = <<>>]
                /\ UNCHANGED slot
        /\ UNCHANGED <<shadows, sent, gate, task, future, cause, expired, revoked,
                       queue, fair, wakes, missed, events>>

(* mark_dispatched_async returns: the lease goes to the waiter.            *)
Mark ==
    LET r == Pick.id
    IN  /\ pump.pc = "mark" /\ r \notin expired
        /\ sent' = [sent EXCEPT ![r] = @ \cup {Pick.leg}]
        /\ queue' = Without(r) /\ fair' = Pick.fair
        /\ future' = [future EXCEPT ![r] = "lease"]
        /\ pump' = [pump EXCEPT !.pc = "scan", !.excluded = {}, !.pick = <<>>]
        /\ UNCHANGED <<slot, shadows, gate, task, cause, expired, revoked, active,
                       wakes, missed, events>>

(* mark_dispatched raises because the deadline has passed: the attempt is  *)
(* finished, and the exception leaves through the task that pumps, whose   *)
(* own entry stays where it is.                                            *)
MarkRaises ==
    LET r == Pick.id
    IN  /\ pump.pc = "mark" /\ r \in expired
        /\ slot' = [slot EXCEPT ![r] = 0]
        /\ active' = PermitBack(r)
        /\ pump' = Idle /\ missed' = TRUE
        /\ task' = IF pump.owner = WAKE THEN task ELSE [task EXCEPT ![pump.owner] = "failed"]
        /\ UNCHANGED <<shadows, sent, gate, future, cause, expired, revoked, queue,
                       fair, wakes, events>>

(* wake.                                                                   *)
Wake ==
    /\ wakes > 0 /\ pump.pc = "idle"
    /\ wakes' = wakes - 1 /\ PumpBy(WAKE)
    /\ UNCHANGED <<runtime, task, future, cause, expired, revoked, waiters, active,
                   events>>
-----------------------------------------------------------------------------
(* The task of a request.                                                  *)

Refused(r) ==
    \/ SendClosed(r) \/ r \in Dead
    \/ Len(queue) >= MaxGlobal
    \/ Cardinality({x \in Waiting : KeyOf(x) = KeyOf(r)}) >= MaxWaiters

(* acquire, with the lock: queue and pump.                                 *)
Enter(r) ==
    /\ task[r] = "enter" /\ pump.pc = "idle"
    /\ IF Refused(r)
       THEN /\ task' = [task EXCEPT ![r] = "failed"]
            /\ UNCHANGED <<future, queue, pump, missed>>
       ELSE /\ task' = [task EXCEPT ![r] = "pump"]
            /\ future' = [future EXCEPT ![r] = "pending"]
            /\ queue' = Append(queue, EntryOf(r))
            /\ PumpBy(r)
    /\ UNCHANGED <<runtime, cause, expired, revoked, fair, active, wakes, events>>

(* The future is done.                                                     *)
Resume(r) ==
    /\ task[r] = "wait" /\ future[r] \in {"lease", "error"}
    /\ task' = [task EXCEPT ![r] = IF future[r] = "lease" THEN "leased" ELSE "failed"]
    /\ UNCHANGED <<runtime, future, cause, expired, revoked, waiters, pump, active,
                   wakes, missed, events>>

(* Mutant of Released: nobody is woken.                                    *)
ReleasedQuietly(r) ==
    /\ future' = [future EXCEPT ![r] = "released"]
    /\ active' = PermitBack(r)
    /\ UNCHANGED wakes

(* _release: the permit goes back and a wake task is created.              *)
Released(r) ==
    /\ future' = [future EXCEPT ![r] = "released"]
    /\ active' = PermitBack(r)
    /\ wakes' = wakes + 1

(* finish_async: the attempt is over, or uncertain and keeps its slot.     *)
Finish(r) ==
    /\ task[r] = "leased"
    /\ Released(r)
    /\ slot' \in {slot, [slot EXCEPT ![r] = 0]}
    /\ task' = [task EXCEPT ![r] = "done"]
    /\ UNCHANGED <<shadows, sent, gate, cause, expired, revoked, waiters, pump, missed,
                   events>>

(* fail_before_send, and acquire again for an alternate leg.               *)
Retry(r) ==
    /\ task[r] = "leased" /\ HasAlternate(r, slot[r], "failure")
    /\ Released(r)
    /\ slot' = [slot EXCEPT ![r] = 0]
    /\ task' = [task EXCEPT ![r] = "enter"] /\ cause' = [cause EXCEPT ![r] = "failure"]
    /\ UNCHANGED <<shadows, sent, gate, expired, revoked, waiters, pump, missed, events>>

(* The client leaves or the deadline handle fires: a task that awaits the  *)
(* lock or its future goes to clean up, and a second cancellation while it *)
(* awaits the lock again skips the clean-up.                               *)
Cancel(r) ==
    /\ task[r] \in {"enter", "wait", "cleanup"} /\ Event
    /\ task' = [task EXCEPT ![r] = IF @ = "cleanup" THEN "cancelled" ELSE "cleanup"]
    /\ UNCHANGED <<runtime, future, cause, expired, revoked, waiters, pump, active, wakes,
                   missed>>

(* The task that pumps is cancelled at one of the pump's awaits: a         *)
(* reservation in flight is undone; the dispatch may be on disk already.   *)
CancelPump ==
    LET o == pump.owner
    IN  /\ pump.pc \in {"gate", "reserve", "mark"} /\ o # WAKE
        /\ Event
        /\ task' = [task EXCEPT ![o] = "cleanup"]
        /\ pump' = Idle /\ missed' = TRUE
        /\ slot' = [slot EXCEPT ![Pick.id] = 0]
        /\ active' = IF pump.pc = "gate" THEN active ELSE PermitBack(Pick.id)
        /\ sent' \in {sent} \cup (IF pump.pc = "mark"
                                  THEN {[sent EXCEPT ![Pick.id] = @ \cup {Pick.leg}]} ELSE {})
        /\ UNCHANGED <<shadows, gate, future, cause, expired, revoked, waiters, wakes>>

(* The except branch of acquire, with the lock.                            *)
Cleanup(r) ==
    /\ task[r] = "cleanup" /\ pump.pc = "idle"
    /\ queue' = Without(r)
    /\ task' = [task EXCEPT ![r] = "cancelled"]
    /\ IF future[r] = "lease"
       THEN Released(r) /\ slot' = [slot EXCEPT ![r] = 0]
       ELSE /\ future' = [future EXCEPT ![r] = IF @ = "pending" THEN "cancelled" ELSE @]
            /\ UNCHANGED <<active, wakes, slot>>
    /\ UNCHANGED <<shadows, sent, gate, cause, expired, revoked, fair, pump, missed, events>>
-----------------------------------------------------------------------------
(* Shadow attempts and the environment.                                    *)

InGate == pump.pc \in {"reserve", "mark"}

(* try_acquire_shadow, inside the activation gate: no permit, no queue.    *)
ShadowStart(a) ==
    /\ ~InGate /\ Available(a) /\ gate[a] = "open"
    /\ Event
    /\ shadows' = [shadows EXCEPT ![a] = @ + 1]
    /\ missed' = TRUE
    /\ UNCHANGED <<slot, sent, gate, task, future, cause, expired, revoked, waiters,
                   pump, active, wakes>>

(* The shadow's lease is finished; its _release_active does nothing.       *)
ShadowEnd(a) ==
    /\ shadows[a] > 0
    /\ shadows' = [shadows EXCEPT ![a] = @ - 1]
    /\ missed' = TRUE
    /\ UNCHANGED <<slot, sent, gate, task, future, cause, expired, revoked, waiters,
                   pump, active, wakes, events>>

(* A rate window fills or opens, a circuit opens or is closed, a           *)
(* publication changes an account: none of them wakes the queue.           *)
Move(a, g) ==
    /\ <<a, gate[a], g>> \in Moves /\ Event
    /\ gate' = [gate EXCEPT ![a] = g]
    /\ missed' = TRUE
    /\ UNCHANGED <<slot, shadows, sent, task, future, cause, expired, revoked, waiters,
                   pump, active, wakes>>

(* While the pump runs, the accounts of a scarce waiter are kept from the  *)
(* others.  Those it has set aside are not looked at again when the waiter *)
(* dies: nobody is told that its accounts are free.                        *)
DiesUnheard(r) ==
    missed' = (missed \/ (pump.pc # "idle" /\ r \in Waiting /\ EntryOf(r).class = "scarce"))

Expire(r) ==
    /\ r \notin expired
    /\ expired' = expired \cup {r}
    /\ Event /\ DiesUnheard(r)
    /\ UNCHANGED <<runtime, task, future, cause, revoked, waiters, pump, active, wakes>>

(* A publication without the client's key, or that disables it, takes the  *)
(* authorization away; it holds the activation gate.                       *)
Revoke(r) ==
    /\ ~InGate /\ r \notin revoked
    /\ revoked' = revoked \cup {r}
    /\ Event /\ DiesUnheard(r)
    /\ UNCHANGED <<runtime, task, future, cause, expired, waiters, pump, active, wakes>>

Init ==
    /\ slot = [r \in Request |-> 0] /\ shadows = [a \in Account |-> 0]
    /\ sent = [r \in Request |-> {}] /\ gate = [a \in Account |-> "open"]
    /\ task = [r \in Request |-> "enter"] /\ future = [r \in Request |-> "none"]
    /\ cause = [r \in Request |-> "primary"]
    /\ expired = {} /\ revoked = {}
    /\ queue = <<>> /\ fair = Fairness!Start /\ pump = Idle
    /\ active = [k \in Key |-> 0] /\ wakes = 0 /\ missed = FALSE
    /\ events = 0

Next ==
    \/ Scan \/ EnterGate \/ Reserve \/ Mark \/ MarkRaises \/ Wake \/ CancelPump
    \/ \E r \in Request : \/ Enter(r) \/ Resume(r) \/ Finish(r) \/ Retry(r)
                          \/ Cancel(r) \/ Cleanup(r) \/ Expire(r) \/ Revoke(r)
    \/ \E a \in Account : ShadowStart(a) \/ ShadowEnd(a)
    \/ \E a \in Account, g \in Gate : Move(a, g)

Spec == Init /\ [][Next]_vars
-----------------------------------------------------------------------------
(* A permit is held for a lease not released yet, and while the pump has   *)
(* one in flight.                                                          *)
Permit(r) == future[r] = "lease" \/ (InGate /\ Pick.id = r)

(* _active_by_key counts exactly the permits in use, through denials,      *)
(* cancelled pumps, raised dispatches and leases nobody picked up: none is *)
(* leaked and none given back twice.  No limit is passed: concurrency of a *)
(* key, waiters in the queue, slots of an account.                         *)
PermitsAccounted ==
    /\ \A k \in Key :
          /\ active[k] = Cardinality({r \in Request : KeyOf(r) = k /\ Permit(r)})
          /\ active[k] <= MaxConcurrency
    /\ Len(queue) <= MaxGlobal /\ \A a \in Account : InUse(a) <= Parallel[a]

(* A request whose authorization is gone is never handed a lease, however  *)
(* the publication falls between preview, reservation and dispatch.        *)
NeverLeasedRevoked ==
    [][\A r \in revoked : future'[r] = "lease" => future[r] = "lease"]_vars

(* A waiter that could be dispatched now.                                  *)
Dispatchable(r) ==
    \E i \in Preview(r) : Reservation(r, i) = "granted"

(* Nobody pumps and nobody is about to.                                    *)
Asleep == pump.pc = "idle" /\ wakes = 0 /\ \A r \in Request : task[r] \notin {"enter", "cleanup"}

(* The queue sleeps only if it has nothing to grant, unless something      *)
(* happened since the last pump began of which nobody is told.             *)
SleepsWhenDone ==
    Asleep /\ ~missed => \A r \in Waiting \ Dead : ~Dispatchable(r)

(* No delay by shadows: a request is not left waiting for a free slot when *)
(* no pump is due and no lease is out whose end would start one.           *)
NoLostWakeup ==
    Asleep /\ (\A r \in Request : future[r] # "lease")
        => \A r \in Waiting \ Dead : ~Dispatchable(r)
=============================================================================
