--------------------------- MODULE AccountRuntime ---------------------------
(***************************************************************************)
(* One provider account of the Gateway: the live counters that admit       *)
(* attempts (gateway/runtime_state.py), the circuits that fence it         *)
(* (CircuitController in gateway/routing.py), and what a restart rebuilds   *)
(* from the attempt journal.                                               *)
(*                                                                         *)
(* The state is kept twice.  mem is the live ledger of AccountRuntime;     *)
(* disk is the ledger that a restart would reconstruct at this moment,     *)
(* i.e. the last checkpoint with every later record replayed.  An          *)
(* operation first appends one record and then updates mem, so an action   *)
(* gives both the live effect and the effect of replaying its record, as   *)
(* the code writes them twice (try_reserve/_finish/... and _apply_record). *)
(* Effects the code does not journal (the clock high-water, pruned         *)
(* resolutions, purged windows, the monthly roll) reach disk only through  *)
(* a checkpoint.                                                           *)
(*                                                                         *)
(* Every operation runs under RuntimeState._lock and waits for its fsync,  *)
(* so an operation is one step; threads interleave between operations, and *)
(* a crash or a journal failure may strike at each of them.                *)
(***************************************************************************)
EXTENDS Integers, FiniteSets, FiniteSetsExt

CONSTANTS
    Attempt,      \* attempt ids; numbers, because ties on age break by id
    Gen,          \* deployment generations served by the account
    Config,       \* published account configurations
    Request,      \* what a caller may ask to reserve
    KeepWindow,   \* how long a start is kept (_MAX_ROLLING_WINDOW_SECONDS)
    Retention,    \* how long a released resolution is kept
    LedgerLimit,  \* resolution_ledger_limit
    Backoff,      \* circuit backoff by step 0, 1, 2
    MaxClock,     \* bound: the last clock value explored
    MaxCrash,     \* bound: process crashes
    MaxEpoch,     \* bound: openings per circuit; a failed probe may add one
    MaxProbe      \* bound: circuit probe tokens minted

NoTime  == -1     \* a time that was never recorded
Unknown == -1     \* a quota dimension whose status is not KNOWN
NoProbe == 0      \* a circuit without a probe token

ACCOUNT == "account"
Scope   == {ACCOUNT} \cup Gen

Limit == Nat \cup {Unknown}

AccountConfig ==
    [state : {"active", "draining", "disabled"}, parallel : Nat,
     rpm : Limit, rpmWindow : Nat, tpm : Limit, tpmWindow : Nat,
     quota : Limit, resetAt : Nat, perAttempt : Nat]

ASSUME ConstantsAssumption ==
    /\ Attempt \subseteq Nat /\ IsFiniteSet(Attempt)
    /\ ACCOUNT \notin Gen
    /\ Config \subseteq AccountConfig /\ Config # {}
    /\ Request \subseteq [gen : Gen, ttl : Nat, tokens : Nat, quota : Nat]
    /\ KeepWindow \in Nat /\ Retention \in Nat /\ LedgerLimit \in Nat
    /\ Backoff \in [0..2 -> Nat]
    /\ MaxClock \in Nat /\ MaxCrash \in Nat /\ MaxEpoch \in Nat /\ MaxProbe \in Nat

(* A kept start outlives every window that may count it (schema bounds).   *)
ASSUME WindowsAssumption ==
    \A c \in Config : c.rpmWindow <= KeepWindow /\ c.tpmWindow <= KeepWindow

VARIABLES
    mem,      \* live ledger
    disk,     \* ledger a restart would rebuild
    saved,    \* resolutions in the newest checkpoint
    rsv,      \* payload of each attempt's attempt_reserved record
    cfg,      \* published configuration of the account
    status,   \* journal/process status
    clock,    \* wall clock; may step backwards
    lease,    \* what the caller holds in this boot
    wire,     \* what really happens at the provider (external)
    evicted,  \* attempts whose capacity an observation gave back (history)
    minted,   \* circuit probe tokens handed out
    crashes   \* crashes so far

vars == <<mem, disk, saved, rsv, cfg, status, clock, lease, wire, evicted,
          minted, crashes>>

Circuit == [state : {"closed", "open", "half_open"}, epoch : Nat,
            retry : Int, step : Nat, probe : Nat]

Ledger ==
    [active : SUBSET Attempt, uncertain : SUBSET Attempt,
     dispatched : SUBSET Attempt, starts : SUBSET Attempt,
     counted : SUBSET Attempt, tokens : [Attempt -> Nat],
     resolved : [Attempt -> Int], used : Nat, reset : Int, holds : Nat,
     probing : {"no", "yes"}, hw : Int, circuit : [Scope -> Circuit],
     consumed : SUBSET Nat, replayable : {"yes", "no"}]

Payload == [at : Int, deadline : Int, tokens : Nat, quota : Nat,
            reset : Int, probes : SUBSET Nat]

Blank == [at |-> NoTime, deadline |-> 0, tokens |-> 0, quota |-> 0,
          reset |-> 0, probes |-> {}]

Closed(epoch) == [state |-> "closed", epoch |-> epoch, retry |-> 0,
                  step |-> 0, probe |-> NoProbe]

(* The ledger of a runtime nobody has used yet.                            *)
Empty(hw, reset) ==
    [active |-> {}, uncertain |-> {}, dispatched |-> {}, starts |-> {},
     counted |-> {}, tokens |-> [a \in Attempt |-> 0],
     resolved |-> [a \in Attempt |-> NoTime], used |-> 0, reset |-> reset,
     holds |-> 0, probing |-> "no", hw |-> hw,
     circuit |-> [s \in Scope |-> Closed(0)], consumed |-> {},
     replayable |-> "yes"]

Larger(x, y)  == IF x >= y THEN x ELSE y
Smaller(x, y) == IF x <= y THEN x ELSE y
(* Mutant of Monus: the difference without its floor at zero.              *)
Minus(x, y)   == x - y
Monus(x, y)   == IF x >= y THEN x - y ELSE 0

-----------------------------------------------------------------------------
(* Reading a ledger.                                                       *)

(* _attempts: every attempt that occupies a parallel slot.                 *)
Held(L) == L.active \cup L.uncertain

Resolved(L) == {a \in Attempt : L.resolved[a] # NoTime}

(* _active_count and _uncertain_count.                                     *)
ActiveCount(L)    == Cardinality(Held(L)) + L.holds
UncertainCount(L) == Cardinality(L.uncertain) + L.holds

(* Resolutions plus unresolved attempts: what the ledger bound counts.     *)
LedgerSize(L) == Cardinality(Resolved(L) \cup Held(L))

InWindow(A, now, w) == {a \in A : rsv[a].at > now - w}

RpmStarts(L, c, now) == Cardinality(InWindow(L.counted, now, c.rpmWindow))

TpmTokens(L, c, now) ==
    MapThenSumSet(LAMBDA a : L.tokens[a], InWindow(L.starts, now, c.tpmWindow))

(* (started_at_ms, attempt_id) order.                                      *)
Older(a, b) == \/ rsv[a].at < rsv[b].at
               \/ rsv[a].at = rsv[b].at /\ a < b

Oldest(A, n) == {a \in A : Cardinality({b \in A : Older(b, a)}) < n}

-----------------------------------------------------------------------------
(* Effects that are not journaled.                                         *)

(* _now_ms: the clock never runs backwards within one boot.                *)
Now(L) == Larger(L.hw, clock)
Touch(L) == [L EXCEPT !.hw = Now(L)]

(* _prune_resolutions: a resolution goes once it is old and its attempt    *)
(* no longer occupies a slot.                                              *)
PruneResolutions(L, now) ==
    [L EXCEPT !.resolved = [a \in Attempt |->
        IF L.resolved[a] <= now - Retention /\ a \notin Held(L)
        THEN NoTime ELSE L.resolved[a]]]

(* Mutant of PurgeWindows: a start goes although its attempt is held.      *)
PurgeHeldToo(L, now) ==
    LET kept == {a \in L.starts : rsv[a].at > now - KeepWindow}
    IN  [L EXCEPT !.starts = kept, !.counted = L.counted \cap kept]

(* _purge_windows: a start goes once no window can count it, unless its    *)
(* attempt still occupies a slot.                                          *)
PurgeWindows(L, now) ==
    LET kept == {a \in L.starts : rsv[a].at > now - KeepWindow} \cup
                (L.starts \cap Held(L))
    IN  [L EXCEPT !.starts = kept, !.counted = L.counted \cap kept]

RollMonthly(L, now) ==
    IF L.reset # 0 /\ now >= L.reset
    THEN [L EXCEPT !.used = 0, !.reset = 0]
    ELSE L

NextMonthlyReset(c, now) ==
    IF c.quota # Unknown /\ c.resetAt > now THEN c.resetAt ELSE 0

(* update_account: a later reset replaces the running one, the usage       *)
(* counted so far stays.                                                   *)
UpdateAccount(L, c) ==
    LET now       == Now(L)
        rolled    == RollMonthly(Touch(L), now)
        candidate == NextMonthlyReset(c, now)
    IN  [rolled EXCEPT !.reset =
            IF rolled.reset = 0 \/ candidate > rolled.reset
            THEN candidate ELSE rolled.reset]

-----------------------------------------------------------------------------
(* Journaled effects.  Live... is what the operation does to mem, Replay...*)
(* what _apply_record does with its record; where the code shares one      *)
(* function between the two, so does the model.  A replay that raises      *)
(* makes the journal unreplayable.                                         *)

Broken(L) == [L EXCEPT !.replayable = "no"]

(* Mutant of LiveReserved: the probe token stays available.                *)
ReservedUnspent(L, a, p) ==
    [L EXCEPT !.starts = @ \cup {a}, !.counted = @ \cup {a},
              !.tokens[a] = p.tokens, !.active = @ \cup {a},
              !.used = @ + p.quota]

LiveReserved(L, a, p) ==
    [L EXCEPT !.starts = @ \cup {a}, !.counted = @ \cup {a},
              !.tokens[a] = p.tokens, !.active = @ \cup {a},
              !.consumed = @ \cup p.probes, !.used = @ + p.quota]

(* Mutants of ReplayReserved: the replay forgets the quota, or the token.  *)
ReplayUncharged(L, a, p) ==
    [L EXCEPT !.starts = @ \cup {a}, !.counted = @ \cup {a},
              !.tokens[a] = p.tokens, !.active = @ \cup {a},
              !.consumed = @ \cup p.probes, !.reset = p.reset]

ReplayUnspent(L, a, p) ==
    [L EXCEPT !.starts = @ \cup {a}, !.counted = @ \cup {a},
              !.tokens[a] = p.tokens, !.active = @ \cup {a},
              !.used = @ + p.quota, !.reset = p.reset]

ReplayReserved(L, a, p) ==
    LET used == IF L.reset = p.reset THEN L.used ELSE 0
    IN  [L EXCEPT !.starts = @ \cup {a}, !.counted = @ \cup {a},
                  !.tokens[a] = p.tokens, !.active = @ \cup {a},
                  !.consumed = @ \cup p.probes, !.used = used + p.quota,
                  !.reset = p.reset]

LiveDispatched(L, a) == [L EXCEPT !.dispatched = @ \cup {a}]

ReplayDispatched(L, a) ==
    IF a \in Held(L) THEN [L EXCEPT !.dispatched = @ \cup {a}] ELSE Broken(L)

(* How a caller may resolve an attempt.  answered: the provider finished   *)
(* it; refused: the provider turned it away for capacity; unsent: it never *)
(* left; ambiguous: nobody knows, the slot stays taken.                    *)
Resolution == {"answered", "refused", "unsent", "ambiguous"}

(* Mutant of ChargeRefunded: what may have been sent is refunded.          *)
ChargeRefundedUnlessAnswered(k) == k # "answered"

StartRefunded(k)  == k = "unsent"
ChargeRefunded(k) == k \in {"unsent", "refused"}

(* The slot: released, or kept as uncertain.                               *)
Settle(L, a, k) ==
    [L EXCEPT !.active = @ \ {a},
              !.uncertain = IF k = "ambiguous" THEN @ \cup {a} ELSE @ \ {a},
              !.dispatched = IF k = "ambiguous" THEN @ ELSE @ \ {a},
              !.counted = IF StartRefunded(k) THEN @ \ {a} ELSE @,
              !.tokens[a] = IF ChargeRefunded(k) THEN 0 ELSE @]

LiveResolved(L, a, k, at) ==
    [Settle(L, a, k) EXCEPT
        !.used = IF ChargeRefunded(k) /\ rsv[a].reset = L.reset
                 THEN Monus(@, rsv[a].quota) ELSE @,
        !.resolved[a] = at]

(* The replay refunds the quota whatever period the attempt was charged in *)
ReplayResolved(L, a, k, at) ==
    IF L.resolved[a] # NoTime THEN L
    ELSE IF a \notin Held(L) \/ a \notin L.starts THEN Broken(L)
    ELSE [Settle(L, a, k) EXCEPT
             !.used = IF ChargeRefunded(k) THEN Monus(@, rsv[a].quota) ELSE @,
             !.resolved[a] = at]

ReplayUncertain(L, a) ==
    IF a \in Held(L)
    THEN [L EXCEPT !.active = @ \ {a}, !.uncertain = @ \cup {a}]
    ELSE L

Release(L, A) == [L EXCEPT !.active = @ \ A, !.uncertain = @ \ A,
                           !.dispatched = @ \ A]

(* _apply_authoritative_active_count: keep the n oldest, hold the rest of  *)
(* the count as slots taken by nobody we know.                             *)
ApplyCount(L, n) ==
    IF L.active # {} THEN Broken(L)
    ELSE LET kept == Oldest(Held(L), n)
         IN  [Release(L, Held(L) \ kept) EXCEPT
                 !.holds = Monus(n, Cardinality(Held(L)))]

LiveProbeStarted(L) == [L EXCEPT !.probing = "yes"]

(* _apply_recovery_probe_finished: an available provider gives one slot    *)
(* back, an external hold before the oldest uncertain attempt.             *)
ProbeReleases(L, available) ==
    IF available /\ L.holds = 0 THEN Oldest(L.uncertain, 1) ELSE {}

ProbeFinished(L, available) ==
    [Release(L, ProbeReleases(L, available)) EXCEPT
        !.holds = IF available THEN Monus(@, 1) ELSE @,
        !.probing = "no"]

(* compare_and_swap_circuit: a replaced probe token may be consumed again. *)
SetCircuit(L, s, v) ==
    [L EXCEPT !.consumed = @ \ {L.circuit[s].probe}, !.circuit[s] = v]

-----------------------------------------------------------------------------
(* Durability.  An append either succeeds, or fails: the caller then sees  *)
(* JournalUnavailable, mem is not updated, the record may or may not have  *)
(* reached the disk, and the journal stays in RECOVERY_REQUIRED.           *)

(* Mutant of Checkpointed: the snapshot leaves the uncertain attempts out. *)
SnapshotWithoutUncertain(live, replayed, forced, next) ==
    \/ ~forced /\ disk' = replayed /\ saved' = saved /\ status' = next
    \/ /\ disk' = [live EXCEPT !.uncertain = {}] /\ status' = next
       /\ saved' = Cardinality(Resolved(live))

(* _maybe_checkpoint_locked after a successful append: forced when the     *)
(* account is not active, otherwise only when due.  A checkpoint that      *)
(* fails may still have been renamed into place.                           *)
Checkpointed(live, replayed, forced, next) ==
    \/ /\ ~forced
       /\ disk' = replayed /\ saved' = saved /\ status' = next
    \/ /\ disk' = live /\ saved' = Cardinality(Resolved(live))
       /\ status' = next
    \/ /\ \/ disk' = replayed /\ saved' = saved
          \/ disk' = live /\ saved' = Cardinality(Resolved(live))
       /\ status' = "recovery_required"

AppendFails(replayed) ==
    /\ disk' \in {disk, replayed} /\ saved' = saved
    /\ status' = "recovery_required"

Commit(before, live, replayed) ==
    \/ mem' = live /\ Checkpointed(live, replayed, cfg.state # "active", status)
    \/ mem' = before /\ AppendFails(replayed)

Serving == status = "healthy"

-----------------------------------------------------------------------------
(* Admission.                                                              *)

(* The half-open circuits' probe tokens a reservation would consume.       *)
ProbesOf(L, g) ==
    {L.circuit[s].probe : s \in {s \in {ACCOUNT, g} :
                                   L.circuit[s].state = "half_open"}}

(* The checks of try_reserve before the windows are purged.  The request   *)
(* carries the circuits its route was planned with: a stale one is denied, *)
(* so a grant always sees the current circuits.                            *)
EarlyChecks(L, a, r, now, deadline) ==
    /\ LedgerSize(L) < LedgerLimit
    /\ r.quota >= cfg.perAttempt
    /\ deadline > now
    /\ a \notin Held(L) \cup L.starts \cup Resolved(L)
    /\ \A s \in {ACCOUNT, r.gen} : L.circuit[s].state # "open"
    /\ ProbesOf(L, r.gen) \cap L.consumed = {}

(* The limits, after the purge and the monthly roll.                       *)
ResetKnown(L, r) == cfg.quota # Unknown /\ r.quota > 0 => L.reset # 0
(* Mutant of ParallelFree: uncertain attempts take no slot.                *)
ActiveFree(L)    == Cardinality(L.active) + L.holds < cfg.parallel
ParallelFree(L)  == ActiveCount(L) < cfg.parallel
RpmFree(L, now)  == cfg.rpm # Unknown => RpmStarts(L, cfg, now) < cfg.rpm
TpmFree(L, r, now) ==
    cfg.tpm # Unknown => TpmTokens(L, cfg, now) + r.tokens <= cfg.tpm
QuotaFree(L, r)  == cfg.quota # Unknown => L.used + r.quota <= cfg.quota

Limits(L, r, now) ==
    /\ ResetKnown(L, r)
    /\ ParallelFree(L)
    /\ RpmFree(L, now)
    /\ TpmFree(L, r, now)
    /\ QuotaFree(L, r)

(* The durable reservation and the live one agree; a lease is returned     *)
(* only when the checkpoint that may follow succeeds too.                  *)
Grant(L, a, p) ==
    /\ rsv' = [rsv EXCEPT ![a] = p]
    /\ Commit(L, LiveReserved(L, a, p), ReplayReserved(disk, a, p))
    /\ lease' = [lease EXCEPT ![a] = IF status' = "healthy" THEN "held" ELSE @]

TryReserve(a, r, stale) ==
    LET now      == Now(mem)
        pruned   == PruneResolutions(Touch(mem), now)
        fresh    == RollMonthly(PurgeWindows(pruned, now), now)
        deadline == clock + r.ttl
        early    == ~stale /\ EarlyChecks(pruned, a, r, now, deadline)
        payload  == [at |-> now, deadline |-> deadline, tokens |-> r.tokens,
                     quota |-> r.quota, reset |-> fresh.reset,
                     probes |-> ProbesOf(fresh, r.gen)]
    IN  /\ Serving
        /\ mem.probing = "no"
        /\ cfg.state = "active"
        /\ rsv[a].at = NoTime                  \* attempt ids are fresh
        /\ \/ /\ ~early
              /\ mem' = pruned
              /\ UNCHANGED <<disk, saved, rsv, status, lease>>
           \/ /\ early /\ ~Limits(fresh, r, now)
              /\ mem' = fresh
              /\ UNCHANGED <<disk, saved, rsv, status, lease>>
           \/ /\ early /\ Limits(fresh, r, now)
              /\ Grant(fresh, a, payload)
        /\ UNCHANGED <<cfg, clock, wire, evicted, minted, crashes>>

(* capacity(): reading the counters purges and rolls them.  (After a       *)
(* journal failure nothing of mem is used again before the restart.)       *)
Capacity ==
    /\ Serving
    /\ LET now == Now(mem)
       IN  mem' = RollMonthly(PurgeWindows(Touch(mem), now), now)
    /\ UNCHANGED <<disk, saved, rsv, cfg, status, clock, lease, wire, evicted,
                   minted, crashes>>

-----------------------------------------------------------------------------
(* The life of an attempt.                                                 *)

MarkDispatched(a) ==
    LET m == Touch(mem)
    IN  /\ Serving
        /\ lease[a] = "held"
        /\ a \in Held(mem) \ Resolved(mem)
        /\ a \notin mem.dispatched
        /\ \/ /\ Now(mem) < rsv[a].deadline
              /\ Commit(m, LiveDispatched(m, a), ReplayDispatched(disk, a))
              /\ lease' = [lease EXCEPT
                              ![a] = IF status' = "healthy" THEN "cleared" ELSE @]
           \/ /\ Now(mem) >= rsv[a].deadline
              /\ mem' = m
              /\ UNCHANGED <<disk, saved, status, lease>>
        /\ UNCHANGED <<rsv, cfg, clock, wire, evicted, minted, crashes>>

(* The caller sends only after mark_dispatched returned.                   *)
Send(a) ==
    /\ status # "down"
    /\ lease[a] = "cleared" /\ wire[a] = "unsent"
    /\ wire' = [wire EXCEPT ![a] = "running"]
    /\ UNCHANGED <<mem, disk, saved, rsv, cfg, status, clock, lease, evicted,
                   minted, crashes>>

(* The provider finishes or refuses it, whether or not anyone listens.     *)
ProviderEnds(a, how) ==
    /\ wire[a] = "running"
    /\ wire' = [wire EXCEPT ![a] = how]
    /\ UNCHANGED <<mem, disk, saved, rsv, cfg, status, clock, lease, evicted,
                   minted, crashes>>

(* What the caller may claim, from what it saw.                            *)
Truthful(a, k) ==
    CASE k = "answered"  -> wire[a] = "ended"
      [] k = "refused"   -> wire[a] = "refused"
      [] k = "unsent"    -> wire[a] = "unsent"
      [] k = "ambiguous" -> TRUE

(* Lease.finish, and finish_attempt on an attempt recovered by a restart.  *)
(* The first resolution wins; the caller is done with the lease even when  *)
(* the append fails.                                                       *)
Finish(a, k) ==
    LET m   == Touch(mem)
        now == Now(mem)
    IN  /\ Serving
        /\ a \in Held(mem) \ Resolved(mem)
        /\ Truthful(a, k)
        /\ Commit(m, LiveResolved(m, a, k, now), ReplayResolved(disk, a, k, now))
        /\ lease' = [lease EXCEPT ![a] = "none"]
        /\ UNCHANGED <<rsv, cfg, clock, wire, evicted, minted, crashes>>

-----------------------------------------------------------------------------
(* Reconciliation of capacity whose owner is unknown.                      *)

Running == {a \in Attempt : wire[a] = "running"}

(* apply_authoritative_active_count, with the count the provider reports.  *)
AuthoritativeCount ==
    LET n == Cardinality(Running)
    IN  /\ Serving
        /\ mem.active = {}
        /\ Commit(mem, ApplyCount(mem, n), ApplyCount(disk, n))
        /\ evicted' = evicted \cup (Held(mem) \ Oldest(Held(mem), n))
        /\ UNCHANGED <<rsv, cfg, clock, lease, wire, minted, crashes>>

BeginRecoveryProbe ==
    /\ Serving
    /\ mem.probing = "no" /\ UncertainCount(mem) > 0 /\ mem.active = {}
    /\ Commit(mem, LiveProbeStarted(mem), LiveProbeStarted(disk))
    /\ UNCHANGED <<rsv, cfg, clock, lease, wire, evicted, minted, crashes>>

FinishRecoveryProbe(available) ==
    /\ Serving
    /\ mem.probing = "yes" /\ mem.active = {}
    /\ Commit(mem, ProbeFinished(mem, available), ProbeFinished(disk, available))
    /\ evicted' = evicted \cup ProbeReleases(mem, available)
    /\ UNCHANGED <<rsv, cfg, clock, lease, wire, minted, crashes>>

-----------------------------------------------------------------------------
(* Circuits.  Every transition is a compare-and-swap; the controller runs  *)
(* on the event loop, so reading the value and swapping it is one step.    *)

(* _replacement: epoch + 1, and a retry time by backoff step.              *)
Opened(v, step) ==
    [state |-> "open", epoch |-> v.epoch + 1,
     retry |-> clock + Backoff[Smaller(step, 2)], step |-> step,
     probe |-> NoProbe]

Swap(s, v) ==
    /\ Commit(mem, SetCircuit(mem, s, v), SetCircuit(disk, s, v))
    /\ UNCHANGED <<rsv, cfg, clock, lease, wire, evicted, crashes>>

(* open: a closed circuit keeps its step, a half-open one backs off more.  *)
OpenCircuit(s) ==
    LET v    == mem.circuit[s]
        step == Smaller(IF v.state = "half_open" THEN v.step + 1 ELSE v.step, 2)
    IN  /\ Serving
        /\ v.state # "open" /\ v.epoch < MaxEpoch
        /\ Swap(s, Opened(v, step))
        /\ UNCHANGED minted

(* begin_probe for generation g: the account's circuit before g's own.     *)
BeginProbe(g) ==
    LET s == IF mem.circuit[ACCOUNT].state = "open" THEN ACCOUNT ELSE g
        v == mem.circuit[s]
    IN  /\ Serving /\ minted < MaxProbe
        /\ v.state = "open" /\ clock >= v.retry
        /\ minted' = minted + 1
        /\ Swap(s, [v EXCEPT !.state = "half_open", !.retry = 0,
                             !.probe = minted + 1])

ProbeSucceeded(s) ==
    LET v == mem.circuit[s]
    IN  /\ Serving
        /\ v.state = "half_open"
        /\ Swap(s, Closed(v.epoch))
        /\ UNCHANGED minted

(* probe_failed, and abandon_candidate by any holder of a half-open value. *)
ProbeFailed(s) ==
    LET v == mem.circuit[s]
    IN  /\ Serving
        /\ v.state = "half_open" /\ v.epoch <= MaxEpoch
        /\ Swap(s, Opened(v, Smaller(v.step + 1, 2)))
        /\ UNCHANGED minted

-----------------------------------------------------------------------------
(* Publication, time, crash and restart.                                   *)

(* apply_publication for this account.  A changed state is journaled by a  *)
(* record that does not touch the ledger; an account dropped from the      *)
(* publication (state "disabled") is checkpointed at once, a draining one  *)
(* is still published but admits nothing.                                  *)
Publish(c) ==
    LET m == UpdateAccount(mem, c)
    IN  /\ Serving /\ c # cfg
        /\ \/ /\ cfg' = c /\ mem' = m
              /\ Checkpointed(m, disk, c.state = "disabled", status)
           \/ /\ c.state # cfg.state
              /\ mem' = mem /\ cfg' = cfg
              /\ AppendFails(disk)
        /\ UNCHANGED <<rsv, clock, lease, wire, evicted, minted, crashes>>

(* RuntimeState.checkpoint, the one in close(), and the checkpoint another *)
(* account's operation takes: a snapshot holds every account.              *)
TakeCheckpoint ==
    /\ Serving
    /\ Checkpointed(mem, disk, FALSE, status)
    /\ UNCHANGED <<mem, rsv, cfg, clock, lease, wire, evicted, minted, crashes>>

ClockStep(t) ==
    /\ clock' = t
    /\ UNCHANGED <<mem, disk, saved, rsv, cfg, status, lease, wire, evicted,
                   minted, crashes>>

Crash ==
    /\ status # "down" /\ crashes < MaxCrash
    /\ status' = "down" /\ crashes' = crashes + 1
    /\ mem' = Empty(NoTime, NoTime)
    /\ lease' = [a \in Attempt |-> "none"]
    /\ UNCHANGED <<disk, saved, rsv, cfg, clock, wire, evicted, minted>>

(* Mutants of Rebuilt: the external holds, or the circuits, are lost.      *)
RebuiltWithoutHolds == [UpdateAccount(disk, cfg) EXCEPT !.holds = 0]
RebuiltClosed ==
    [UpdateAccount(disk, cfg) EXCEPT !.circuit = [s \in Scope |-> Closed(0)]]

(* RuntimeState.__init__: a fresh runtime, the checkpoint, the records,    *)
(* then the publication.  An oversized checkpoint or a record that does    *)
(* not replay is RECOVERY_REQUIRED.                                        *)
Rebuilt ==
    UpdateAccount(
        [disk EXCEPT
            !.hw    = IF @ = NoTime THEN clock ELSE @,
            !.reset = IF @ = NoTime THEN NextMonthlyReset(cfg, clock) ELSE @],
        cfg)

Boot ==
    /\ status = "down"
    /\ IF disk.replayable = "yes" /\ saved <= LedgerLimit
       THEN mem' = Rebuilt /\ Checkpointed(Rebuilt, disk, FALSE, "recovering")
       ELSE /\ status' = "recovery_required"
            /\ UNCHANGED <<mem, disk, saved>>
    /\ UNCHANGED <<rsv, cfg, clock, lease, wire, evicted, minted, crashes>>

(* _mark_recovered_attempts_uncertain, one record at a time: a crash may   *)
(* fall between any two.  The order is the code's: attempts, the recovery  *)
(* probe, the account's circuit, the generations' circuits.                *)
RecoverAttempt(a) ==
    LET m == ReplayUncertain(mem, a)
    IN  /\ status = "recovering" /\ a \in mem.active
        /\ \/ /\ mem' = m /\ disk' = ReplayUncertain(disk, a)
              /\ UNCHANGED <<saved, status>>
           \/ mem' = mem /\ AppendFails(ReplayUncertain(disk, a))
        /\ UNCHANGED <<rsv, cfg, clock, lease, wire, evicted, minted, crashes>>

RecoverProbe ==
    /\ status = "recovering" /\ mem.active = {} /\ mem.probing = "yes"
    /\ \/ /\ mem' = ProbeFinished(mem, FALSE)
          /\ disk' = ProbeFinished(disk, FALSE)
          /\ UNCHANGED <<saved, status>>
       \/ mem' = mem /\ AppendFails(ProbeFinished(disk, FALSE))
    /\ UNCHANGED <<rsv, cfg, clock, lease, wire, evicted, minted, crashes>>

HalfOpen(L) == {s \in Scope : L.circuit[s].state = "half_open"}

(* A crashed half-open probe reopens the circuit under a new epoch, with   *)
(* a retry at once.                                                        *)
RecoverCircuit(s) ==
    LET m == Touch(mem)
        v == mem.circuit[s]
        w == [v EXCEPT !.state = "open", !.epoch = @ + 1, !.retry = Now(mem),
                       !.step = Smaller(64, @ + 1), !.probe = NoProbe]
    IN  /\ status = "recovering" /\ mem.active = {} /\ mem.probing = "no"
        /\ s \in HalfOpen(mem) /\ (ACCOUNT \in HalfOpen(mem) => s = ACCOUNT)
        /\ Commit(m, SetCircuit(m, s, w), SetCircuit(disk, s, w))
        /\ UNCHANGED <<rsv, cfg, clock, lease, wire, evicted, minted, crashes>>

Recovered ==
    /\ status = "recovering" /\ mem.active = {} /\ mem.probing = "no"
    /\ HalfOpen(mem) = {}
    /\ Checkpointed(mem, disk, FALSE, "healthy")
    /\ UNCHANGED <<mem, rsv, cfg, clock, lease, wire, evicted, minted, crashes>>

-----------------------------------------------------------------------------
(* A first boot on an empty journal.                                       *)
Init ==
    /\ cfg \in Config
    /\ clock = 1
    /\ mem = Empty(1, NextMonthlyReset(cfg, 1))
    /\ disk = Empty(NoTime, NoTime)
    /\ saved = 0
    /\ rsv = [a \in Attempt |-> Blank]
    /\ status = "healthy"
    /\ lease = [a \in Attempt |-> "none"]
    /\ wire = [a \in Attempt |-> "unsent"]
    /\ evicted = {} /\ minted = 0 /\ crashes = 0

Next ==
    \/ \E a \in Attempt, r \in Request, stale \in BOOLEAN : TryReserve(a, r, stale)
    \/ \E a \in Attempt : MarkDispatched(a)
    \/ \E a \in Attempt : Send(a)
    \/ \E a \in Attempt, how \in {"ended", "refused"} : ProviderEnds(a, how)
    \/ \E a \in Attempt, k \in Resolution : Finish(a, k)
    \/ Capacity
    \/ AuthoritativeCount
    \/ BeginRecoveryProbe
    \/ \E available \in BOOLEAN : FinishRecoveryProbe(available)
    \/ \E s \in Scope : OpenCircuit(s)
    \/ \E g \in Gen : BeginProbe(g)
    \/ \E s \in Scope : ProbeSucceeded(s)
    \/ \E s \in Scope : ProbeFailed(s)
    \/ \E c \in Config : Publish(c)
    \/ TakeCheckpoint
    \/ \E t \in 1..MaxClock : ClockStep(t)
    \/ Crash
    \/ Boot
    \/ \E a \in Attempt : RecoverAttempt(a)
    \/ RecoverProbe
    \/ \E s \in Scope : RecoverCircuit(s)
    \/ Recovered

Spec == Init /\ [][Next]_vars
-----------------------------------------------------------------------------
TypeOK ==
    /\ mem \in Ledger /\ disk \in Ledger /\ saved \in Nat
    /\ rsv \in [Attempt -> Payload]
    /\ cfg \in Config
    /\ status \in {"healthy", "recovery_required", "down", "recovering"}
    /\ clock \in Nat
    /\ lease \in [Attempt -> {"none", "held", "cleared"}]
    /\ wire \in [Attempt -> {"unsent", "running", "ended", "refused"}]
    /\ evicted \subseteq Attempt
    /\ minted \in Nat /\ crashes \in Nat

Up == status \in {"healthy", "recovering"}

(* An attempt running at the provider occupies a slot in what a restart    *)
(* would rebuild, and in the live ledger while the Gateway admits: no      *)
(* crash, failed append or checkpoint between reserve, dispatch and finish *)
(* gives its slot away.  Only an authoritative count or an AVAILABLE probe *)
(* may (_mark_recovered_attempts_uncertain, _apply_record).                *)
NoLostCapacity ==
    \A a \in Running \ evicted :
        a \in Held(disk) /\ (Up => a \in Held(mem))

(* The provider never runs more of our attempts than the account's         *)
(* enforced_max_in_flight, across crashes and publications.                *)
ParallelBound ==
    Cardinality(Running \ evicted) <= Max({c.parallel : c \in Config})

Sent == {a \in Attempt : wire[a] # "unsent"}

SentIn(t, w) == {a \in Sent : rsv[a].at \in (t - w + 1)..t}

(* Whatever the clock, the purges, the refunds and the restarts did, no    *)
(* rolling window holds more sent attempts than the RPM limit, nor more    *)
(* reserved tokens of attempts the provider accepted than the TPM limit    *)
(* (_rpm_starts, _tpm_starts).                                             *)
RateWindowBound ==
    LET rpmWindow == Min({c.rpmWindow : c \in Config})
        tpmWindow == Min({c.tpmWindow : c \in Config})
    IN  \A t \in 1..MaxClock :
            /\ Cardinality(SentIn(t, rpmWindow)) <= Max({c.rpm : c \in Config})
            /\ MapThenSumSet(LAMBDA a : rsv[a].tokens,
                    {a \in SentIn(t, tpmWindow) : wire[a] # "refused"})
               <= Max({c.tpm : c \in Config})

(* The attempts charged to one monthly period that the provider accepted   *)
(* never cost more than the published quota (_roll_monthly, _finish and    *)
(* their replay).                                                          *)
MonthlyQuotaBound ==
    \A p \in {rsv[a].reset : a \in Sent} \ {0} :
        MapThenSumSet(LAMBDA a : rsv[a].quota,
            {a \in Sent : wire[a] # "refused" /\ rsv[a].reset = p})
        <= Max({c.quota : c \in Config})

(* Every record the Gateway appends can be replayed over the checkpoint it *)
(* follows: _apply_record never raises (it would make the next boot        *)
(* RECOVERY_REQUIRED).                                                     *)
JournalReplayable == disk.replayable = "yes"

(* What a restart would rebuild has the same slots, holds, dispatches,     *)
(* recovery probe, circuits and consumed probe tokens as the live ledger.  *)
ReplayAgrees ==
    Up => /\ mem.active = disk.active /\ mem.uncertain = disk.uncertain
          /\ mem.dispatched = disk.dispatched /\ mem.holds = disk.holds
          /\ mem.probing = disk.probing
          /\ mem.circuit = disk.circuit /\ mem.consumed = disk.consumed

(* One half-open period lets one attempt through: its probe token is       *)
(* consumed once, even across a crash (_consumed_circuit_probes).          *)
SingleProbe ==
    \A p \in 1..minted : Cardinality({a \in Sent : p \in rsv[a].probes}) <= 1

(* A circuit's durable epoch never goes back, and an open circuit closes   *)
(* only by way of a probe: no checkpoint, crash or restart closes it.      *)
CircuitFenced ==
    [][\A s \in Scope :
          /\ disk'.circuit[s].epoch >= disk.circuit[s].epoch
          /\ disk.circuit[s].state = "open" => disk'.circuit[s].state # "closed"]_vars

(* A restart keeps every slot and every hold: capacity comes back only     *)
(* through a resolution, a count or a probe.                               *)
RestartKeepsCapacity ==
    [][status = "down" /\ status' = "recovering" =>
          /\ Held(mem') = Held(disk) /\ mem'.holds = disk.holds]_vars
=============================================================================
