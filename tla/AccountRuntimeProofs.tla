------------------------ MODULE AccountRuntimeProofs ------------------------
(***************************************************************************)
(* Proofs about AccountRuntime, for every set of attempts, generations,    *)
(* configurations and requests and for every bound.                        *)
(*                                                                         *)
(* The argument: the live ledger and the ledger a restart would rebuild    *)
(* agree on everything that occupies capacity (Agree), each of them keeps  *)
(* a start for every held attempt (Sound), and a slot that somebody may    *)
(* still use is durable before it can be used (Covered).  None of the      *)
(* published properties is inductive without the other two.                *)
(*                                                                         *)
(* The rate and quota limits rest on the same pair of ledgers: every       *)
(* attempt that may still be sent, or was, is counted in both (Tracked)    *)
(* and charged in both (Periods), and only try_reserve adds one.           *)
(***************************************************************************)
EXTENDS AccountRuntime, FiniteSetTheorems, TLAPS

Sound(L) == /\ L \in Ledger
            /\ L.replayable = "yes"
            /\ Held(L) \subseteq L.starts

Same(L, M) == /\ L.active = M.active /\ L.uncertain = M.uncertain
              /\ L.dispatched = M.dispatched /\ L.holds = M.holds
              /\ L.probing = M.probing
              /\ L.circuit = M.circuit /\ L.consumed = M.consumed

Agree(L, M) == /\ Same(L, M)
               /\ \A a \in Held(M) : L.resolved[a] = M.resolved[a]

(* An id that was never issued has left no trace.                          *)
Fresh == \A a \in Attempt : rsv[a].at = NoTime =>
            /\ a \notin Held(disk)
            /\ mem.resolved[a] = NoTime /\ disk.resolved[a] = NoTime

(* Leases exist only between two crashes, and while the journal is healthy *)
(* a leased attempt is active and unresolved.                              *)
Leased ==
    /\ status \in {"down", "recovering"} => \A a \in Attempt : lease[a] = "none"
    /\ status = "healthy" =>
          \A a \in Attempt : lease[a] # "none" => a \in mem.active

(* Whoever may send, or has sent, has a durable slot.                      *)
Covered ==
    \A a \in Attempt :
        lease[a] = "cleared" \/ (wire[a] = "running" /\ a \notin evicted)
            => a \in Held(disk)

Inv == /\ TypeOK
       /\ Sound(mem) /\ Sound(disk)
       /\ Up => Agree(mem, disk)
       /\ Fresh
       /\ Leased
       /\ Covered

-----------------------------------------------------------------------------
(* Facts about the ledger operators.                                       *)

(* Advancing the clock high-water changes no slot, hold or circuit.         *)
LEMMA TouchKeeps ==
    ASSUME NEW L, NEW M, Sound(L), Agree(L, M), clock \in Nat
    PROVE  /\ Sound(Touch(L)) /\ Agree(Touch(L), M)
           /\ Touch(L).resolved = L.resolved
           /\ Now(L) \in Nat
  BY DEF Sound, Agree, Same, Held, Touch, Now, Larger, Ledger

(* _prune_resolutions forgets released resolutions and nothing else.        *)
LEMMA PruneKeeps ==
    ASSUME NEW L, NEW M, Sound(L), Agree(L, M), NEW now \in Int
    PROVE  /\ Sound(PruneResolutions(L, now))
           /\ Agree(PruneResolutions(L, now), M)
           /\ \A a \in Attempt : L.resolved[a] = NoTime =>
                 PruneResolutions(L, now).resolved[a] = NoTime
  BY ConstantsAssumption DEF Sound, Agree, Same, Held, PruneResolutions, NoTime, Ledger

(* _purge_windows drops old starts and leaves every held slot alone.        *)
LEMMA PurgeKeeps ==
    ASSUME NEW L, NEW M, Sound(L), Agree(L, M), NEW now \in Int
    PROVE  /\ Sound(PurgeWindows(L, now)) /\ Agree(PurgeWindows(L, now), M)
           /\ PurgeWindows(L, now).resolved = L.resolved
  BY DEF Sound, Agree, Same, Held, PurgeWindows, Ledger

(* _roll_monthly changes quota usage and its reset only.                    *)
LEMMA RollKeeps ==
    ASSUME NEW L, NEW M, Sound(L), Agree(L, M), NEW now \in Int
    PROVE  /\ Sound(RollMonthly(L, now)) /\ Agree(RollMonthly(L, now), M)
           /\ RollMonthly(L, now).resolved = L.resolved
<1>1. CASE L.reset # 0 /\ now >= L.reset
  <2>1. RollMonthly(L, now) = [L EXCEPT !.used = 0, !.reset = 0]
    BY <1>1 DEF RollMonthly
  <2>2. /\ Sound([L EXCEPT !.used = 0, !.reset = 0])
        /\ Agree([L EXCEPT !.used = 0, !.reset = 0], M)
        /\ [L EXCEPT !.used = 0, !.reset = 0].resolved = L.resolved
    <3> DEFINE z == 0
    <3>0. L \in Ledger /\ z \in Nat /\ z \in Int
      BY DEF Sound
    <3> HIDE DEF z
    <3>1. [L EXCEPT !.used = z, !.reset = z] \in Ledger
      BY <3>0 DEF Ledger
    <3> USE DEF z
    <3> QED BY <3>1 DEF Sound, Agree, Same, Held, Ledger
  <2> QED BY <2>1, <2>2
<1>2. CASE ~(L.reset # 0 /\ now >= L.reset)
  BY <1>2 DEF RollMonthly
<1> QED BY <1>1, <1>2

(* A published configuration (update_account) keeps slots and holds.        *)
LEMMA UpdateKeeps ==
    ASSUME NEW L, NEW M, Sound(L), Agree(L, M), NEW c \in Config, clock \in Nat
    PROVE  /\ Sound(UpdateAccount(L, c)) /\ Agree(UpdateAccount(L, c), M)
           /\ UpdateAccount(L, c).resolved = L.resolved
<1> DEFINE now == Now(L)
           R == RollMonthly(Touch(L), now)
           candidate == NextMonthlyReset(c, now)
           t == IF R.reset = 0 \/ candidate > R.reset THEN candidate ELSE R.reset
<1>1. Sound(R) /\ Agree(R, M) /\ R.resolved = L.resolved /\ now \in Nat
  <2>1. /\ Sound(Touch(L)) /\ Agree(Touch(L), M) /\ now \in Nat
        /\ Touch(L).resolved = L.resolved
    BY TouchKeeps
  <2> QED BY <2>1, RollKeeps
<1>2. candidate \in Int
  BY ConstantsAssumption DEF NextMonthlyReset, AccountConfig
<1>3. t \in Int
  BY <1>1, <1>2 DEF Sound, Ledger
<1>4. UpdateAccount(L, c) = [R EXCEPT !.reset = t]
  BY DEF UpdateAccount
<1> HIDE DEF R, t
<1>5. /\ Sound([R EXCEPT !.reset = t]) /\ Agree([R EXCEPT !.reset = t], M)
      /\ [R EXCEPT !.reset = t].resolved = R.resolved
  BY <1>1, <1>3 DEF Sound, Agree, Same, Held, Ledger
<1> QED BY <1>1, <1>4, <1>5

(* attempt_reserved has the same effect live and replayed.                  *)
LEMMA ReservedKeeps ==
    ASSUME NEW L, NEW M, Sound(L), Sound(M), Agree(L, M),
           NEW a \in Attempt, NEW p \in Payload,
           L.resolved[a] = M.resolved[a]
    PROVE  /\ Sound(LiveReserved(L, a, p)) /\ Sound(ReplayReserved(M, a, p))
           /\ Agree(LiveReserved(L, a, p), ReplayReserved(M, a, p))
           /\ LiveReserved(L, a, p).active = L.active \cup {a}
           /\ Held(LiveReserved(L, a, p)) = Held(L) \cup {a}
           /\ LiveReserved(L, a, p).resolved = L.resolved
           /\ ReplayReserved(M, a, p).resolved = M.resolved
<1>1. p.tokens \in Nat /\ p.probes \subseteq Nat /\ p.reset \in Int
  BY DEF Payload
<1>2. L.used + p.quota \in Nat
  BY DEF Payload, Sound, Ledger
<1> DEFINE u == (IF M.reset = p.reset THEN M.used ELSE 0) + p.quota
<1>3. u \in Nat
  BY DEF Payload, Sound, Ledger
<1> HIDE DEF u
<1>4. LiveReserved(L, a, p) \in Ledger
  BY <1>1, <1>2, ZenonT(60) DEF Sound, LiveReserved, Ledger
<1>5. ReplayReserved(M, a, p) \in Ledger
  BY <1>1, <1>3, ZenonT(60) DEF Sound, ReplayReserved, Ledger, u
<1>6. Sound(LiveReserved(L, a, p))
  BY <1>4 DEF Sound, Held, LiveReserved, Ledger
<1>7. Sound(ReplayReserved(M, a, p))
  BY <1>5 DEF Sound, Held, ReplayReserved, Ledger
<1>8. Agree(LiveReserved(L, a, p), ReplayReserved(M, a, p))
  BY DEF Sound, Agree, Same, Held, LiveReserved, ReplayReserved, Ledger, Payload
<1>9. /\ LiveReserved(L, a, p).active = L.active \cup {a}
      /\ LiveReserved(L, a, p).uncertain = L.uncertain
      /\ LiveReserved(L, a, p).resolved = L.resolved
  BY DEF Sound, LiveReserved, Ledger
<1>10. Held(LiveReserved(L, a, p)) = Held(L) \cup {a}
  BY <1>9 DEF Held
<1>11. ReplayReserved(M, a, p).resolved = M.resolved
  BY DEF Sound, ReplayReserved, Ledger
<1> QED BY <1>6, <1>7, <1>8, <1>9, <1>10, <1>11

(* attempt_dispatched has the same effect live and replayed.                *)
LEMMA DispatchedKeeps ==
    ASSUME NEW L, NEW M, Sound(L), Sound(M), Agree(L, M), NEW a \in Held(L)
    PROVE  /\ Sound(LiveDispatched(L, a)) /\ Sound(ReplayDispatched(M, a))
           /\ Agree(LiveDispatched(L, a), ReplayDispatched(M, a))
           /\ Held(LiveDispatched(L, a)) = Held(L)
           /\ LiveDispatched(L, a).active = L.active
           /\ LiveDispatched(L, a).resolved = L.resolved
           /\ ReplayDispatched(M, a).resolved = M.resolved
<1> DEFINE F(X) == [X EXCEPT !.dispatched = @ \cup {a}]
<1>1. a \in Held(M) /\ a \in Attempt
  BY DEF Agree, Same, Held, Sound, Ledger
<1>2. ReplayDispatched(M, a) = F(M) /\ LiveDispatched(L, a) = F(L)
  BY <1>1 DEF ReplayDispatched, LiveDispatched
<1>3. /\ Sound(F(L)) /\ Sound(F(M)) /\ Agree(F(L), F(M))
      /\ Held(F(L)) = Held(L) /\ F(L).active = L.active
      /\ F(L).resolved = L.resolved /\ F(M).resolved = M.resolved
  BY <1>1 DEF Sound, Agree, Same, Held, Ledger
<1> QED BY <1>2, <1>3

(* Recording a resolution keeps the type of the resolution ledger.          *)
LEMMA SetResolved ==
    ASSUME NEW L \in Ledger, NEW a \in Attempt, NEW w \in Nat, NEW at \in Int
    PROVE  [L EXCEPT !.used = w, !.resolved[a] = at] \in Ledger
  BY DEF Ledger

(* Settling an attempt (_finish) keeps the ledger well formed.              *)
LEMMA SettleSound ==
    ASSUME NEW L, Sound(L), NEW a \in Held(L), NEW k \in Resolution
    PROVE  Sound(Settle(L, a, k))
<1>1. a \in Attempt /\ L.tokens[a] \in Nat
  BY DEF Sound, Held, Ledger
<1>2. Settle(L, a, k) \in Ledger
  <2>1. CASE k = "ambiguous"
    BY <1>1, <2>1, ZenonT(60) DEF Settle, Sound, Ledger, StartRefunded, ChargeRefunded
  <2>2. CASE k = "unsent"
    BY <1>1, <2>2, ZenonT(60) DEF Settle, Sound, Ledger, StartRefunded, ChargeRefunded
  <2>3. CASE k = "refused"
    BY <1>1, <2>3, ZenonT(60) DEF Settle, Sound, Ledger, StartRefunded, ChargeRefunded
  <2>4. CASE k = "answered"
    BY <1>1, <2>4, ZenonT(60) DEF Settle, Sound, Ledger, StartRefunded, ChargeRefunded
  <2> QED BY <2>1, <2>2, <2>3, <2>4 DEF Resolution
<1> QED BY <1>2 DEF Settle, Sound, Held, Ledger

(* Settling frees or keeps the slot of its attempt and of no other.         *)
LEMMA SettleEffect ==
    ASSUME NEW L, NEW M, Sound(L), Sound(M), Agree(L, M), NEW a \in Held(L), NEW k
    PROVE  /\ Same(Settle(L, a, k), Settle(M, a, k))
           /\ Settle(L, a, k).resolved = L.resolved
           /\ Settle(M, a, k).resolved = M.resolved
           /\ Held(L) \ {a} \subseteq Held(Settle(L, a, k))
           /\ Held(Settle(L, a, k)) \subseteq Held(L)
           /\ k = "ambiguous" => Held(Settle(L, a, k)) = Held(L)
           /\ Settle(L, a, k).active = L.active \ {a}
  BY DEF Settle, Sound, Same, Agree, Held, Ledger

(* attempt_resolved has the same effect on slots live and replayed.         *)
LEMMA ResolvedKeeps ==
    ASSUME NEW L, NEW M, Sound(L), Sound(M), Agree(L, M), rsv \in [Attempt -> Payload],
           NEW a \in Held(L), L.resolved[a] = NoTime,
           NEW k \in Resolution, NEW at \in Nat
    PROVE  /\ Sound(LiveResolved(L, a, k, at)) /\ Sound(ReplayResolved(M, a, k, at))
           /\ Agree(LiveResolved(L, a, k, at), ReplayResolved(M, a, k, at))
           /\ Held(L) \ {a} \subseteq Held(LiveResolved(L, a, k, at))
           /\ Held(LiveResolved(L, a, k, at)) \subseteq Held(L)
           /\ k = "ambiguous" => Held(LiveResolved(L, a, k, at)) = Held(L)
           /\ LiveResolved(L, a, k, at).active = L.active \ {a}
           /\ \A b \in Attempt \ {a} :
                 /\ LiveResolved(L, a, k, at).resolved[b] = L.resolved[b]
                 /\ ReplayResolved(M, a, k, at).resolved[b] = M.resolved[b]
<1>1. /\ a \in Held(M) /\ a \in Attempt /\ a \in M.starts
      /\ M.resolved[a] = NoTime
  BY DEF Agree, Same, Held, Sound, Ledger
<1> DEFINE S(X) == Settle(X, a, k)
           u == IF ChargeRefunded(k) /\ rsv[a].reset = L.reset
                THEN Monus(S(L).used, rsv[a].quota) ELSE S(L).used
           v == IF ChargeRefunded(k) THEN Monus(S(M).used, rsv[a].quota)
                ELSE S(M).used
           F(X, w) == [X EXCEPT !.used = w, !.resolved[a] = at]
<1>2. Sound(S(L)) /\ Sound(S(M))
  BY <1>1, SettleSound
<1>3. u \in Nat /\ v \in Nat
  BY <1>1, <1>2 DEF Sound, Ledger, Monus, Payload
<1>4. LiveResolved(L, a, k, at) = F(S(L), u)
  BY DEF LiveResolved
<1>5. ReplayResolved(M, a, k, at) = F(S(M), v)
  BY <1>1 DEF ReplayResolved
<1>6. /\ Same(S(L), S(M))
      /\ S(L).resolved = L.resolved /\ S(M).resolved = M.resolved
      /\ Held(L) \ {a} \subseteq Held(S(L)) /\ Held(S(L)) \subseteq Held(L)
      /\ k = "ambiguous" => Held(S(L)) = Held(L)
      /\ S(L).active = L.active \ {a}
  BY SettleEffect
<1> HIDE DEF S, u, v
<1>7. Sound(F(S(L), u)) /\ Sound(F(S(M), v))
  <2>1. S(L) \in Ledger /\ S(M) \in Ledger /\ at \in Int /\ a \in Attempt
    BY <1>1, <1>2 DEF Sound
  <2>2. F(S(L), u) \in Ledger /\ F(S(M), v) \in Ledger
    BY <1>3, <2>1, SetResolved
  <2> QED BY <1>2, <2>1, <2>2 DEF Sound, Held, Ledger
<1>8. /\ Same(F(S(L), u), F(S(M), v))
      /\ Held(F(S(L), u)) = Held(S(L)) /\ Held(F(S(M), v)) = Held(S(M))
      /\ F(S(L), u).active = S(L).active
      /\ \A b \in Attempt : /\ F(S(L), u).resolved[b] = IF b = a THEN at ELSE L.resolved[b]
                            /\ F(S(M), v).resolved[b] = IF b = a THEN at ELSE M.resolved[b]
  BY <1>1, <1>2, <1>6 DEF Sound, Same, Held, Ledger
<1>9. Agree(F(S(L), u), F(S(M), v))
  <2>1. Held(S(M)) \subseteq Held(M) /\ Held(M) \subseteq Attempt
    BY <1>6 DEF Same, Held, Agree, Sound, Ledger
  <2> QED BY <1>8, <2>1 DEF Agree
<1> QED BY <1>4, <1>5, <1>6, <1>7, <1>8, <1>9

(* A recovered attempt becomes uncertain live and replayed.                 *)
LEMMA UncertainKeeps ==
    ASSUME NEW L, NEW M, Sound(L), Sound(M), Agree(L, M), NEW a \in L.active
    PROVE  /\ Sound(ReplayUncertain(L, a)) /\ Sound(ReplayUncertain(M, a))
           /\ Agree(ReplayUncertain(L, a), ReplayUncertain(M, a))
           /\ Held(ReplayUncertain(M, a)) = Held(M)
           /\ ReplayUncertain(L, a).resolved = L.resolved
           /\ ReplayUncertain(M, a).resolved = M.resolved
<1> DEFINE F(X) == [X EXCEPT !.active = @ \ {a}, !.uncertain = @ \cup {a}]
<1>1. a \in Held(M) /\ a \in Held(L) /\ a \in Attempt
  BY DEF Agree, Same, Held, Sound, Ledger
<1>2. ReplayUncertain(L, a) = F(L) /\ ReplayUncertain(M, a) = F(M)
  BY <1>1 DEF ReplayUncertain
<1>3. /\ Sound(F(L)) /\ Sound(F(M)) /\ Agree(F(L), F(M))
      /\ Held(F(M)) = Held(M)
      /\ F(L).resolved = L.resolved /\ F(M).resolved = M.resolved
  <2>1. F(L) \in Ledger /\ F(M) \in Ledger
    BY <1>1 DEF Sound, Ledger
  <2>2. Sound(F(L)) /\ Sound(F(M))
    BY <1>1, <2>1 DEF Sound, Held, Ledger
  <2>3. /\ F(L).resolved = L.resolved /\ F(M).resolved = M.resolved
        /\ Same(F(L), F(M)) /\ Held(F(M)) = Held(M)
    BY <1>1 DEF Sound, Agree, Same, Held, Ledger
  <2> QED BY <2>2, <2>3 DEF Agree
<1> QED BY <1>2, <1>3

(* Releasing an uncertain attempt has the same effect on both sides.        *)
LEMMA ReleaseKeeps ==
    ASSUME NEW L, NEW M, Sound(L), Sound(M), Agree(L, M), NEW A
    PROVE  /\ Sound(Release(L, A)) /\ Sound(Release(M, A))
           /\ Agree(Release(L, A), Release(M, A))
           /\ Held(Release(L, A)) = Held(L) \ A
           /\ Release(L, A).active = L.active \ A
           /\ Release(L, A).resolved = L.resolved
           /\ Release(M, A).resolved = M.resolved
  BY DEF Sound, Agree, Same, Held, Release, Ledger

(* An authoritative count keeps as many attempts as it reports.             *)
LEMMA Counted ==
    ASSUME NEW L, Sound(L), NEW n \in Nat
    PROVE  /\ Cardinality(Resolved(L)) \in Nat
           /\ Cardinality(Running) \in Nat
           /\ Monus(n, Cardinality(Held(L))) \in Nat
<1>1. /\ Resolved(L) \subseteq Attempt /\ Running \subseteq Attempt
      /\ Held(L) \subseteq Attempt /\ IsFiniteSet(Attempt)
  BY ConstantsAssumption DEF Resolved, Running, Held, Sound, Ledger
<1>2. IsFiniteSet(Resolved(L)) /\ IsFiniteSet(Running) /\ IsFiniteSet(Held(L))
  BY <1>1, FS_Subset
<1>3. /\ Cardinality(Resolved(L)) \in Nat /\ Cardinality(Running) \in Nat
      /\ Cardinality(Held(L)) \in Nat
  BY <1>2, FS_CardinalityType
<1> QED BY <1>3 DEF Monus

(* External holds may change without touching the slots.                    *)
LEMMA HoldsKeep ==
    ASSUME NEW L, NEW M, Sound(L), Sound(M), Agree(L, M), NEW h \in Nat
    PROVE  /\ Sound([L EXCEPT !.holds = h]) /\ Sound([M EXCEPT !.holds = h])
           /\ Agree([L EXCEPT !.holds = h], [M EXCEPT !.holds = h])
           /\ Held([L EXCEPT !.holds = h]) = Held(L)
           /\ [L EXCEPT !.holds = h].active = L.active
           /\ [L EXCEPT !.holds = h].resolved = L.resolved
           /\ [M EXCEPT !.holds = h].resolved = M.resolved
<1>1. [L EXCEPT !.holds = h] \in Ledger /\ [M EXCEPT !.holds = h] \in Ledger
  BY DEF Sound, Ledger
<1> QED BY <1>1 DEF Sound, Agree, Same, Held, Ledger

(* The recovery probe flag may change without touching the slots.           *)
LEMMA ProbingKeeps ==
    ASSUME NEW L, NEW M, Sound(L), Sound(M), Agree(L, M), NEW q \in {"no", "yes"}
    PROVE  /\ Sound([L EXCEPT !.probing = q]) /\ Sound([M EXCEPT !.probing = q])
           /\ Agree([L EXCEPT !.probing = q], [M EXCEPT !.probing = q])
           /\ Held([L EXCEPT !.probing = q]) = Held(L)
           /\ [L EXCEPT !.probing = q].active = L.active
           /\ [L EXCEPT !.probing = q].resolved = L.resolved
           /\ [M EXCEPT !.probing = q].resolved = M.resolved
<1>1. [L EXCEPT !.probing = q] \in Ledger /\ [M EXCEPT !.probing = q] \in Ledger
  BY DEF Sound, Ledger
<1> QED BY <1>1 DEF Sound, Agree, Same, Held, Ledger

(* An authoritative count has the same effect live and replayed.            *)
LEMMA CountKeeps ==
    ASSUME NEW L, NEW M, Sound(L), Sound(M), Agree(L, M), NEW n \in Nat,
           L.active = {}
    PROVE  /\ Sound(ApplyCount(L, n)) /\ Sound(ApplyCount(M, n))
           /\ Agree(ApplyCount(L, n), ApplyCount(M, n))
           /\ Held(ApplyCount(L, n)) = Held(L) \cap Oldest(Held(L), n)
           /\ ApplyCount(L, n).resolved = L.resolved
           /\ ApplyCount(M, n).resolved = M.resolved
<1> DEFINE A == Held(L) \ Oldest(Held(L), n)
           h == Monus(n, Cardinality(Held(L)))
<1>1. Held(L) = Held(M) /\ M.active = {}
  BY DEF Agree, Same, Held
<1>2. /\ ApplyCount(L, n) = [Release(L, A) EXCEPT !.holds = h]
      /\ ApplyCount(M, n) = [Release(M, A) EXCEPT !.holds = h]
  BY <1>1 DEF ApplyCount
<1>3. h \in Nat
  BY Counted
<1> HIDE DEF h
<1>4. /\ Sound(Release(L, A)) /\ Sound(Release(M, A))
      /\ Agree(Release(L, A), Release(M, A))
      /\ Held(Release(L, A)) = Held(L) \ A
      /\ Release(L, A).resolved = L.resolved /\ Release(M, A).resolved = M.resolved
  BY ReleaseKeeps
<1>5. Held(L) \ A = Held(L) \cap Oldest(Held(L), n)
  OBVIOUS
<1> HIDE DEF A
<1> QED BY <1>2, <1>3, <1>4, <1>5, HoldsKeep

(* A recovery probe outcome has the same effect live and replayed.          *)
LEMMA ProbeKeeps ==
    ASSUME NEW L, NEW M, Sound(L), Sound(M), Agree(L, M), NEW available \in BOOLEAN
    PROVE  /\ Sound(ProbeFinished(L, available)) /\ Sound(ProbeFinished(M, available))
           /\ Agree(ProbeFinished(L, available), ProbeFinished(M, available))
           /\ Held(ProbeFinished(L, available)) = Held(L) \ ProbeReleases(L, available)
           /\ ProbeFinished(L, available).active =
                 L.active \ ProbeReleases(L, available)
           /\ ProbeFinished(L, available).resolved = L.resolved
           /\ ProbeFinished(M, available).resolved = M.resolved
<1> DEFINE A == ProbeReleases(L, available)
           h == IF available THEN Monus(L.holds, 1) ELSE L.holds
           F(X) == [[X EXCEPT !.holds = h] EXCEPT !.probing = "no"]
<1>1. A = ProbeReleases(M, available) /\ L.holds = M.holds
  BY DEF ProbeReleases, Agree, Same
<1>2. h \in Nat
  BY DEF Monus, Sound, Ledger
<1>3. Release(L, A).holds = L.holds /\ Release(M, A).holds = M.holds
  BY DEF Release, Sound, Ledger
<1>4. /\ ProbeFinished(L, available) = F(Release(L, A))
      /\ ProbeFinished(M, available) = F(Release(M, A))
  BY <1>1, <1>3 DEF ProbeFinished
<1>5. /\ Sound(Release(L, A)) /\ Sound(Release(M, A))
      /\ Agree(Release(L, A), Release(M, A))
      /\ Held(Release(L, A)) = Held(L) \ A
      /\ Release(L, A).active = L.active \ A
      /\ Release(L, A).resolved = L.resolved /\ Release(M, A).resolved = M.resolved
  BY ReleaseKeeps
<1> HIDE DEF A, h
<1> DEFINE G(X) == [X EXCEPT !.holds = h]
<1>6. /\ Sound(G(Release(L, A))) /\ Sound(G(Release(M, A)))
      /\ Agree(G(Release(L, A)), G(Release(M, A)))
      /\ Held(G(Release(L, A))) = Held(L) \ A
      /\ G(Release(L, A)).active = L.active \ A
      /\ G(Release(L, A)).resolved = L.resolved
      /\ G(Release(M, A)).resolved = M.resolved
  BY <1>2, <1>5, HoldsKeep
<1> HIDE DEF G
<1>7. /\ F(Release(L, A)) = [G(Release(L, A)) EXCEPT !.probing = "no"]
      /\ F(Release(M, A)) = [G(Release(M, A)) EXCEPT !.probing = "no"]
  BY DEF G
<1> DEFINE P(X) == [X EXCEPT !.probing = "no"]
<1>8. /\ Sound(P(G(Release(L, A)))) /\ Sound(P(G(Release(M, A))))
      /\ Agree(P(G(Release(L, A))), P(G(Release(M, A))))
      /\ Held(P(G(Release(L, A)))) = Held(G(Release(L, A)))
      /\ P(G(Release(L, A))).active = G(Release(L, A)).active
      /\ P(G(Release(L, A))).resolved = G(Release(L, A)).resolved
      /\ P(G(Release(M, A))).resolved = G(Release(M, A)).resolved
  BY <1>6, ProbingKeeps, ZenonT(60)
<1> HIDE DEF F, P
<1>9. /\ ProbeFinished(L, available) = P(G(Release(L, A)))
      /\ ProbeFinished(M, available) = P(G(Release(M, A)))
  BY <1>4, <1>7 DEF P
<1> QED BY <1>6, <1>8, <1>9 DEF A

(* A circuit record has the same effect live and replayed.                  *)
LEMMA CircuitKeeps ==
    ASSUME NEW L, NEW M, Sound(L), Sound(M), Agree(L, M),
           NEW s \in Scope, NEW v \in Circuit
    PROVE  /\ Sound(SetCircuit(L, s, v)) /\ Sound(SetCircuit(M, s, v))
           /\ Agree(SetCircuit(L, s, v), SetCircuit(M, s, v))
           /\ Held(SetCircuit(L, s, v)) = Held(L)
           /\ SetCircuit(L, s, v).active = L.active
           /\ SetCircuit(L, s, v).resolved = L.resolved
           /\ SetCircuit(M, s, v).resolved = M.resolved
<1>1. SetCircuit(L, s, v) \in Ledger /\ SetCircuit(M, s, v) \in Ledger
  BY DEF SetCircuit, Sound, Ledger
<1> QED BY <1>1 DEF SetCircuit, Sound, Agree, Same, Held, Ledger

-----------------------------------------------------------------------------
(* What one journaled operation does.                                      *)

(* A ledger agrees with itself.                                             *)
LEMMA AgreeSelf == ASSUME NEW L PROVE Agree(L, L)
  BY DEF Agree, Same

(* A checkpoint makes the rebuilt ledger the live one.                      *)
LEMMA CheckpointKeeps ==
    ASSUME NEW live, NEW replayed, NEW forced, NEW next,
           Sound(live), Sound(replayed), Agree(live, replayed), saved \in Nat,
           Checkpointed(live, replayed, forced, next)
    PROVE  /\ Sound(disk') /\ saved' \in Nat
           /\ disk' \in {live, replayed} /\ Agree(live, disk')
           /\ status' \in {next, "recovery_required"}
<1>1. Cardinality(Resolved(live)) \in Nat
  BY Counted
<1> QED BY <1>1, AgreeSelf DEF Checkpointed

(* A record that is appended moves both ledgers in agreement.               *)
LEMMA CommitKeeps ==
    ASSUME NEW before, NEW live, NEW replayed,
           Sound(disk), Sound(before), Sound(live), Sound(replayed),
           Agree(live, replayed), saved \in Nat, Up,
           Commit(before, live, replayed)
    PROVE  /\ Sound(mem') /\ Sound(disk') /\ saved' \in Nat
           /\ mem' \in {before, live} /\ disk' \in {disk, live, replayed}
           /\ status' \in {status, "recovery_required"}
           /\ status' = status => mem' = live /\ Agree(live, disk')
<1>1. CASE mem' = live /\ Checkpointed(live, replayed, cfg.state # "active", status)
  BY <1>1, CheckpointKeeps
<1>2. CASE mem' = before /\ AppendFails(replayed)
  BY <1>2 DEF AppendFails, Up
<1> QED BY <1>1, <1>2 DEF Commit

(* A journaled operation keeps the invariant if its live effect does: the  *)
(* cases of a failed append and of a checkpoint are dealt with here, once. *)
LEMMA JournaledStep ==
    ASSUME NEW before, NEW live, NEW replayed,
           Inv, Up, Sound(before), Sound(live), Sound(replayed),
           Agree(live, replayed), Commit(before, live, replayed),
           rsv' \in [Attempt -> Payload], cfg' \in Config, clock' \in Nat,
           lease' \in [Attempt -> {"none", "held", "cleared"}],
           wire' = wire, evicted' \subseteq Attempt,
           minted' \in Nat, crashes' \in Nat,
           \A a \in Attempt : rsv'[a].at = NoTime =>
               /\ rsv[a].at = NoTime /\ a \notin Held(live)
               /\ before.resolved[a] = NoTime /\ live.resolved[a] = NoTime
               /\ replayed.resolved[a] = NoTime,
           status = "recovering" => lease' = lease,
           status' = "healthy" =>
               \A a \in Attempt : lease'[a] # "none" => a \in live.active,
           \A a \in Attempt :
               lease'[a] = "cleared" \/ (wire[a] = "running" /\ a \notin evicted')
                   => a \in Held(live) /\ a \in Held(disk)
    PROVE  Inv'
<1>1. /\ Sound(mem') /\ Sound(disk') /\ saved' \in Nat
      /\ mem' \in {before, live} /\ disk' \in {disk, live, replayed}
      /\ status' \in {status, "recovery_required"}
      /\ status' = status => mem' = live /\ Agree(live, disk')
  BY CommitKeeps DEF Inv, TypeOK
<1>2. Held(live) = Held(replayed)
  BY DEF Agree, Same, Held
<1>3. TypeOK'
  BY <1>1 DEF Inv, TypeOK, Sound, Up
<1>4. Sound(mem)' /\ Sound(disk)'
  BY <1>1 DEF Sound, Held
<1>5. (Up => Agree(mem, disk))'
  BY <1>1 DEF Up, Agree, Same, Held
<1>6. Fresh'
  BY <1>1, <1>2 DEF Inv, Fresh, Held
<1>7. Leased'
  BY <1>1 DEF Inv, Leased, Up
<1>8. Covered'
  BY <1>1, <1>2 DEF Inv, Covered, Held
<1> QED BY <1>3, <1>4, <1>5, <1>6, <1>7, <1>8 DEF Inv

(* A step that changes the live ledger only in ways no restart would see.  *)
LEMMA LiveStep ==
    ASSUME Inv, status = "healthy", Sound(mem'), Agree(mem', disk),
           \A a \in Attempt : mem.resolved[a] = NoTime => mem'.resolved[a] = NoTime,
           UNCHANGED <<disk, saved, rsv, cfg, status, clock, lease, wire, evicted,
                       minted, crashes>>
    PROVE  Inv'
<1>1. TypeOK'
  BY DEF Inv, TypeOK, Sound
<1>2. Sound(mem)' /\ Sound(disk)' /\ (Up => Agree(mem, disk))'
  BY DEF Inv, Sound, Held, Agree, Same, Up
<1>3. Fresh'
  BY DEF Inv, Fresh, Held
<1>4. Leased'
  BY DEF Inv, Leased, Up, Agree, Same
<1>5. Covered'
  BY DEF Inv, Covered, Held
<1> QED BY <1>1, <1>2, <1>3, <1>4, <1>5 DEF Inv

(* try_reserve keeps the invariant, granted or denied.                      *)
LEMMA TryReserveKeeps ==
    ASSUME Inv, NEW a \in Attempt, NEW r \in Request, NEW stale \in BOOLEAN,
           TryReserve(a, r, stale)
    PROVE  Inv'
<1> DEFINE now    == Now(mem)
           pruned == PruneResolutions(Touch(mem), now)
           purged == PurgeWindows(pruned, now)
           fresh  == RollMonthly(purged, now)
           p == [at |-> now, deadline |-> clock + r.ttl, tokens |-> r.tokens,
                 quota |-> r.quota, reset |-> fresh.reset,
                 probes |-> ProbesOf(fresh, r.gen)]
<1>1. /\ status = "healthy" /\ clock \in Nat /\ Sound(mem) /\ Sound(disk)
      /\ Agree(mem, disk)
  BY DEF TryReserve, Serving, Inv, TypeOK, Up
<1>2. /\ Sound(Touch(mem)) /\ Agree(Touch(mem), disk)
      /\ Touch(mem).resolved = mem.resolved /\ now \in Nat
  BY <1>1, TouchKeeps
<1>3. /\ Sound(pruned) /\ Agree(pruned, disk)
      /\ \A b \in Attempt : mem.resolved[b] = NoTime => pruned.resolved[b] = NoTime
  BY <1>2, PruneKeeps
<1>4. /\ Sound(purged) /\ Agree(purged, disk) /\ purged.resolved = pruned.resolved
  BY <1>2, <1>3, PurgeKeeps
<1>5. /\ Sound(fresh) /\ Agree(fresh, disk) /\ fresh.resolved = pruned.resolved
  BY <1>2, <1>4, RollKeeps
<1> HIDE DEF now, pruned, purged, fresh
<1>6. CASE /\ mem' = pruned
           /\ UNCHANGED <<disk, saved, rsv, status, lease>>
  <2>1. UNCHANGED <<disk, saved, rsv, cfg, status, clock, lease, wire, evicted,
                    minted, crashes>>
    BY <1>6 DEF TryReserve
  <2> QED BY <1>1, <1>3, <1>6, <2>1, LiveStep
<1>7. CASE /\ mem' = fresh
           /\ UNCHANGED <<disk, saved, rsv, status, lease>>
  <2>1. UNCHANGED <<disk, saved, rsv, cfg, status, clock, lease, wire, evicted,
                    minted, crashes>>
    BY <1>7 DEF TryReserve
  <2> QED BY <1>1, <1>3, <1>5, <1>7, <2>1, LiveStep
<1>8. CASE Grant(fresh, a, p)
  <2>1. p \in Payload /\ p.at # NoTime
    <3>1. r.gen \in Gen /\ r.ttl \in Nat /\ r.tokens \in Nat /\ r.quota \in Nat
      BY ConstantsAssumption
    <3>2. ProbesOf(fresh, r.gen) \subseteq Nat
      BY <1>5, <3>1 DEF ProbesOf, Sound, Ledger, Circuit, Scope
    <3>3. fresh.reset \in Int
      BY <1>5 DEF Sound, Ledger
    <3> QED BY <1>1, <1>2, <3>1, <3>2, <3>3 DEF Payload, NoTime
  <2>2. rsv[a].at = NoTime
    BY DEF TryReserve
  <2>3. fresh.resolved[a] = NoTime /\ disk.resolved[a] = NoTime
    BY <1>3, <1>5, <2>2 DEF Inv, Fresh
  <2> HIDE DEF p
  <2> DEFINE live == LiveReserved(fresh, a, p)
             replayed == ReplayReserved(disk, a, p)
  <2>4. /\ Sound(live) /\ Sound(replayed) /\ Agree(live, replayed)
        /\ live.active = fresh.active \cup {a} /\ Held(live) = Held(fresh) \cup {a}
        /\ live.resolved = fresh.resolved /\ replayed.resolved = disk.resolved
    BY <1>1, <1>5, <2>1, <2>3, ReservedKeeps
  <2>5. Held(fresh) = Held(disk) /\ fresh.active = mem.active
    BY <1>1, <1>5 DEF Agree, Same, Held
  <2> HIDE DEF live, replayed
  <2>6. /\ Commit(fresh, live, replayed) /\ rsv' = [rsv EXCEPT ![a] = p]
        /\ lease' = [lease EXCEPT ![a] = IF status' = "healthy" THEN "held" ELSE @]
    BY <1>8 DEF Grant, live, replayed
  <2>7. UNCHANGED <<cfg, clock, wire, evicted, minted, crashes>>
    BY DEF TryReserve
  <2>8. /\ rsv' \in [Attempt -> Payload]
        /\ lease' \in [Attempt -> {"none", "held", "cleared"}]
    BY <2>1, <2>6 DEF Inv, TypeOK
  <2>9. \A b \in Attempt : rsv'[b].at = NoTime =>
            /\ rsv[b].at = NoTime /\ b \notin Held(live)
            /\ fresh.resolved[b] = NoTime /\ live.resolved[b] = NoTime
            /\ replayed.resolved[b] = NoTime
    BY <1>3, <1>5, <2>1, <2>4, <2>5, <2>6 DEF Inv, TypeOK, Fresh
  <2>10. \A b \in Attempt : lease'[b] # "none" => b \in live.active
    BY <1>1, <2>4, <2>5, <2>6 DEF Inv, TypeOK, Leased
  <2>11. \A b \in Attempt :
            lease'[b] = "cleared" \/ (wire[b] = "running" /\ b \notin evicted')
                => b \in Held(live) /\ b \in Held(disk)
    BY <2>4, <2>5, <2>6, <2>7 DEF Inv, TypeOK, Covered
  <2> QED
    BY <1>1, <1>5, <2>4, <2>6, <2>7, <2>8, <2>9, <2>10, <2>11, JournaledStep
       DEF Inv, TypeOK, Up
<1> QED BY <1>6, <1>7, <1>8 DEF TryReserve, now, pruned, purged, fresh

(* What the invariant says while the process is up.                         *)
LEMMA UpFacts ==
    ASSUME Inv, Up
    PROVE  /\ Sound(mem) /\ Sound(disk) /\ Agree(mem, disk) /\ clock \in Nat
           /\ Held(mem) = Held(disk)
           /\ rsv \in [Attempt -> Payload] /\ cfg \in Config
  BY DEF Inv, TypeOK, Agree, Same, Held

(* Reading the capacity purges and rolls, and keeps the invariant.          *)
LEMMA CapacityKeeps == ASSUME Inv, Capacity PROVE Inv'
<1> DEFINE now == Now(mem)
           purged == PurgeWindows(Touch(mem), now)
           fresh == RollMonthly(purged, now)
<1>1. status = "healthy" /\ Up
  BY DEF Capacity, Serving, Up
<1>2. /\ Sound(Touch(mem)) /\ Agree(Touch(mem), disk)
      /\ Touch(mem).resolved = mem.resolved /\ now \in Nat
  BY <1>1, UpFacts, TouchKeeps
<1>3. Sound(purged) /\ Agree(purged, disk) /\ purged.resolved = mem.resolved
  BY <1>2, PurgeKeeps
<1>4. Sound(fresh) /\ Agree(fresh, disk) /\ fresh.resolved = mem.resolved
  BY <1>2, <1>3, RollKeeps
<1>5. /\ mem' = fresh
      /\ UNCHANGED <<disk, saved, rsv, cfg, status, clock, lease, wire, evicted,
                     minted, crashes>>
  BY DEF Capacity
<1> HIDE DEF fresh
<1> QED BY <1>1, <1>4, <1>5, LiveStep

(* mark_dispatched keeps the invariant.                                     *)
LEMMA MarkDispatchedKeeps ==
    ASSUME Inv, NEW a \in Attempt, MarkDispatched(a)
    PROVE  Inv'
<1> DEFINE m == Touch(mem)
           live == LiveDispatched(m, a)
           replayed == ReplayDispatched(disk, a)
<1>1. status = "healthy" /\ Up
  BY DEF MarkDispatched, Serving, Up
<1>2. Sound(m) /\ Agree(m, disk) /\ m.resolved = mem.resolved
  BY <1>1, UpFacts, TouchKeeps
<1>3. UNCHANGED <<rsv, cfg, clock, wire, evicted, minted, crashes>>
  BY DEF MarkDispatched
<1>4. m.active = mem.active /\ Held(m) = Held(mem) /\ Held(mem) = Held(disk)
  BY <1>1, <1>2, UpFacts DEF Agree, Same, Held
<1>5. CASE mem' = m /\ UNCHANGED <<disk, saved, status, lease>>
  BY <1>1, <1>2, <1>3, <1>5, LiveStep
<1>6. CASE /\ Commit(m, live, replayed)
           /\ lease' = [lease EXCEPT
                           ![a] = IF status' = "healthy" THEN "cleared" ELSE @]
  <2>1. a \in Held(m) /\ lease[a] = "held"
    BY <1>4 DEF MarkDispatched
  <2>2. /\ Sound(live) /\ Sound(replayed) /\ Agree(live, replayed)
        /\ Held(live) = Held(m) /\ live.active = m.active
        /\ live.resolved = m.resolved /\ replayed.resolved = disk.resolved
    BY <1>1, <1>2, <2>1, UpFacts, DispatchedKeeps
  <2> HIDE DEF m, live, replayed
  <2>3. lease' \in [Attempt -> {"none", "held", "cleared"}]
    BY <1>6 DEF Inv, TypeOK
  <2>4. \A b \in Attempt : rsv'[b].at = NoTime =>
            /\ rsv[b].at = NoTime /\ b \notin Held(live)
            /\ m.resolved[b] = NoTime /\ live.resolved[b] = NoTime
            /\ replayed.resolved[b] = NoTime
    BY <1>2, <1>3, <1>4, <2>2 DEF Inv, Fresh
  <2>5. \A b \in Attempt : lease'[b] # "none" => b \in live.active
    BY <1>1, <1>4, <1>6, <2>1, <2>2 DEF Inv, TypeOK, Leased
  <2>6. \A b \in Attempt :
            lease'[b] = "cleared" \/ (wire[b] = "running" /\ b \notin evicted')
                => b \in Held(live) /\ b \in Held(disk)
    BY <1>3, <1>4, <1>6, <2>1, <2>2 DEF Inv, TypeOK, Covered
  <2> QED
    BY <1>1, <1>2, <1>3, <1>6, <2>2, <2>3, <2>4, <2>5, <2>6, JournaledStep
       DEF Inv, TypeOK
<1> QED BY <1>5, <1>6 DEF MarkDispatched

(* finish keeps the invariant: a slot is given up only by a release.        *)
LEMMA FinishKeeps ==
    ASSUME Inv, NEW a \in Attempt, NEW k \in Resolution, Finish(a, k)
    PROVE  Inv'
<1> DEFINE m == Touch(mem)
           now == Now(mem)
           live == LiveResolved(m, a, k, now)
           replayed == ReplayResolved(disk, a, k, now)
<1>1. status = "healthy" /\ Up
  BY DEF Finish, Serving, Up
<1>2. Sound(m) /\ Agree(m, disk) /\ m.resolved = mem.resolved /\ now \in Nat
  BY <1>1, UpFacts, TouchKeeps
<1>3. /\ UNCHANGED <<rsv, cfg, clock, wire, evicted, minted, crashes>>
      /\ Commit(m, live, replayed) /\ lease' = [lease EXCEPT ![a] = "none"]
      /\ Truthful(a, k)
  BY DEF Finish
<1>4. m.active = mem.active /\ Held(m) = Held(mem) /\ Held(mem) = Held(disk)
  BY <1>1, <1>2, UpFacts DEF Agree, Same, Held
<1>5. a \in Held(m) /\ m.resolved[a] = NoTime
  BY <1>2, <1>4 DEF Finish, Resolved
<1>6. /\ Sound(live) /\ Sound(replayed) /\ Agree(live, replayed)
      /\ Held(m) \ {a} \subseteq Held(live) /\ Held(live) \subseteq Held(m)
      /\ k = "ambiguous" => Held(live) = Held(m)
      /\ live.active = m.active \ {a}
      /\ \A b \in Attempt \ {a} : /\ live.resolved[b] = m.resolved[b]
                                   /\ replayed.resolved[b] = disk.resolved[b]
  BY <1>1, <1>2, <1>5, UpFacts, ResolvedKeeps
<1> HIDE DEF m, live, replayed
<1>7. lease' \in [Attempt -> {"none", "held", "cleared"}]
  BY <1>3 DEF Inv, TypeOK
<1>8. rsv[a].at # NoTime
  BY <1>4, <1>5 DEF Inv, Fresh
<1>9. \A b \in Attempt : rsv'[b].at = NoTime =>
          /\ rsv[b].at = NoTime /\ b \notin Held(live)
          /\ m.resolved[b] = NoTime /\ live.resolved[b] = NoTime
          /\ replayed.resolved[b] = NoTime
  BY <1>2, <1>3, <1>4, <1>6, <1>8 DEF Inv, Fresh
<1>10. \A b \in Attempt : lease'[b] # "none" => b \in live.active
  BY <1>1, <1>3, <1>4, <1>6 DEF Inv, TypeOK, Leased
<1>11. wire[a] = "running" => k = "ambiguous"
  BY <1>3 DEF Truthful, Resolution
<1>12. \A b \in Attempt :
          lease'[b] = "cleared" \/ (wire[b] = "running" /\ b \notin evicted')
              => b \in Held(live) /\ b \in Held(disk)
  BY <1>3, <1>4, <1>6, <1>11 DEF Inv, TypeOK, Covered
<1> QED
  BY <1>1, <1>2, <1>3, <1>6, <1>7, <1>9, <1>10, <1>12, JournaledStep
     DEF Inv, TypeOK

(* A journaled operation that no lease takes part in: it may only give up  *)
(* slots that an observation has evicted.                                  *)
LEMMA QuietStep ==
    ASSUME NEW before, NEW live, NEW replayed,
           Inv, Up, Sound(before), Sound(live), Sound(replayed),
           Agree(live, replayed), Commit(before, live, replayed),
           before.resolved = mem.resolved, live.resolved = mem.resolved,
           replayed.resolved = disk.resolved,
           live.active = mem.active, Held(live) \subseteq Held(mem),
           Held(mem) \ Held(live) \subseteq evicted' \cup mem.active,
           evicted \subseteq evicted', evicted' \subseteq Attempt,
           UNCHANGED <<rsv, cfg, clock, lease, wire, crashes>>, minted' \in Nat
    PROVE  Inv'
<1>1. Held(mem) = Held(disk)
  BY UpFacts
<1>2. \A a \in Attempt : lease[a] # "none" => a \in live.active
  BY DEF Inv, Leased, Up
<1>3. \A a \in Attempt : rsv'[a].at = NoTime =>
          /\ rsv[a].at = NoTime /\ a \notin Held(live)
          /\ before.resolved[a] = NoTime /\ live.resolved[a] = NoTime
          /\ replayed.resolved[a] = NoTime
  BY <1>1 DEF Inv, Fresh
<1>4. \A a \in Attempt :
          lease'[a] = "cleared" \/ (wire[a] = "running" /\ a \notin evicted')
              => a \in Held(live) /\ a \in Held(disk)
  <2> SUFFICES ASSUME NEW a \in Attempt,
                      lease[a] = "cleared" \/ (wire[a] = "running" /\ a \notin evicted')
               PROVE  a \in Held(live) /\ a \in Held(disk)
    OBVIOUS
  <2>1. a \in Held(disk)
    BY DEF Inv, Covered
  <2>2. mem.active \subseteq Held(live)
    BY DEF Held
  <2>3. CASE lease[a] = "cleared"
    BY <1>2, <2>1, <2>3 DEF Held
  <2>4. CASE a \notin evicted'
    BY <1>1, <2>1, <2>2, <2>4
  <2> QED BY <2>3, <2>4
<1> QED BY <1>2, <1>3, <1>4, JournaledStep DEF Inv, TypeOK

(* A send to the provider happens only with a dispatched lease.             *)
LEMMA SendKeeps == ASSUME Inv, NEW a \in Attempt, Send(a) PROVE Inv'
<1>1. TypeOK'
  BY DEF Inv, TypeOK, Send
<1>2. Covered'
  BY DEF Inv, TypeOK, Covered, Held, Send
<1>3. Sound(mem)' /\ Sound(disk)' /\ (Up => Agree(mem, disk))' /\ Fresh' /\ Leased'
  BY DEF Inv, Sound, Agree, Same, Held, Up, Fresh, Leased, Send
<1> QED BY <1>1, <1>2, <1>3 DEF Inv

(* The end of an attempt at the provider frees no slot by itself.           *)
LEMMA ProviderEndsKeeps ==
    ASSUME Inv, NEW a \in Attempt, NEW how \in {"ended", "refused"},
           ProviderEnds(a, how)
    PROVE  Inv'
<1>1. TypeOK'
  BY DEF Inv, TypeOK, ProviderEnds
<1>2. Covered'
  BY DEF Inv, TypeOK, Covered, Held, ProviderEnds
<1>3. Sound(mem)' /\ Sound(disk)' /\ (Up => Agree(mem, disk))' /\ Fresh' /\ Leased'
  BY DEF Inv, Sound, Agree, Same, Held, Up, Fresh, Leased, ProviderEnds
<1> QED BY <1>1, <1>2, <1>3 DEF Inv

(* An authoritative count evicts only what it says is over.                 *)
LEMMA AuthoritativeCountKeeps == ASSUME Inv, AuthoritativeCount PROVE Inv'
<1> DEFINE n == Cardinality(Running)
           live == ApplyCount(mem, n)
           replayed == ApplyCount(disk, n)
<1>1. Up /\ mem.active = {}
  BY DEF AuthoritativeCount, Serving, Up
<1>2. n \in Nat
  BY <1>1, UpFacts, Counted
<1>3. /\ Commit(mem, live, replayed)
      /\ evicted' = evicted \cup (Held(mem) \ Oldest(Held(mem), n))
      /\ UNCHANGED <<rsv, cfg, clock, lease, wire, minted, crashes>>
  BY DEF AuthoritativeCount
<1> HIDE DEF n
<1>4. /\ Sound(live) /\ Sound(replayed) /\ Agree(live, replayed)
      /\ Held(live) = Held(mem) \cap Oldest(Held(mem), n)
      /\ live.resolved = mem.resolved /\ replayed.resolved = disk.resolved
  BY <1>1, <1>2, UpFacts, CountKeeps
<1>5. live.active = mem.active
  <2>1. live = [Release(mem, Held(mem) \ Oldest(Held(mem), n)) EXCEPT
                    !.holds = Monus(n, Cardinality(Held(mem)))]
    BY <1>1 DEF ApplyCount
  <2>2. Release(mem, Held(mem) \ Oldest(Held(mem), n)).active = {}
    BY <1>1, UpFacts, ReleaseKeeps
  <2>3. Release(mem, Held(mem) \ Oldest(Held(mem), n)) \in Ledger
    BY <1>1, UpFacts, ReleaseKeeps DEF Sound
  <2> QED BY <1>1, <2>1, <2>2, <2>3 DEF Ledger
<1> HIDE DEF live, replayed
<1>6. evicted' \subseteq Attempt
  BY <1>3 DEF Inv, TypeOK, Held, Ledger
<1> QED BY <1>1, <1>3, <1>4, <1>5, <1>6, UpFacts, QuietStep DEF Inv, TypeOK

(* begin_recovery_probe keeps the invariant.                                *)
LEMMA BeginRecoveryProbeKeeps == ASSUME Inv, BeginRecoveryProbe PROVE Inv'
<1> DEFINE live == LiveProbeStarted(mem)
           replayed == LiveProbeStarted(disk)
<1>1. Up
  BY DEF BeginRecoveryProbe, Serving, Up
<1>2. /\ Commit(mem, live, replayed)
      /\ UNCHANGED <<rsv, cfg, clock, lease, wire, evicted, minted, crashes>>
  BY DEF BeginRecoveryProbe
<1>3. /\ Sound(live) /\ Sound(replayed) /\ Agree(live, replayed)
      /\ Held(live) = Held(mem) /\ live.active = mem.active
      /\ live.resolved = mem.resolved /\ replayed.resolved = disk.resolved
  BY <1>1, UpFacts, ProbingKeeps DEF LiveProbeStarted
<1> HIDE DEF live, replayed
<1> QED BY <1>1, <1>2, <1>3, UpFacts, QuietStep DEF Inv, TypeOK

(* finish_recovery_probe evicts only what the probe has shown over.         *)
LEMMA FinishRecoveryProbeKeeps ==
    ASSUME Inv, NEW available \in BOOLEAN, FinishRecoveryProbe(available)
    PROVE  Inv'
<1> DEFINE live == ProbeFinished(mem, available)
           replayed == ProbeFinished(disk, available)
           A == ProbeReleases(mem, available)
<1>1. Up /\ mem.active = {}
  BY DEF FinishRecoveryProbe, Serving, Up
<1>2. /\ Commit(mem, live, replayed) /\ evicted' = evicted \cup A
      /\ UNCHANGED <<rsv, cfg, clock, lease, wire, minted, crashes>>
  BY DEF FinishRecoveryProbe
<1>3. /\ Sound(live) /\ Sound(replayed) /\ Agree(live, replayed)
      /\ Held(live) = Held(mem) \ A /\ live.active = mem.active \ A
      /\ live.resolved = mem.resolved /\ replayed.resolved = disk.resolved
  BY <1>1, UpFacts, ProbeKeeps
<1>4. A \subseteq Attempt
  BY <1>1, UpFacts DEF ProbeReleases, Oldest, Sound, Ledger
<1> HIDE DEF live, replayed, A
<1>5. evicted' \subseteq Attempt
  BY <1>2, <1>4 DEF Inv, TypeOK
<1> QED BY <1>1, <1>2, <1>3, <1>5, UpFacts, QuietStep DEF Inv, TypeOK

(* Every circuit transition of the controller is a swap of one value.      *)
LEMMA SwapKeeps ==
    ASSUME Inv, Serving, NEW s \in Scope, NEW v \in Circuit, Swap(s, v), minted' \in Nat
    PROVE  Inv'
<1> DEFINE live == SetCircuit(mem, s, v)
           replayed == SetCircuit(disk, s, v)
<1>1. Up
  BY DEF Serving, Up
<1>2. /\ Commit(mem, live, replayed)
      /\ UNCHANGED <<rsv, cfg, clock, lease, wire, evicted, crashes>>
  BY DEF Swap
<1>3. /\ Sound(live) /\ Sound(replayed) /\ Agree(live, replayed)
      /\ Held(live) = Held(mem) /\ live.active = mem.active
      /\ live.resolved = mem.resolved /\ replayed.resolved = disk.resolved
  BY <1>1, UpFacts, CircuitKeeps
<1> HIDE DEF live, replayed
<1> QED BY <1>1, <1>2, <1>3, UpFacts, QuietStep DEF Inv, TypeOK

(* The circuits the controller computes are circuits.                       *)
LEMMA CircuitTypes ==
    ASSUME Inv, NEW s \in Scope
    PROVE  /\ mem.circuit[s] \in Circuit
           /\ \A step \in 0..2 : Opened(mem.circuit[s], step) \in Circuit
           /\ Closed(mem.circuit[s].epoch) \in Circuit
           /\ \A t \in Int, p \in Nat :
                 [mem.circuit[s] EXCEPT !.state = "half_open", !.retry = t,
                                        !.probe = p] \in Circuit
<1>1. mem.circuit[s] \in Circuit
  BY DEF Inv, TypeOK, Ledger
<1>2. ASSUME NEW step \in 0..2 PROVE Opened(mem.circuit[s], step) \in Circuit
  <2>1. Smaller(step, 2) \in 0..2 /\ clock \in Nat
    BY DEF Smaller, Inv, TypeOK
  <2>2. clock + Backoff[Smaller(step, 2)] \in Int
    BY <2>1, ConstantsAssumption
  <2> QED BY <1>1, <2>2 DEF Opened, Circuit, NoProbe
<1>3. Closed(mem.circuit[s].epoch) \in Circuit
  BY <1>1 DEF Closed, Circuit, NoProbe
<1> QED BY <1>1, <1>2, <1>3 DEF Circuit

(* CircuitController.open keeps the invariant.                              *)
LEMMA OpenCircuitKeeps == ASSUME Inv, NEW s \in Scope, OpenCircuit(s) PROVE Inv'
<1> DEFINE v == mem.circuit[s]
           step == Smaller(IF v.state = "half_open" THEN v.step + 1 ELSE v.step, 2)
<1>1. step \in 0..2
  <2>1. v \in Circuit
    BY CircuitTypes
  <2>2. v.step \in Nat
    BY <2>1 DEF Circuit
  <2> QED BY <2>2 DEF Smaller
<1>2. Serving /\ Swap(s, Opened(v, step)) /\ UNCHANGED minted
  BY DEF OpenCircuit
<1> HIDE DEF step
<1>3. Opened(v, step) \in Circuit
  BY <1>1, CircuitTypes
<1> QED BY <1>2, <1>3, SwapKeeps DEF Inv, TypeOK

(* CircuitController.begin_probe keeps the invariant.                       *)
LEMMA BeginProbeKeeps == ASSUME Inv, NEW g \in Gen, BeginProbe(g) PROVE Inv'
<1> DEFINE s == IF mem.circuit[ACCOUNT].state = "open" THEN ACCOUNT ELSE g
           w == [mem.circuit[s] EXCEPT !.state = "half_open", !.retry = 0,
                                       !.probe = minted + 1]
<1>1. s \in Scope /\ minted + 1 \in Nat /\ 0 \in Int
  BY DEF Scope, Inv, TypeOK
<1>2. Serving /\ minted' = minted + 1 /\ Swap(s, w)
  BY DEF BeginProbe
<1> HIDE DEF s
<1>3. w \in Circuit
  BY <1>1, CircuitTypes
<1> QED BY <1>1, <1>2, <1>3, SwapKeeps

(* CircuitController.probe_succeeded keeps the invariant.                   *)
LEMMA ProbeSucceededKeeps == ASSUME Inv, NEW s \in Scope, ProbeSucceeded(s) PROVE Inv'
<1>1. Serving /\ Swap(s, Closed(mem.circuit[s].epoch)) /\ UNCHANGED minted
  BY DEF ProbeSucceeded
<1> QED BY <1>1, CircuitTypes, SwapKeeps DEF Inv, TypeOK

(* CircuitController.probe_failed keeps the invariant.                      *)
LEMMA ProbeFailedKeeps == ASSUME Inv, NEW s \in Scope, ProbeFailed(s) PROVE Inv'
<1> DEFINE v == mem.circuit[s]
           step == Smaller(v.step + 1, 2)
<1>1. step \in 0..2
  <2>1. v \in Circuit
    BY CircuitTypes
  <2>2. v.step \in Nat
    BY <2>1 DEF Circuit
  <2> QED BY <2>2 DEF Smaller
<1>2. Serving /\ Swap(s, Opened(v, step)) /\ UNCHANGED minted
  BY DEF ProbeFailed
<1> HIDE DEF step
<1>3. Opened(v, step) \in Circuit
  BY <1>1, CircuitTypes
<1> QED BY <1>2, <1>3, SwapKeeps DEF Inv, TypeOK

(* A publication keeps the invariant in each of its outcomes.               *)
LEMMA PublishKeeps == ASSUME Inv, NEW c \in Config, Publish(c) PROVE Inv'
<1> DEFINE m == UpdateAccount(mem, c)
<1>1. status = "healthy" /\ Up
  BY DEF Publish, Serving, Up
<1>2. Sound(m) /\ Agree(m, disk) /\ m.resolved = mem.resolved
  BY <1>1, UpFacts, UpdateKeeps
<1>3. UNCHANGED <<rsv, clock, lease, wire, evicted, minted, crashes>>
  BY DEF Publish
<1>4. Held(m) = Held(disk) /\ m.active = mem.active /\ Held(mem) = Held(disk)
  BY <1>1, <1>2, UpFacts DEF Agree, Same, Held
<1> HIDE DEF m
<1>5. CASE cfg' = c /\ mem' = m /\ Checkpointed(m, disk, c.state = "disabled", status)
  <2>1. /\ Sound(disk') /\ saved' \in Nat /\ disk' \in {m, disk} /\ Agree(m, disk')
        /\ status' \in {status, "recovery_required"}
    BY <1>1, <1>2, <1>5, UpFacts, CheckpointKeeps DEF Inv, TypeOK
  <2>2. TypeOK'
    BY <1>1, <1>2, <1>3, <1>5, <2>1 DEF Inv, TypeOK, Sound
  <2>3. Sound(mem)' /\ Sound(disk)' /\ (Up => Agree(mem, disk))'
    BY <1>2, <1>5, <2>1 DEF Sound, Agree, Same, Held, Up
  <2>4. Fresh'
    BY <1>2, <1>3, <1>4, <1>5, <2>1 DEF Inv, Fresh, Held
  <2>5. Leased'
    BY <1>1, <1>3, <1>4, <1>5, <2>1 DEF Inv, Leased
  <2>6. Covered'
    BY <1>3, <1>4, <2>1 DEF Inv, Covered, Held
  <2> QED BY <2>2, <2>3, <2>4, <2>5, <2>6 DEF Inv
<1>6. CASE mem' = mem /\ cfg' = cfg /\ AppendFails(disk)
  <2>1. UNCHANGED <<mem, disk, saved, rsv, cfg, clock, lease, wire, evicted, minted,
                    crashes>> /\ status' = "recovery_required"
    BY <1>3, <1>6 DEF AppendFails
  <2> QED BY <2>1 DEF Inv, TypeOK, Sound, Up, Fresh, Leased, Covered, Held
<1> QED BY <1>5, <1>6 DEF Publish, m

-----------------------------------------------------------------------------
(* Time, crash and restart.                                                *)

(* The wall clock may go anywhere.                                          *)
LEMMA ClockStepKeeps ==
    ASSUME Inv, NEW t \in 1..MaxClock, ClockStep(t)
    PROVE  Inv'
<1>1. t \in Nat
  BY ConstantsAssumption
<1> QED BY <1>1 DEF ClockStep, Inv, TypeOK, Sound, Agree, Same, Up, Fresh, Leased,
                    Covered, Held

(* The ledger of a new process is well formed.                              *)
LEMMA EmptySound ==
    ASSUME NEW hw \in Int, NEW reset \in Int
    PROVE  /\ Sound(Empty(hw, reset)) /\ Held(Empty(hw, reset)) = {}
           /\ \A a \in Attempt : Empty(hw, reset).resolved[a] = NoTime
<1>1. Closed(0) \in Circuit
  BY DEF Closed, Circuit, NoProbe
<1> QED BY <1>1 DEF Empty, Sound, Held, Ledger, NoTime

(* A crash loses the live ledger; the rebuilt one still has every slot.     *)
LEMMA CrashKeeps == ASSUME Inv, Crash PROVE Inv'
<1>1. /\ Sound(mem') /\ \A a \in Attempt : mem'.resolved[a] = NoTime
  BY EmptySound DEF Crash, NoTime
<1>2. TypeOK'
  BY <1>1 DEF Inv, TypeOK, Crash, Sound
<1>3. Sound(mem)' /\ Sound(disk)' /\ (Up => Agree(mem, disk))'
  BY <1>1 DEF Inv, Sound, Held, Crash, Up
<1>4. Fresh'
  BY <1>1 DEF Inv, Fresh, Held, Crash
<1>5. Leased'
  BY DEF Leased, Crash
<1>6. Covered'
  BY DEF Inv, Covered, Held, Crash
<1> QED BY <1>2, <1>3, <1>4, <1>5, <1>6 DEF Inv

(* What a restart rebuilds agrees with what it was rebuilt from.           *)
LEMMA RebuiltKeeps ==
    ASSUME Inv
    PROVE  /\ Sound(Rebuilt) /\ Agree(Rebuilt, disk)
           /\ Rebuilt.resolved = disk.resolved
<1> DEFINE h == IF disk.hw = NoTime THEN clock ELSE disk.hw
           t == IF disk.reset = NoTime THEN NextMonthlyReset(cfg, clock)
                ELSE disk.reset
<1>1. /\ Sound(disk) /\ clock \in Nat /\ cfg \in Config
      /\ disk.hw \in Int /\ disk.reset \in Int
  BY DEF Inv, TypeOK, Ledger
<1>2. h \in Int /\ t \in Int
  BY <1>1, ConstantsAssumption DEF NextMonthlyReset, AccountConfig
<1>3. Rebuilt = UpdateAccount([disk EXCEPT !.hw = h, !.reset = t], cfg)
  BY DEF Rebuilt
<1> HIDE DEF h, t
<1>4. [disk EXCEPT !.hw = h, !.reset = t] \in Ledger
  BY <1>1, <1>2 DEF Sound, Ledger
<1>5. /\ Sound([disk EXCEPT !.hw = h, !.reset = t])
      /\ Agree([disk EXCEPT !.hw = h, !.reset = t], disk)
      /\ [disk EXCEPT !.hw = h, !.reset = t].resolved = disk.resolved
  BY <1>1, <1>4 DEF Sound, Agree, Same, Held, Ledger
<1> QED BY <1>1, <1>3, <1>5, UpdateKeeps

(* A boot restores and replays into an agreeing live ledger.                *)
LEMMA BootKeeps == ASSUME Inv, Boot PROVE Inv'
<1>1. /\ status = "down" /\ \A a \in Attempt : lease[a] = "none"
      /\ UNCHANGED <<rsv, cfg, clock, lease, wire, evicted, minted, crashes>>
  BY DEF Boot, Inv, Leased
<1> DEFINE m == Rebuilt
<1>2. Sound(m) /\ Agree(m, disk) /\ m.resolved = disk.resolved
  BY RebuiltKeeps
<1>3. Held(m) = Held(disk)
  BY <1>2 DEF Agree, Same, Held
<1> HIDE DEF m
<1>4. CASE mem' = m /\ Checkpointed(m, disk, FALSE, "recovering")
  <2>1. /\ Sound(disk') /\ saved' \in Nat /\ disk' \in {m, disk} /\ Agree(m, disk')
        /\ status' \in {"recovering", "recovery_required"}
    BY <1>2, <1>4, CheckpointKeeps DEF Inv, TypeOK
  <2>2. TypeOK'
    BY <1>1, <1>2, <1>4, <2>1 DEF Inv, TypeOK, Sound
  <2>3. Sound(mem)' /\ Sound(disk)' /\ (Up => Agree(mem, disk))'
    BY <1>2, <1>4, <2>1 DEF Sound, Agree, Same, Held, Up
  <2>4. Fresh'
    BY <1>1, <1>2, <1>3, <1>4, <2>1 DEF Inv, Fresh, Held
  <2>5. Leased'
    BY <1>1, <2>1 DEF Leased
  <2>6. Covered'
    BY <1>1, <1>3, <2>1 DEF Inv, Covered, Held
  <2> QED BY <2>2, <2>3, <2>4, <2>5, <2>6 DEF Inv
<1>5. CASE status' = "recovery_required" /\ UNCHANGED <<mem, disk, saved>>
  BY <1>1, <1>5 DEF Inv, TypeOK, Sound, Up, Fresh, Leased, Covered, Held
<1> QED BY <1>4, <1>5 DEF Boot, m

(* An append of _mark_recovered_attempts_uncertain, without a checkpoint.  *)
LEMMA RecoveryStep ==
    ASSUME NEW live, NEW replayed,
           Inv, status = "recovering", Sound(live), Sound(replayed),
           Agree(live, replayed), Held(replayed) = Held(disk),
           live.resolved = mem.resolved, replayed.resolved = disk.resolved,
           \/ mem' = live /\ disk' = replayed /\ UNCHANGED <<saved, status>>
           \/ mem' = mem /\ AppendFails(replayed),
           UNCHANGED <<rsv, cfg, clock, lease, wire, evicted, minted, crashes>>
    PROVE  Inv'
<1>1. /\ mem' \in {mem, live} /\ disk' \in {disk, replayed} /\ saved' = saved
      /\ \/ status' = "recovery_required"
         \/ status' = status /\ mem' = live /\ disk' = replayed
  BY DEF AppendFails
<1>2. Sound(mem') /\ Sound(disk')
  BY <1>1 DEF Inv
<1>3. TypeOK'
  BY <1>1, <1>2 DEF Inv, TypeOK, Sound
<1>4. Sound(mem)' /\ Sound(disk)' /\ (Up => Agree(mem, disk))'
  BY <1>1, <1>2 DEF Sound, Agree, Same, Held, Up
<1>5. Fresh'
  BY <1>1 DEF Inv, Fresh, Held
<1>6. Leased'
  BY <1>1 DEF Inv, Leased
<1>7. Covered'
  BY <1>1 DEF Inv, Covered, Held
<1> QED BY <1>3, <1>4, <1>5, <1>6, <1>7 DEF Inv

(* Marking a recovered attempt uncertain keeps the invariant.               *)
LEMMA RecoverAttemptKeeps ==
    ASSUME Inv, NEW a \in Attempt, RecoverAttempt(a)
    PROVE  Inv'
<1> DEFINE live == ReplayUncertain(mem, a)
           replayed == ReplayUncertain(disk, a)
<1>1. status = "recovering" /\ Up /\ a \in mem.active
  BY DEF RecoverAttempt, Up
<1>2. /\ Sound(live) /\ Sound(replayed) /\ Agree(live, replayed)
      /\ Held(replayed) = Held(disk)
      /\ live.resolved = mem.resolved /\ replayed.resolved = disk.resolved
  BY <1>1, UpFacts, UncertainKeeps
<1>3. /\ \/ mem' = live /\ disk' = replayed /\ UNCHANGED <<saved, status>>
         \/ mem' = mem /\ AppendFails(replayed)
      /\ UNCHANGED <<rsv, cfg, clock, lease, wire, evicted, minted, crashes>>
  BY DEF RecoverAttempt
<1> HIDE DEF live, replayed
<1> QED BY <1>1, <1>2, <1>3, RecoveryStep

(* Ending an interrupted recovery probe keeps the invariant.                *)
LEMMA RecoverProbeKeeps == ASSUME Inv, RecoverProbe PROVE Inv'
<1> DEFINE live == ProbeFinished(mem, FALSE)
           replayed == ProbeFinished(disk, FALSE)
<1>1. status = "recovering" /\ Up
  BY DEF RecoverProbe, Up
<1>2. /\ Sound(live) /\ Sound(replayed) /\ Agree(live, replayed)
      /\ Held(live) = Held(mem) \ ProbeReleases(mem, FALSE)
      /\ live.resolved = mem.resolved /\ replayed.resolved = disk.resolved
  BY <1>1, UpFacts, ProbeKeeps
<1>3. Held(replayed) = Held(disk)
  <2>1. ProbeReleases(mem, FALSE) = {}
    BY DEF ProbeReleases
  <2>2. Held(live) = Held(replayed)
    BY <1>2 DEF Agree, Same, Held
  <2> QED BY <1>1, <1>2, <2>1, <2>2, UpFacts
<1>4. /\ \/ mem' = live /\ disk' = replayed /\ UNCHANGED <<saved, status>>
         \/ mem' = mem /\ AppendFails(replayed)
      /\ UNCHANGED <<rsv, cfg, clock, lease, wire, evicted, minted, crashes>>
  BY DEF RecoverProbe
<1> HIDE DEF live, replayed
<1> QED BY <1>1, <1>2, <1>3, <1>4, RecoveryStep

(* Reopening an interrupted circuit probe keeps the invariant.              *)
LEMMA RecoverCircuitKeeps ==
    ASSUME Inv, NEW s \in Scope, RecoverCircuit(s)
    PROVE  Inv'
<1> DEFINE m == Touch(mem)
           v == mem.circuit[s]
           w == [v EXCEPT !.state = "open", !.epoch = @ + 1, !.retry = Now(mem),
                          !.step = Smaller(64, @ + 1), !.probe = NoProbe]
           live == SetCircuit(m, s, w)
           replayed == SetCircuit(disk, s, w)
<1>1. Up
  BY DEF RecoverCircuit, Up
<1>2. /\ Sound(m) /\ Agree(m, disk) /\ m.resolved = mem.resolved /\ Now(mem) \in Nat
  BY <1>1, UpFacts, TouchKeeps
<1>3. w \in Circuit
  <2>1. v \in Circuit
    BY CircuitTypes
  <2>2. Smaller(64, v.step + 1) \in Nat /\ v.epoch + 1 \in Nat
    BY <2>1 DEF Circuit, Smaller
  <2> DEFINE n == Smaller(64, v.step + 1)
             e == v.epoch + 1
             t == Now(mem)
  <2>3. w = [v EXCEPT !.state = "open", !.epoch = e, !.retry = t, !.step = n,
                      !.probe = NoProbe]
    BY <2>1 DEF Circuit
  <2>4. n \in Nat /\ e \in Nat /\ t \in Int
    BY <1>2, <2>2
  <2> HIDE DEF n, e, t, v
  <2>5. [v EXCEPT !.state = "open", !.epoch = e, !.retry = t, !.step = n,
                  !.probe = NoProbe] \in Circuit
    BY <2>1, <2>4 DEF Circuit, NoProbe
  <2> QED BY <2>3, <2>5
<1>4. /\ Commit(m, live, replayed)
      /\ UNCHANGED <<rsv, cfg, clock, lease, wire, evicted, minted, crashes>>
  BY DEF RecoverCircuit
<1>5. m.active = mem.active /\ Held(m) = Held(mem)
  BY <1>1, <1>2, UpFacts DEF Agree, Same, Held
<1> HIDE DEF m, w
<1>6. /\ Sound(live) /\ Sound(replayed) /\ Agree(live, replayed)
      /\ Held(live) = Held(m) /\ live.active = m.active
      /\ live.resolved = m.resolved /\ replayed.resolved = disk.resolved
  BY <1>1, <1>2, <1>3, UpFacts, CircuitKeeps
<1> HIDE DEF live, replayed
<1> QED BY <1>1, <1>2, <1>4, <1>5, <1>6, UpFacts, QuietStep DEF Inv, TypeOK

(* The end of recovery keeps the invariant.                                 *)
LEMMA RecoveredKeeps == ASSUME Inv, Recovered PROVE Inv'
<1>1. /\ status = "recovering" /\ Up /\ Checkpointed(mem, disk, FALSE, "healthy")
      /\ UNCHANGED <<mem, rsv, cfg, clock, lease, wire, evicted, minted, crashes>>
  BY DEF Recovered, Up
<1>2. /\ Sound(disk') /\ saved' \in Nat /\ disk' \in {mem, disk} /\ Agree(mem, disk')
      /\ status' \in {"healthy", "recovery_required"}
  BY <1>1, UpFacts, CheckpointKeeps DEF Inv, TypeOK
<1>3. Held(mem) = Held(disk)
  BY <1>1, UpFacts
<1>4. TypeOK'
  BY <1>1, <1>2 DEF Inv, TypeOK, Sound
<1>5. Sound(mem)' /\ Sound(disk)' /\ (Up => Agree(mem, disk))'
  BY <1>1, <1>2 DEF Inv, Sound, Agree, Same, Held, Up
<1>6. Fresh'
  BY <1>1, <1>2, <1>3 DEF Inv, Fresh, Held
<1>7. Leased'
  BY <1>1 DEF Inv, Leased
<1>8. Covered'
  BY <1>1, <1>2, <1>3 DEF Inv, Covered, Held
<1> QED BY <1>4, <1>5, <1>6, <1>7, <1>8 DEF Inv

(* A checkpoint of the live ledger keeps the invariant.                     *)
LEMMA TakeCheckpointKeeps == ASSUME Inv, TakeCheckpoint PROVE Inv'
<1>1. /\ status = "healthy" /\ Up /\ Checkpointed(mem, disk, FALSE, status)
      /\ UNCHANGED <<mem, rsv, cfg, clock, lease, wire, evicted, minted, crashes>>
  BY DEF TakeCheckpoint, Serving, Up
<1>2. /\ Sound(disk') /\ saved' \in Nat /\ disk' \in {mem, disk} /\ Agree(mem, disk')
      /\ status' \in {"healthy", "recovery_required"}
  BY <1>1, UpFacts, CheckpointKeeps DEF Inv, TypeOK
<1>3. Held(mem) = Held(disk)
  BY <1>1, UpFacts
<1>4. TypeOK'
  BY <1>1, <1>2 DEF Inv, TypeOK, Sound
<1>5. Sound(mem)' /\ Sound(disk)' /\ (Up => Agree(mem, disk))'
  BY <1>1, <1>2 DEF Inv, Sound, Agree, Same, Held, Up
<1>6. Fresh'
  BY <1>1, <1>2, <1>3 DEF Inv, Fresh, Held
<1>7. Leased'
  BY <1>1, <1>2 DEF Inv, Leased
<1>8. Covered'
  BY <1>1, <1>2, <1>3 DEF Inv, Covered, Held
<1> QED BY <1>4, <1>5, <1>6, <1>7, <1>8 DEF Inv

-----------------------------------------------------------------------------
(* The inductive invariant, and what it gives.                             *)

(* The invariant holds when the account is registered.                      *)
LEMMA InitInv == Init => Inv
<1> SUFFICES ASSUME Init PROVE Inv
  OBVIOUS
<1> DEFINE t == NextMonthlyReset(cfg, 1)
<1>1. cfg \in Config /\ t \in Int /\ NoTime \in Int
  BY ConstantsAssumption DEF Init, NextMonthlyReset, AccountConfig, NoTime
<1>2. mem = Empty(1, t) /\ disk = Empty(NoTime, NoTime)
  BY DEF Init
<1> HIDE DEF t
<1>3. /\ Sound(mem) /\ Held(mem) = {} /\ \A a \in Attempt : mem.resolved[a] = NoTime
  BY <1>1, <1>2, EmptySound
<1>4. /\ Sound(disk) /\ Held(disk) = {} /\ \A a \in Attempt : disk.resolved[a] = NoTime
  BY <1>1, <1>2, EmptySound
<1>5. Blank \in Payload
  BY DEF Blank, Payload, NoTime
<1>6. TypeOK
  <2>1. mem \in Ledger /\ disk \in Ledger
    BY <1>3, <1>4 DEF Sound
  <2> QED BY <1>5, <2>1 DEF Init, TypeOK
<1>7. Agree(mem, disk)
  BY <1>2, <1>4 DEF Agree, Same, Empty
<1>8. Fresh /\ Leased /\ Covered
  BY <1>3, <1>4 DEF Init, Fresh, Leased, Covered
<1> QED BY <1>3, <1>4, <1>6, <1>7, <1>8 DEF Inv

(* Every step keeps the invariant.                                          *)
LEMMA NextInv == Inv /\ [Next]_vars => Inv'
<1> SUFFICES ASSUME Inv, [Next]_vars PROVE Inv'
  OBVIOUS
<1>1. CASE \E a \in Attempt, r \in Request, stale \in BOOLEAN : TryReserve(a, r, stale)
  BY <1>1, TryReserveKeeps
<1>2. CASE \E a \in Attempt : MarkDispatched(a)
  BY <1>2, MarkDispatchedKeeps
<1>3. CASE \E a \in Attempt : Send(a)
  BY <1>3, SendKeeps
<1>4. CASE \E a \in Attempt, how \in {"ended", "refused"} : ProviderEnds(a, how)
  BY <1>4, ProviderEndsKeeps
<1>5. CASE \E a \in Attempt, k \in Resolution : Finish(a, k)
  BY <1>5, FinishKeeps
<1>6. CASE Capacity
  BY <1>6, CapacityKeeps
<1>7. CASE AuthoritativeCount
  BY <1>7, AuthoritativeCountKeeps
<1>8. CASE BeginRecoveryProbe
  BY <1>8, BeginRecoveryProbeKeeps
<1>9. CASE \E available \in BOOLEAN : FinishRecoveryProbe(available)
  BY <1>9, FinishRecoveryProbeKeeps
<1>10. CASE \E s \in Scope : OpenCircuit(s)
  BY <1>10, OpenCircuitKeeps
<1>11. CASE \E g \in Gen : BeginProbe(g)
  BY <1>11, BeginProbeKeeps
<1>12. CASE \E s \in Scope : ProbeSucceeded(s)
  BY <1>12, ProbeSucceededKeeps
<1>13. CASE \E s \in Scope : ProbeFailed(s)
  BY <1>13, ProbeFailedKeeps
<1>14. CASE \E c \in Config : Publish(c)
  BY <1>14, PublishKeeps
<1>15. CASE \E t \in 1..MaxClock : ClockStep(t)
  BY <1>15, ClockStepKeeps
<1>16. CASE Crash
  BY <1>16, CrashKeeps
<1>17. CASE Boot
  BY <1>17, BootKeeps
<1>18. CASE \E a \in Attempt : RecoverAttempt(a)
  BY <1>18, RecoverAttemptKeeps
<1>19. CASE RecoverProbe
  BY <1>19, RecoverProbeKeeps
<1>20. CASE \E s \in Scope : RecoverCircuit(s)
  BY <1>20, RecoverCircuitKeeps
<1>21. CASE Recovered
  BY <1>21, RecoveredKeeps
<1>22. CASE TakeCheckpoint
  BY <1>22, TakeCheckpointKeeps
<1>23. CASE UNCHANGED vars
  BY <1>23 DEF vars, Inv, TypeOK, Sound, Agree, Same, Up, Fresh, Leased, Covered, Held
<1> QED
  BY <1>1, <1>2, <1>3, <1>4, <1>5, <1>6, <1>7, <1>8, <1>9, <1>10, <1>11, <1>12,
     <1>13, <1>14, <1>15, <1>16, <1>17, <1>18, <1>19, <1>20, <1>21, <1>22, <1>23 DEF Next

(* The inductive invariant holds in every reachable state of the account.  *)
THEOREM Invariance == Spec => []Inv
  BY InitInv, NextInv, PTL DEF Spec

(* Type correctness: every operation of AccountRuntime, replay and restart *)
(* leaves both ledgers and every counter in their types.                   *)
THEOREM TypeCorrect == Spec => []TypeOK
<1>1. Inv => TypeOK
  BY DEF Inv
<1> QED BY <1>1, Invariance, PTL

(* An attempt running at the provider keeps its slot, live and durably,    *)
(* through every crash, failed append, checkpoint, publication and restart,*)
(* unless an authoritative observation gave the slot back.                 *)
THEOREM CapacityNeverLost == Spec => []NoLostCapacity
<1>1. Inv => NoLostCapacity
  BY UpFacts DEF Inv, NoLostCapacity, Covered, Running
<1> QED BY <1>1, Invariance, PTL

(* _apply_record never raises on a record this Gateway appended.           *)
THEOREM AlwaysReplayable == Spec => []JournalReplayable
<1>1. Inv => JournalReplayable
  BY DEF Inv, Sound, JournalReplayable
<1> QED BY <1>1, Invariance, PTL

(* The live ledger and the one a restart would rebuild agree on slots,     *)
(* holds, dispatches, probes and circuits whenever the Gateway runs.       *)
THEOREM ReplayAgreement == Spec => []ReplayAgrees
<1>1. Inv => ReplayAgrees
  BY DEF Inv, Agree, Same, ReplayAgrees
<1> QED BY <1>1, Invariance, PTL

(* RuntimeState.__init__ gives no slot and no external hold away.          *)
THEOREM RestartKeeps == Spec => RestartKeepsCapacity
<1> DEFINE Kept == status = "down" /\ status' = "recovering" =>
                      /\ Held(mem') = Held(disk) /\ mem'.holds = disk.holds
<1>1. Inv /\ [Next]_vars => [Kept]_vars
  <2> SUFFICES ASSUME Inv, Next, status = "down", status' = "recovering"
               PROVE  Held(mem') = Held(disk) /\ mem'.holds = disk.holds
    BY DEF vars
  <2>1. Boot
    BY DEF Next, TryReserve, MarkDispatched, Send, ProviderEnds, Finish, Capacity,
           AuthoritativeCount, BeginRecoveryProbe, FinishRecoveryProbe, OpenCircuit,
           BeginProbe, ProbeSucceeded, ProbeFailed, Publish, ClockStep, Crash,
           RecoverAttempt, RecoverProbe, RecoverCircuit, Recovered,
           TakeCheckpoint, Serving
  <2>2. mem' = Rebuilt
    BY <2>1 DEF Boot
  <2> QED BY <2>2, RebuiltKeeps DEF Agree, Same, Held
<1> QED BY <1>1, Invariance, PTL DEF Spec, RestartKeepsCapacity

-----------------------------------------------------------------------------
(* Slots, circuits and probe tokens in what a restart would rebuild.  While*)
(* the process is up the live ledger has the same (Agree), so the durable  *)
(* ledger is the one to follow.                                            *)

Kept(L, M) == /\ Held(L) \subseteq Held(M)
              /\ L.circuit = M.circuit /\ L.consumed = M.consumed

(* Whatever becomes of an append and its checkpoint, the durable ledger is *)
(* the old one, the live one or the replayed one.                          *)
LEMMA CommitDisk ==
    ASSUME NEW before, NEW live, NEW replayed, Commit(before, live, replayed)
    PROVE  /\ disk' \in {disk, live, replayed} /\ status' \in {status, "recovery_required"}
           /\ status' # "recovery_required" => disk' \in {live, replayed}
  BY DEF Commit, Checkpointed, AppendFails

(* _finish changes no circuit.                                              *)
LEMMA ResolvedCircuits ==
    ASSUME NEW L, Sound(L), rsv \in [Attempt -> Payload], NEW a \in Held(L),
           NEW k \in Resolution, NEW at
    PROVE  /\ LiveResolved(L, a, k, at).circuit = L.circuit
           /\ LiveResolved(L, a, k, at).consumed = L.consumed
<1> DEFINE S == Settle(L, a, k)
<1>1. Sound(S)
  BY SettleSound
<1>2. S.circuit = L.circuit /\ S.consumed = L.consumed
  BY DEF Settle, Sound, Ledger
<1>3. \E u : LiveResolved(L, a, k, at) = [S EXCEPT !.used = u, !.resolved[a] = at]
  BY DEF LiveResolved
<1> HIDE DEF S
<1> QED BY <1>1, <1>2, <1>3 DEF Sound, Ledger

(* A count and a recovery probe change no circuit.                          *)
LEMMA ObservedCircuits ==
    ASSUME NEW L, Sound(L), NEW n \in Nat, NEW available \in BOOLEAN, L.active = {}
    PROVE  /\ ApplyCount(L, n).circuit = L.circuit /\ ApplyCount(L, n).consumed = L.consumed
           /\ ProbeFinished(L, available).circuit = L.circuit
           /\ ProbeFinished(L, available).consumed = L.consumed
<1>1. ASSUME NEW A PROVE /\ Release(L, A) \in Ledger /\ Release(L, A).circuit = L.circuit
                         /\ Release(L, A).consumed = L.consumed
  BY DEF Release, Sound, Ledger
<1>2. ASSUME NEW A, NEW h, NEW q
      PROVE  /\ [Release(L, A) EXCEPT !.holds = h, !.probing = q].circuit = L.circuit
             /\ [Release(L, A) EXCEPT !.holds = h, !.probing = q].consumed = L.consumed
             /\ [Release(L, A) EXCEPT !.holds = h].circuit = L.circuit
             /\ [Release(L, A) EXCEPT !.holds = h].consumed = L.consumed
  BY <1>1 DEF Ledger
<1>3. \E A, h : ApplyCount(L, n) = [Release(L, A) EXCEPT !.holds = h]
  BY DEF ApplyCount
<1>4. \E A, h : ProbeFinished(L, available) = [Release(L, A) EXCEPT !.holds = h, !.probing = "no"]
  BY DEF ProbeFinished
<1> QED BY <1>2, <1>3, <1>4

(* Operations on one attempt, the recovery probe and the checkpoints.      *)
Calm ==
    \/ \E a \in Attempt : MarkDispatched(a) \/ Send(a) \/ RecoverAttempt(a)
    \/ \E a \in Attempt, how \in {"ended", "refused"} : ProviderEnds(a, how)
    \/ \E a \in Attempt, k \in Resolution : Finish(a, k)
    \/ \E available \in BOOLEAN : FinishRecoveryProbe(available)
    \/ Capacity \/ AuthoritativeCount \/ BeginRecoveryProbe \/ RecoverProbe
    \/ \E c \in Config : Publish(c)
    \/ \E t \in 1..MaxClock : ClockStep(t)
    \/ TakeCheckpoint \/ Crash \/ Boot \/ Recovered

(* They take no new slot, and leave circuits and consumed tokens alone.    *)
LEMMA CalmKept ==
    ASSUME Inv, Calm
    PROVE  Kept(disk', disk)
<1>0. Kept(disk, disk)
  BY DEF Kept
<1>1. ASSUME NEW a \in Attempt, MarkDispatched(a) PROVE Kept(disk', disk)
  <2>1. Up /\ Sound(Touch(mem)) /\ Agree(Touch(mem), disk) /\ a \in Held(mem)
    BY <1>1, UpFacts, TouchKeeps DEF MarkDispatched, Serving, Up
  <2>2. a \in Held(Touch(mem)) /\ a \in Held(disk) /\ Sound(disk)
    BY <2>1, UpFacts DEF Agree, Same, Held
  <2>3. Kept(LiveDispatched(Touch(mem), a), disk) /\ Kept(ReplayDispatched(disk, a), disk)
    BY <2>1, <2>2 DEF Kept, LiveDispatched, ReplayDispatched, Agree, Same, Held, Sound, Ledger
  <2> QED BY <1>1, <2>3, <1>0, CommitDisk DEF MarkDispatched
<1>2. ASSUME NEW a \in Attempt, RecoverAttempt(a) PROVE Kept(disk', disk)
  <2>1. Up /\ a \in mem.active /\ Sound(mem) /\ Sound(disk) /\ Agree(mem, disk)
    BY <1>2, UpFacts DEF RecoverAttempt, Up
  <2>2. Kept(ReplayUncertain(disk, a), disk)
    BY <2>1 DEF Kept, ReplayUncertain, Agree, Same, Held, Sound, Ledger
  <2> QED BY <1>0, <1>2, <2>2 DEF RecoverAttempt, AppendFails
<1>3. ASSUME NEW a \in Attempt, NEW k \in Resolution, Finish(a, k) PROVE Kept(disk', disk)
  <2> DEFINE m == Touch(mem)
             now == Now(mem)
             live == LiveResolved(m, a, k, now)
             replayed == ReplayResolved(disk, a, k, now)
  <2>1. Up /\ Sound(m) /\ Agree(m, disk) /\ m.resolved = mem.resolved /\ now \in Nat
        /\ Sound(disk) /\ rsv \in [Attempt -> Payload] /\ Held(m) = Held(mem) /\ Held(m) = Held(disk)
    BY <1>3, UpFacts, TouchKeeps DEF Finish, Serving, Up, Agree, Same, Held
  <2>2. a \in Held(m) /\ m.resolved[a] = NoTime
    BY <1>3, <2>1 DEF Finish, Resolved
  <2>3. Agree(live, replayed) /\ Held(live) \subseteq Held(m)
    BY <2>1, <2>2, ResolvedKeeps
  <2>4. live.circuit = m.circuit /\ live.consumed = m.consumed
    BY <2>1, <2>2, ResolvedCircuits
  <2>5. Commit(m, live, replayed)
    BY <1>3 DEF Finish
  <2> HIDE DEF m, live, replayed
  <2>6. Kept(live, disk) /\ Kept(replayed, disk)
    BY <2>1, <2>3, <2>4 DEF Kept, Agree, Same, Held
  <2> QED BY <1>0, <2>5, <2>6, CommitDisk
<1>4. CASE AuthoritativeCount
  <2> DEFINE n == Cardinality(Running)
  <2>1. Up /\ Sound(mem) /\ Sound(disk) /\ Agree(mem, disk) /\ mem.active = {} /\ n \in Nat
    BY <1>4, UpFacts, Counted DEF AuthoritativeCount, Serving, Up
  <2> HIDE DEF n
  <2>2. /\ Agree(ApplyCount(mem, n), ApplyCount(disk, n))
        /\ Held(ApplyCount(mem, n)) \subseteq Held(mem)
    BY <2>1, CountKeeps
  <2>3. ApplyCount(mem, n).circuit = mem.circuit /\ ApplyCount(mem, n).consumed = mem.consumed
    BY <2>1, ObservedCircuits
  <2>4. Kept(ApplyCount(mem, n), disk) /\ Kept(ApplyCount(disk, n), disk)
    BY <2>1, <2>2, <2>3 DEF Kept, Agree, Same, Held
  <2> QED BY <1>0, <1>4, <2>4, CommitDisk DEF AuthoritativeCount, n
<1>5. CASE BeginRecoveryProbe
  <2>1. Up /\ Sound(mem) /\ Sound(disk) /\ Agree(mem, disk)
    BY <1>5, UpFacts DEF BeginRecoveryProbe, Serving, Up
  <2>2. Kept(LiveProbeStarted(mem), disk) /\ Kept(LiveProbeStarted(disk), disk)
    BY <2>1 DEF Kept, LiveProbeStarted, Agree, Same, Held, Sound, Ledger
  <2> QED BY <1>0, <1>5, <2>2, CommitDisk DEF BeginRecoveryProbe
<1>6. ASSUME NEW available \in BOOLEAN, Up, mem.active = {}
      PROVE  Kept(ProbeFinished(mem, available), disk) /\ Kept(ProbeFinished(disk, available), disk)
  <2>1. Sound(mem) /\ Sound(disk) /\ Agree(mem, disk)
    BY <1>6, UpFacts
  <2>2. /\ Agree(ProbeFinished(mem, available), ProbeFinished(disk, available))
        /\ Held(ProbeFinished(mem, available)) \subseteq Held(mem)
    BY <2>1, ProbeKeeps
  <2>3. /\ ProbeFinished(mem, available).circuit = mem.circuit
        /\ ProbeFinished(mem, available).consumed = mem.consumed
    BY <1>6, <2>1, ObservedCircuits
  <2> QED BY <2>1, <2>2, <2>3 DEF Kept, Agree, Same, Held
<1>7. ASSUME NEW available \in BOOLEAN, FinishRecoveryProbe(available) PROVE Kept(disk', disk)
  BY <1>0, <1>6, <1>7, CommitDisk DEF FinishRecoveryProbe, Serving, Up
<1>8. CASE RecoverProbe
  BY <1>0, <1>6, <1>8 DEF RecoverProbe, AppendFails, Up
<1>9. ASSUME NEW c \in Config, Publish(c) PROVE Kept(disk', disk)
  <2>1. Kept(UpdateAccount(mem, c), disk)
    BY <1>9, UpFacts, UpdateKeeps DEF Publish, Serving, Up, Kept, Agree, Same, Held
  <2> QED BY <1>0, <1>9, <2>1 DEF Publish, Checkpointed, AppendFails
<1>10. CASE TakeCheckpoint \/ Recovered
  <2>1. Kept(mem, disk)
    BY <1>10, UpFacts DEF TakeCheckpoint, Recovered, Serving, Up, Kept, Agree, Same, Held
  <2> QED BY <1>0, <1>10, <2>1 DEF TakeCheckpoint, Recovered, Checkpointed
<1>11. CASE Boot
  <2>1. Kept(Rebuilt, disk)
    BY RebuiltKeeps DEF Kept, Agree, Same, Held
  <2> QED BY <1>0, <1>11, <2>1 DEF Boot, Checkpointed
<1> QED
  BY <1>0, <1>1, <1>2, <1>3, <1>4, <1>5, <1>7, <1>8, <1>9, <1>10, <1>11
     DEF Calm, Send, ProviderEnds, Capacity, ClockStep, Crash


(* compare_and_swap_circuit: the swap is durable, or the journal failed.   *)
Swapped(s, v) ==
    \/ /\ disk'.circuit = [disk.circuit EXCEPT ![s] = v]
       /\ disk'.consumed = disk.consumed \ {disk.circuit[s].probe}
    \/ /\ disk'.circuit = disk.circuit /\ disk'.consumed = disk.consumed
       /\ status' = "recovery_required"

(* What every transition of a circuit keeps to: the epoch grows, an open   *)
(* circuit may only become half-open, and only a half-open value carries a *)
(* probe token, the newest one.                                            *)
Turned(s, v) ==
    /\ Swapped(s, v)
    /\ Held(disk') = Held(disk)
    /\ v.epoch >= disk.circuit[s].epoch
    /\ disk.circuit[s].state = "open" => v.state = "half_open"
    /\ \/ v.state # "half_open" /\ v.probe = NoProbe /\ minted' = minted
       \/ v.state = "half_open" /\ v.probe = minted' /\ minted' = minted + 1
    /\ status' \in {status, "recovery_required"}
    /\ UNCHANGED <<rsv, lease, wire, evicted>>

(* Whoever commits a new circuit value swaps it.                            *)
LEMMA CommitSwaps ==
    ASSUME Inv, Up, NEW s \in Scope, NEW v \in Circuit, NEW m, Sound(m), Agree(m, disk),
           Commit(m, SetCircuit(m, s, v), SetCircuit(disk, s, v))
    PROVE  /\ Swapped(s, v) /\ Held(disk') = Held(disk)
           /\ status' \in {status, "recovery_required"}
<1>1. Sound(disk)
  BY UpFacts
<1>2. ASSUME NEW L, Sound(L), Agree(L, disk)
      PROVE  /\ SetCircuit(L, s, v).circuit = [disk.circuit EXCEPT ![s] = v]
             /\ SetCircuit(L, s, v).consumed = disk.consumed \ {disk.circuit[s].probe}
             /\ Held(SetCircuit(L, s, v)) = Held(disk)
  BY <1>2 DEF SetCircuit, Sound, Agree, Same, Held, Ledger
<1>3. Agree(disk, disk)
  BY AgreeSelf
<1> DEFINE live == SetCircuit(m, s, v)
           replayed == SetCircuit(disk, s, v)
<1>4. /\ disk' \in {disk, live, replayed} /\ status' \in {status, "recovery_required"}
      /\ status' # "recovery_required" => disk' \in {live, replayed}
  BY CommitDisk
<1>5. /\ live.circuit = [disk.circuit EXCEPT ![s] = v]
      /\ live.consumed = disk.consumed \ {disk.circuit[s].probe}
      /\ Held(live) = Held(disk)
  BY <1>2
<1>6. /\ replayed.circuit = [disk.circuit EXCEPT ![s] = v]
      /\ replayed.consumed = disk.consumed \ {disk.circuit[s].probe}
      /\ Held(replayed) = Held(disk)
  BY <1>1, <1>2, <1>3
<1> HIDE DEF live, replayed
<1> QED BY <1>4, <1>5, <1>6 DEF Swapped

(* What the fields of a reopened circuit are.                               *)
LEMMA OpenedFields ==
    ASSUME NEW v \in Circuit, NEW step
    PROVE  /\ Opened(v, step).state = "open" /\ Opened(v, step).probe = NoProbe
           /\ Opened(v, step).epoch >= v.epoch
  BY DEF Opened, Circuit

(* The controller's transitions and the recovery of a half-open circuit.   *)
Turning ==
    \/ \E s \in Scope : OpenCircuit(s) \/ ProbeSucceeded(s) \/ ProbeFailed(s)
    \/ \E g \in Gen : BeginProbe(g)
    \/ \E s \in Scope : RecoverCircuit(s)

LEMMA TurningTurns ==
    ASSUME Inv, Turning
    PROVE  \E s \in Scope : \E v \in Circuit : Turned(s, v)
<1>0. ASSUME Up PROVE /\ Sound(mem) /\ Agree(mem, disk) /\ mem.circuit = disk.circuit
                      /\ mem.circuit \in [Scope -> Circuit]
  BY <1>0, UpFacts DEF Agree, Same, Sound, Ledger
<1>1. ASSUME NEW s \in Scope, OpenCircuit(s) PROVE \E v \in Circuit : Turned(s, v)
  <2> DEFINE v == mem.circuit[s]
             step == Smaller(IF v.state = "half_open" THEN v.step + 1 ELSE v.step, 2)
             w == Opened(v, step)
  <2>1. Up /\ Swap(s, w) /\ UNCHANGED minted /\ v.state # "open"
    BY <1>1 DEF OpenCircuit, Serving, Up
  <2>2. v \in Circuit /\ v = disk.circuit[s]
    BY <1>0, <2>1
  <2>3. step \in 0..2
    BY <2>2 DEF Circuit, Smaller
  <2> HIDE DEF step
  <2>4. /\ w \in Circuit /\ w.state = "open" /\ w.probe = NoProbe /\ w.epoch >= v.epoch
    BY <2>2, <2>3, CircuitTypes, OpenedFields
  <2>5. /\ Swapped(s, w) /\ Held(disk') = Held(disk) /\ status' \in {status, "recovery_required"}
        /\ UNCHANGED <<rsv, lease, wire, evicted>>
    BY <1>0, <2>1, <2>4, CommitSwaps DEF Swap
  <2> HIDE DEF w, v
  <2> QED BY <2>1, <2>2, <2>4, <2>5 DEF Turned
<1>2. ASSUME NEW s \in Scope, ProbeFailed(s) PROVE \E v \in Circuit : Turned(s, v)
  <2> DEFINE v == mem.circuit[s]
             step == Smaller(v.step + 1, 2)
             w == Opened(v, step)
  <2>1. Up /\ Swap(s, w) /\ UNCHANGED minted /\ v.state = "half_open"
    BY <1>2 DEF ProbeFailed, Serving, Up
  <2>2. v \in Circuit /\ v = disk.circuit[s]
    BY <1>0, <2>1
  <2>3. step \in 0..2
    BY <2>2 DEF Circuit, Smaller
  <2> HIDE DEF step
  <2>4. /\ w \in Circuit /\ w.state = "open" /\ w.probe = NoProbe /\ w.epoch >= v.epoch
    BY <2>2, <2>3, CircuitTypes, OpenedFields
  <2>5. /\ Swapped(s, w) /\ Held(disk') = Held(disk) /\ status' \in {status, "recovery_required"}
        /\ UNCHANGED <<rsv, lease, wire, evicted>>
    BY <1>0, <2>1, <2>4, CommitSwaps DEF Swap
  <2> HIDE DEF w, v
  <2> QED BY <2>1, <2>2, <2>4, <2>5 DEF Turned
<1>3. ASSUME NEW s \in Scope, ProbeSucceeded(s) PROVE \E v \in Circuit : Turned(s, v)
  <2> DEFINE v == mem.circuit[s]
             w == Closed(v.epoch)
  <2>1. Up /\ Swap(s, w) /\ UNCHANGED minted /\ v.state = "half_open"
    BY <1>3 DEF ProbeSucceeded, Serving, Up
  <2>2. v \in Circuit /\ v = disk.circuit[s]
    BY <1>0, <2>1
  <2>3. /\ w \in Circuit /\ w.state = "closed" /\ w.probe = NoProbe /\ w.epoch >= v.epoch
    <3>1. w \in Circuit /\ v.epoch \in Nat
      BY <2>2, CircuitTypes DEF Circuit
    <3> QED BY <3>1 DEF Closed
  <2>4. /\ Swapped(s, w) /\ Held(disk') = Held(disk) /\ status' \in {status, "recovery_required"}
        /\ UNCHANGED <<rsv, lease, wire, evicted>>
    BY <1>0, <2>1, <2>3, CommitSwaps DEF Swap
  <2> HIDE DEF w, v
  <2> QED BY <2>1, <2>2, <2>3, <2>4 DEF Turned
<1>4. ASSUME NEW g \in Gen, BeginProbe(g) PROVE \E s \in Scope : \E v \in Circuit : Turned(s, v)
  <2> DEFINE s == IF mem.circuit[ACCOUNT].state = "open" THEN ACCOUNT ELSE g
             v == mem.circuit[s]
             w == [v EXCEPT !.state = "half_open", !.retry = 0, !.probe = minted + 1]
  <2>1. /\ Up /\ Swap(s, w) /\ minted' = minted + 1 /\ s \in Scope /\ minted \in Nat
    BY <1>4 DEF BeginProbe, Serving, Up, Scope, Inv, TypeOK
  <2> HIDE DEF s
  <2>2. v \in Circuit /\ v = disk.circuit[s]
    BY <1>0, <2>1
  <2>3. w \in Circuit
    <3>1. minted + 1 \in Nat /\ 0 \in Int
      BY <2>1
    <3> QED BY <2>1, <3>1, CircuitTypes
  <2>4. w.state = "half_open" /\ w.probe = minted + 1 /\ w.epoch >= v.epoch
    BY <2>2 DEF Circuit
  <2>5. /\ Swapped(s, w) /\ Held(disk') = Held(disk) /\ status' \in {status, "recovery_required"}
        /\ UNCHANGED <<rsv, lease, wire, evicted>>
    BY <1>0, <2>1, <2>3, CommitSwaps DEF Swap
  <2> HIDE DEF w, v
  <2> QED BY <2>1, <2>2, <2>3, <2>4, <2>5 DEF Turned
<1>5. ASSUME NEW s \in Scope, RecoverCircuit(s) PROVE \E v \in Circuit : Turned(s, v)
  <2> DEFINE v == mem.circuit[s]
             n == Smaller(64, v.step + 1)
             e == v.epoch + 1
             t == Now(mem)
             w == [v EXCEPT !.state = "open", !.epoch = e, !.retry = t, !.step = n,
                            !.probe = NoProbe]
             m == Touch(mem)
  <2>1. Up /\ v \in Circuit /\ v = disk.circuit[s] /\ v.state = "half_open"
    BY <1>0, <1>5 DEF RecoverCircuit, Up, HalfOpen
  <2>2. /\ Commit(m, SetCircuit(m, s, w), SetCircuit(disk, s, w))
        /\ UNCHANGED <<rsv, lease, wire, evicted, minted>>
    BY <1>5 DEF RecoverCircuit
  <2>3. Sound(m) /\ Agree(m, disk) /\ t \in Nat
    BY <2>1, UpFacts, TouchKeeps
  <2>4. n \in Nat /\ e \in Nat /\ e >= v.epoch /\ t \in Int
    BY <2>1, <2>3 DEF Circuit, Smaller
  <2> HIDE DEF n, e, t, v, m
  <2>5. w \in Circuit /\ w.state = "open" /\ w.probe = NoProbe /\ w.epoch = e
    BY <2>1, <2>4 DEF Circuit, NoProbe
  <2>6. /\ Swapped(s, w) /\ Held(disk') = Held(disk) /\ status' \in {status, "recovery_required"}
    BY <2>1, <2>2, <2>3, <2>5, CommitSwaps
  <2> HIDE DEF w
  <2> QED BY <2>1, <2>2, <2>4, <2>5, <2>6 DEF Turned
<1> QED BY <1>1, <1>2, <1>3, <1>4, <1>5 DEF Turning

(* try_reserve grants one slot below the limit, with the tokens of its     *)
(* half-open circuits, none of which has been consumed.                    *)
Booked(a, p, g) ==
    /\ rsv' = [rsv EXCEPT ![a] = p]
    /\ lease' = [lease EXCEPT ![a] = IF status' = "healthy" THEN "held" ELSE @]
    /\ p.probes = ProbesOf(disk, g) /\ p.probes \cap disk.consumed = {}
    /\ Cardinality(Held(disk)) < cfg.parallel
    /\ Held(disk') \subseteq Held(disk) \cup {a}
    /\ disk'.circuit = disk.circuit
    /\ \/ disk'.consumed = disk.consumed \cup p.probes
       \/ disk'.consumed = disk.consumed /\ status' = "recovery_required"

Denied == UNCHANGED <<disk, rsv, status, lease>>

LEMMA ReserveBooks ==
    ASSUME Inv, NEW a \in Attempt, NEW r \in Request, NEW stale \in BOOLEAN,
           TryReserve(a, r, stale)
    PROVE  /\ UNCHANGED <<cfg, wire, evicted, minted>> /\ status = "healthy"
           /\ status' \in {status, "recovery_required"}
           /\ Denied \/ \E p \in Payload : Booked(a, p, r.gen)
<1> DEFINE now    == Now(mem)
           pruned == PruneResolutions(Touch(mem), now)
           purged == PurgeWindows(pruned, now)
           fresh  == RollMonthly(purged, now)
           p == [at |-> now, deadline |-> clock + r.ttl, tokens |-> r.tokens,
                 quota |-> r.quota, reset |-> fresh.reset,
                 probes |-> ProbesOf(fresh, r.gen)]
<1>1. /\ status = "healthy" /\ clock \in Nat /\ Sound(mem) /\ Sound(disk)
      /\ Agree(mem, disk) /\ UNCHANGED <<cfg, wire, evicted, minted>>
  BY DEF TryReserve, Serving, Inv, TypeOK, Up
<1>2. /\ Sound(Touch(mem)) /\ Agree(Touch(mem), disk) /\ now \in Nat
      /\ Touch(mem).resolved = mem.resolved
  BY <1>1, TouchKeeps
<1>3. /\ Sound(pruned) /\ Agree(pruned, disk)
      /\ \A b \in Attempt : mem.resolved[b] = NoTime => pruned.resolved[b] = NoTime
  BY <1>2, PruneKeeps
<1>4. Sound(purged) /\ Agree(purged, disk) /\ purged.resolved = pruned.resolved
  BY <1>2, <1>3, PurgeKeeps
<1>5. Sound(fresh) /\ Agree(fresh, disk) /\ fresh.resolved = purged.resolved
  BY <1>2, <1>4, RollKeeps
<1> HIDE DEF now, pruned, purged, fresh
<1>6. CASE Denied
  BY <1>1, <1>6 DEF Denied
<1>7. CASE /\ EarlyChecks(pruned, a, r, now, clock + r.ttl) /\ Limits(fresh, r, now)
           /\ Grant(fresh, a, p)
  <2>1. r.gen \in Gen /\ r.ttl \in Nat /\ r.tokens \in Nat /\ r.quota \in Nat
    BY ConstantsAssumption
  <2>2. /\ ProbesOf(fresh, r.gen) = ProbesOf(disk, r.gen)
        /\ ProbesOf(pruned, r.gen) = ProbesOf(disk, r.gen)
        /\ pruned.consumed = disk.consumed /\ Held(fresh) = Held(disk)
        /\ fresh.holds = disk.holds
    BY <1>3, <1>5 DEF ProbesOf, Agree, Same, Held
  <2>3. p \in Payload
    <3>1. ProbesOf(fresh, r.gen) \subseteq Nat
      BY <1>5, <2>1 DEF ProbesOf, Sound, Ledger, Circuit, Scope
    <3>2. fresh.reset \in Int
      BY <1>5 DEF Sound, Ledger
    <3> QED BY <1>1, <1>2, <2>1, <3>1, <3>2 DEF Payload, NoTime
  <2>4. p.probes = ProbesOf(disk, r.gen) /\ p.probes \cap disk.consumed = {}
    BY <1>7, <2>2 DEF EarlyChecks
  <2>5. Cardinality(Held(disk)) < cfg.parallel
    <3>1. Cardinality(Held(disk)) + disk.holds < cfg.parallel
      BY <1>7, <2>2 DEF Limits, ParallelFree, ActiveCount
    <3>2. disk.holds \in Nat /\ Held(disk) \subseteq Attempt
      BY <1>1 DEF Sound, Ledger, Held
    <3>3. Cardinality(Held(disk)) \in Nat
      BY <3>2, ConstantsAssumption, FS_Subset, FS_CardinalityType
    <3>4. cfg.parallel \in Nat
      BY ConstantsAssumption DEF Inv, TypeOK, AccountConfig
    <3> QED BY <3>1, <3>2, <3>3, <3>4
  <2> HIDE DEF p
  <2> DEFINE live == LiveReserved(fresh, a, p)
             replayed == ReplayReserved(disk, a, p)
  <2>6. /\ Commit(fresh, live, replayed) /\ rsv' = [rsv EXCEPT ![a] = p]
        /\ lease' = [lease EXCEPT ![a] = IF status' = "healthy" THEN "held" ELSE @]
    BY <1>7 DEF Grant
  <2>7. fresh.resolved[a] = disk.resolved[a]
    <3>1. rsv[a].at = NoTime
      BY DEF TryReserve
    <3> QED BY <1>3, <1>4, <1>5, <3>1 DEF Inv, Fresh
  <2>8. Agree(live, replayed) /\ Held(live) = Held(fresh) \cup {a}
    BY <1>1, <1>5, <2>3, <2>7, ReservedKeeps
  <2>9. live.circuit = fresh.circuit /\ live.consumed = fresh.consumed \cup p.probes
    BY <1>5 DEF LiveReserved, Sound, Ledger
  <2> HIDE DEF live, replayed
  <2>10. /\ live.circuit = disk.circuit /\ live.consumed = disk.consumed \cup p.probes
         /\ replayed.circuit = disk.circuit
         /\ replayed.consumed = disk.consumed \cup p.probes
         /\ Held(live) = Held(disk) \cup {a} /\ Held(replayed) = Held(disk) \cup {a}
    BY <1>5, <2>2, <2>8, <2>9 DEF Agree, Same, Held
  <2>11. /\ disk' \in {disk, live, replayed} /\ status' \in {status, "recovery_required"}
         /\ status' # "recovery_required" => disk' \in {live, replayed}
    BY <2>6, CommitDisk
  <2>12. Booked(a, p, r.gen)
    BY <2>4, <2>5, <2>6, <2>10, <2>11 DEF Booked
  <2> QED BY <1>1, <2>3, <2>11, <2>12
<1> QED BY <1>6, <1>7 DEF TryReserve, Denied, now, pruned, purged, fresh

(* The three kinds of step.                                                 *)
LEMMA StepKinds ==
    ASSUME Next
    PROVE  \/ Calm \/ Turning
           \/ \E a \in Attempt, r \in Request, stale \in BOOLEAN : TryReserve(a, r, stale)
  BY DEF Next, Calm, Turning

(* CircuitController and the restart: a circuit's durable epoch never goes *)
(* back, and an open circuit becomes half-open before it closes.           *)
THEOREM CircuitsFenced == Spec => CircuitFenced
<1> DEFINE Fence == \A s \in Scope :
                      /\ disk'.circuit[s].epoch >= disk.circuit[s].epoch
                      /\ disk.circuit[s].state = "open" => disk'.circuit[s].state # "closed"
<1>1. Inv /\ [Next]_vars => [Fence]_vars
  <2> SUFFICES ASSUME Inv, Next, NEW s \in Scope
               PROVE  /\ disk'.circuit[s].epoch >= disk.circuit[s].epoch
                      /\ disk.circuit[s].state = "open" => disk'.circuit[s].state # "closed"
    BY DEF vars
  <2>1. disk.circuit \in [Scope -> Circuit]
    BY DEF Inv, Sound, Ledger
  <2>2. CASE disk'.circuit = disk.circuit
    <3>1. disk.circuit[s].epoch \in Nat
      BY <2>1 DEF Circuit
    <3> QED BY <2>2, <3>1
  <2>3. CASE Turning
    <3>1. PICK t \in Scope : \E v \in Circuit : Turned(t, v)
      BY <2>3, TurningTurns
    <3>2. PICK v \in Circuit : Turned(t, v)
      BY <3>1
    <3>3. disk'.circuit = [disk.circuit EXCEPT ![t] = v] \/ disk'.circuit = disk.circuit
      BY <3>2 DEF Turned, Swapped
    <3>4. disk.circuit[s].epoch \in Nat
      BY <2>1 DEF Circuit
    <3> QED BY <2>1, <2>2, <3>2, <3>3, <3>4 DEF Turned
  <2>4. CASE Calm
    BY <2>2, <2>4, CalmKept DEF Kept
  <2>5. ASSUME NEW a \in Attempt, NEW r \in Request, NEW stale \in BOOLEAN,
               TryReserve(a, r, stale)
        PROVE  disk'.circuit = disk.circuit
    BY <2>5, ReserveBooks DEF Booked, Denied
  <2> QED BY <2>2, <2>3, <2>4, <2>5, StepKinds
<1> QED BY <1>1, Invariance, PTL DEF Spec, CircuitFenced

-----------------------------------------------------------------------------
(* The parallel limit.                                                     *)

Most == Max({c.parallel : c \in Config})

(* The slots a restart would rebuild, uncertain ones included.             *)
Slotted == Cardinality(Held(disk)) <= Most

(* Each published limit is at most the largest one, where there is one.    *)
LEMMA LargestParallel ==
    ASSUME \E c \in Config : \A d \in Config : d.parallel <= c.parallel
    PROVE  Most \in Nat /\ \A c \in Config : c.parallel <= Most
<1> DEFINE P == {c.parallel : c \in Config}
<1>1. P \subseteq Nat
  BY ConstantsAssumption DEF AccountConfig
<1>2. \E x \in P : \A y \in P : x >= y
  BY <1>1
<1>3. Most \in P /\ \A y \in P : Most >= y
  BY <1>2 DEF Most, Max
<1>4. \A c \in Config : c.parallel \in P
  OBVIOUS
<1> HIDE DEF P
<1> QED BY <1>1, <1>3, <1>4

(* Attempts that hold slots are finitely many.                              *)
LEMMA HeldFinite ==
    ASSUME NEW L, Sound(L)
    PROVE  IsFiniteSet(Held(L)) /\ Cardinality(Held(L)) \in Nat
<1>1. Held(L) \subseteq Attempt
  BY DEF Sound, Ledger, Held
<1> QED BY <1>1, ConstantsAssumption, FS_Subset, FS_CardinalityType

(* A grant is the only step that takes a slot, and takes one below the     *)
(* published limit.                                                        *)
LEMMA SlottedStep ==
    ASSUME \E c \in Config : \A d \in Config : d.parallel <= c.parallel
    PROVE  Inv /\ Slotted /\ [Next]_vars => Slotted'
<1> SUFFICES ASSUME Inv, Slotted, [Next]_vars
             PROVE  Slotted'
  OBVIOUS
<1>1. /\ IsFiniteSet(Held(disk)) /\ Cardinality(Held(disk)) \in Nat
      /\ Most \in Nat /\ \A c \in Config : c.parallel <= Most
  BY HeldFinite, LargestParallel DEF Inv
<1>2. ASSUME Held(disk') \subseteq Held(disk) PROVE Slotted'
  <2>1. Cardinality(Held(disk')) \in Nat /\ Cardinality(Held(disk')) <= Cardinality(Held(disk))
    BY <1>1, <1>2, FS_Subset, FS_CardinalityType
  <2> QED BY <1>1, <2>1 DEF Slotted, Held, Most
<1>3. ASSUME NEW a \in Attempt, NEW r \in Request, NEW stale \in BOOLEAN, TryReserve(a, r, stale)
      PROVE  Slotted'
  <2>1. CASE disk' = disk
    BY <1>2, <2>1
  <2>2. ASSUME NEW p, Booked(a, p, r.gen) PROVE Slotted'
    <3>1. IsFiniteSet(Held(disk) \cup {a})
          /\ Cardinality(Held(disk) \cup {a}) <= Cardinality(Held(disk)) + 1
      <4>1. /\ IsFiniteSet(Held(disk) \cup {a})
            /\ Cardinality(Held(disk) \cup {a}) =
                  IF a \in Held(disk) THEN Cardinality(Held(disk)) ELSE Cardinality(Held(disk)) + 1
        BY <1>1, FS_AddElement
      <4> QED BY <1>1, <4>1
    <3>2. /\ Cardinality(Held(disk')) <= Cardinality(Held(disk) \cup {a})
          /\ Cardinality(Held(disk')) \in Nat /\ Cardinality(Held(disk) \cup {a}) \in Nat
      BY <2>2, <3>1, FS_Subset, FS_CardinalityType DEF Booked
    <3>3. Cardinality(Held(disk)) < cfg.parallel /\ cfg.parallel \in Nat /\ cfg.parallel <= Most
      BY <1>1, <2>2, ConstantsAssumption DEF Booked, Inv, TypeOK, AccountConfig
    <3>4. Cardinality(Held(disk')) <= Most
      BY <1>1, <3>1, <3>2, <3>3
    <3> QED BY <3>4 DEF Slotted, Held, Most
  <2> QED BY <1>3, <2>1, <2>2, ReserveBooks DEF Denied
<1>4. CASE Turning
  BY <1>2, <1>4, TurningTurns DEF Turned
<1>5. CASE Calm
  BY <1>2, <1>5, CalmKept DEF Kept
<1>6. CASE UNCHANGED vars
  BY <1>2, <1>6 DEF vars
<1> QED BY <1>3, <1>4, <1>5, <1>6, StepKinds

(* enforced_max_in_flight: across crashes, uncertain attempts and          *)
(* publications the provider never runs more of our attempts than the      *)
(* largest limit published (any finite set of configurations has one).     *)
THEOREM ParallelNeverExceeded ==
    ASSUME \E c \in Config : \A d \in Config : d.parallel <= c.parallel
    PROVE  Spec => []ParallelBound
<1>1. Init => Slotted
  <2> SUFFICES ASSUME Init PROVE Slotted
    OBVIOUS
  <2>1. Held(disk) = {}
    BY DEF Init, Empty, Held
  <2> QED BY <2>1, LargestParallel, FS_EmptySet DEF Slotted
<1>2. Inv /\ Slotted => ParallelBound
  <2> SUFFICES ASSUME Inv, Slotted PROVE ParallelBound
    OBVIOUS
  <2>1. Running \ evicted \subseteq Held(disk)
    BY DEF Inv, Covered, Running
  <2>2. IsFiniteSet(Held(disk)) /\ Cardinality(Held(disk)) \in Nat /\ Most \in Nat
    BY HeldFinite, LargestParallel DEF Inv
  <2>3. /\ Cardinality(Running \ evicted) <= Cardinality(Held(disk))
        /\ Cardinality(Running \ evicted) \in Nat
    BY <2>1, <2>2, FS_Subset, FS_CardinalityType
  <2> QED BY <2>2, <2>3 DEF Slotted, ParallelBound, Most
<1> QED BY <1>1, <1>2, SlottedStep, Invariance, PTL DEF Spec

-----------------------------------------------------------------------------
(* Probe tokens.                                                           *)

(* The attempts that may send, or have sent, on a probe token.             *)
Uses(p) == {a \in Attempt : p \in rsv[a].probes /\ (lease[a] # "none" \/ wire[a] # "unsent")}

Spent(p) == \A a, b \in Uses(p) : a = b

(* Tokens are minted, and only a half-open circuit has one.                 *)
Minted ==
    /\ \A a \in Attempt : rsv[a].probes \subseteq 1..minted
    /\ \A s \in Scope : IF disk.circuit[s].state = "half_open"
                        THEN disk.circuit[s].probe \in 1..minted
                        ELSE disk.circuit[s].probe = NoProbe

(* While the Gateway serves, half-open circuits have tokens of their own,  *)
(* and a token that is not consumed is nobody's.                           *)
Unspent ==
    status = "healthy" =>
        /\ \A s, t \in HalfOpen(disk) :
              disk.circuit[s].probe = disk.circuit[t].probe => s = t
        /\ \A s \in HalfOpen(disk) :
              disk.circuit[s].probe \notin disk.consumed => Uses(disk.circuit[s].probe) = {}

Probed == Minted /\ Unspent /\ \A p \in Nat : Spent(p)

(* A step that neither grants nor turns a circuit gives nobody a token, and*)
(* recovery ends with no circuit half-open.                                *)
LEMMA CalmUses ==
    ASSUME Inv, Calm
    PROVE  /\ \A p : Uses(p)' \subseteq Uses(p)
           /\ UNCHANGED <<rsv, minted>>
           /\ status' = "healthy" => status = "healthy" \/ HalfOpen(disk)' = {}
<1>0. lease \in [Attempt -> {"none", "held", "cleared"}]
      /\ wire \in [Attempt -> {"unsent", "running", "ended", "refused"}]
  BY DEF Inv, TypeOK
<1>1. ASSUME NEW a \in Attempt, MarkDispatched(a)
      PROVE  /\ \A p : Uses(p)' \subseteq Uses(p)
             /\ UNCHANGED <<rsv, minted>> /\ status' \in {status, "recovery_required"}
  <2>1. \A b \in Attempt : lease'[b] # "none" => lease[b] # "none"
    BY <1>0, <1>1 DEF MarkDispatched
  <2>2. UNCHANGED <<rsv, minted, wire>>
    BY <1>1 DEF MarkDispatched
  <2>3. status' \in {status, "recovery_required"}
    BY <1>1, CommitDisk DEF MarkDispatched
  <2> QED BY <2>1, <2>2, <2>3 DEF Uses
<1>2. ASSUME NEW a \in Attempt, Send(a)
      PROVE  /\ \A p : Uses(p)' \subseteq Uses(p)
             /\ UNCHANGED <<rsv, minted, status>>
  BY <1>0, <1>2 DEF Send, Uses
<1>3. ASSUME NEW a \in Attempt, NEW how, ProviderEnds(a, how)
      PROVE  /\ \A p : Uses(p)' \subseteq Uses(p)
             /\ UNCHANGED <<rsv, minted, status>>
  BY <1>0, <1>3 DEF ProviderEnds, Uses
<1>4. ASSUME NEW a \in Attempt, NEW k, Finish(a, k)
      PROVE  /\ \A p : Uses(p)' \subseteq Uses(p)
             /\ UNCHANGED <<rsv, minted>> /\ status' \in {status, "recovery_required"}
  <2>1. \A b \in Attempt : lease'[b] # "none" => lease[b] # "none"
    BY <1>0, <1>4 DEF Finish
  <2>2. UNCHANGED <<rsv, minted, wire>>
    BY <1>4 DEF Finish
  <2>3. status' \in {status, "recovery_required"}
    BY <1>4, CommitDisk DEF Finish
  <2> QED BY <2>1, <2>2, <2>3 DEF Uses
<1>5. ASSUME UNCHANGED <<rsv, lease, wire>> PROVE \A p : Uses(p)' \subseteq Uses(p)
  BY <1>5 DEF Uses
<1>6. CASE \/ Capacity \/ AuthoritativeCount \/ BeginRecoveryProbe \/ RecoverProbe \/ TakeCheckpoint
           \/ \E available \in BOOLEAN : FinishRecoveryProbe(available)
           \/ \E c \in Config : Publish(c)
           \/ \E t \in 1..MaxClock : ClockStep(t)
           \/ \E a \in Attempt : RecoverAttempt(a)
  <2>1. UNCHANGED <<rsv, minted, lease, wire>>
    BY <1>6 DEF Capacity, AuthoritativeCount, BeginRecoveryProbe, RecoverProbe, TakeCheckpoint,
               FinishRecoveryProbe, Publish, ClockStep, RecoverAttempt
  <2>2. status' \in {status, "recovery_required"}
    BY <1>6, CommitDisk DEF Capacity, AuthoritativeCount, BeginRecoveryProbe, RecoverProbe,
               TakeCheckpoint, FinishRecoveryProbe, Publish, ClockStep, RecoverAttempt,
               Checkpointed, AppendFails
  <2> QED BY <1>5, <2>1, <2>2
<1>7. CASE Crash
  BY <1>7 DEF Crash, Uses
<1>8. CASE Boot
  BY <1>5, <1>8 DEF Boot, Checkpointed
<1>9. CASE Recovered
  <2>1. Up /\ HalfOpen(mem) = {} /\ UNCHANGED <<rsv, minted, lease, wire>>
    BY <1>9 DEF Recovered, Up
  <2>2. mem.circuit = disk.circuit
    BY <2>1, UpFacts DEF Agree, Same
  <2>3. disk'.circuit = disk.circuit
    BY <1>9, <2>2 DEF Recovered, Checkpointed
  <2> QED BY <1>5, <2>1, <2>2, <2>3 DEF HalfOpen
<1> QED BY <1>1, <1>2, <1>3, <1>4, <1>6, <1>7, <1>8, <1>9 DEF Calm

(* Calm steps keep the tokens as they are.                                  *)
LEMMA CalmProbed == ASSUME Inv, Calm, Probed PROVE Probed'
<1>1. /\ \A p : Uses(p)' \subseteq Uses(p)
      /\ UNCHANGED <<rsv, minted>>
      /\ status' = "healthy" => status = "healthy" \/ HalfOpen(disk)' = {}
  BY CalmUses
<1>2. disk'.circuit = disk.circuit /\ disk'.consumed = disk.consumed
  BY CalmKept DEF Kept
<1>3. Minted'
  BY <1>1, <1>2 DEF Probed, Minted
<1>4. \A p \in Nat : Spent(p)'
  BY <1>1 DEF Probed, Spent
<1>5. Unspent'
  <2> SUFFICES ASSUME status' = "healthy", HalfOpen(disk)' # {} PROVE Unspent'
    BY DEF Unspent
  <2>1. Unspent /\ status = "healthy" /\ HalfOpen(disk)' = HalfOpen(disk)
    BY <1>1, <1>2 DEF Probed, HalfOpen
  <2>2. \A s, t \in HalfOpen(disk) :
              disk.circuit[s].probe = disk.circuit[t].probe => s = t
    BY <2>1 DEF Unspent
  <2>3. \A s \in HalfOpen(disk) :
              disk.circuit[s].probe \notin disk.consumed => Uses(disk.circuit[s].probe) = {}
    BY <2>1 DEF Unspent
  <2>4. \A s \in HalfOpen(disk) :
              disk'.circuit[s].probe \notin disk'.consumed => Uses(disk.circuit[s].probe)' = {}
    BY <1>1, <1>2, <2>3
  <2> QED BY <1>2, <2>1, <2>2, <2>4 DEF Unspent
<1> QED BY <1>3, <1>4, <1>5 DEF Probed

(* A circuit that turns half-open gets a token nobody has; one that leaves *)
(* half-open frees its own token and no other's.                           *)
LEMMA TurningProbed == ASSUME Inv, Turning, Probed PROVE Probed'
<1>1. PICK s \in Scope : \E v \in Circuit : Turned(s, v)
  BY TurningTurns
<1>2. PICK v \in Circuit : Turned(s, v)
  BY <1>1
<1>3. /\ UNCHANGED <<rsv, lease, wire>> /\ minted \in Nat /\ minted' \in Nat
      /\ minted' >= minted
      /\ disk.circuit \in [Scope -> Circuit]
      /\ status' \in {status, "recovery_required"}
  BY <1>2 DEF Turned, Inv, TypeOK, Ledger
<1>4. \A p : Uses(p)' = Uses(p)
  BY <1>3 DEF Uses
<1>5. \A p \in Nat : Spent(p)'
  BY <1>4 DEF Probed, Spent
<1>6. IF v.state = "half_open" THEN v.probe \in 1..minted' /\ v.probe \notin 1..minted
                               ELSE v.probe = NoProbe
  BY <1>2, <1>3 DEF Turned
<1>7. Minted'
  <2>1. \A p \in 1..minted : p \in 1..minted'
    BY <1>3
  <2>2. \A a \in Attempt : rsv'[a].probes \subseteq 1..minted'
    BY <1>3, <2>1 DEF Probed, Minted
  <2>3. ASSUME NEW t \in Scope
        PROVE  IF disk'.circuit[t].state = "half_open"
               THEN disk'.circuit[t].probe \in 1..minted'
               ELSE disk'.circuit[t].probe = NoProbe
    BY <1>2, <1>3, <1>6, <2>1 DEF Probed, Minted, Turned, Swapped
  <2> QED BY <2>2, <2>3 DEF Minted
<1>8. Unspent'
  <2> SUFFICES ASSUME status' = "healthy" PROVE Unspent'
    BY DEF Unspent
  <2>1. /\ status = "healthy"
        /\ disk'.circuit = [disk.circuit EXCEPT ![s] = v]
        /\ disk'.consumed = disk.consumed \ {disk.circuit[s].probe}
    BY <1>2, <1>3 DEF Turned, Swapped
  <2>2. \A t \in HalfOpen(disk) : disk.circuit[t].probe \in 1..minted
    BY DEF Probed, Minted, HalfOpen
  <2>3. \A t, u \in HalfOpen(disk) : disk.circuit[t].probe = disk.circuit[u].probe => t = u
    BY <2>1 DEF Probed, Unspent
  <2>4. \A t \in HalfOpen(disk) :
           disk.circuit[t].probe \notin disk.consumed => Uses(disk.circuit[t].probe) = {}
    BY <2>1 DEF Probed, Unspent
  <2>5. ASSUME NEW t \in Scope, t # s, disk'.circuit[t].state = "half_open"
        PROVE  /\ t \in HalfOpen(disk) /\ disk'.circuit[t] = disk.circuit[t]
               /\ disk.circuit[t].probe # disk.circuit[s].probe
    <3>1. t \in HalfOpen(disk) /\ disk'.circuit[t] = disk.circuit[t]
      BY <1>3, <2>1, <2>5 DEF HalfOpen
    <3>2. CASE s \in HalfOpen(disk)
      BY <2>3, <2>5, <3>1, <3>2
    <3>3. CASE s \notin HalfOpen(disk)
      <4>1. disk.circuit[s].probe = NoProbe
        BY <3>3 DEF Probed, Minted, HalfOpen
      <4>2. NoProbe \notin 1..minted
        BY <1>3 DEF NoProbe
      <4> QED BY <2>2, <3>1, <4>1, <4>2
    <3> QED BY <3>1, <3>2, <3>3
  <2>6. disk'.circuit[s] = v
    BY <1>3, <2>1
  <2>7. ASSUME NEW t \in Scope, NEW u \in Scope, disk'.circuit[t].state = "half_open",
               disk'.circuit[u].state = "half_open",
               disk'.circuit[t].probe = disk'.circuit[u].probe, t # u
        PROVE  FALSE
    <3>1. CASE t # s /\ u # s
      BY <2>3, <2>5, <2>7, <3>1
    <3>2. CASE t = s
      BY <1>6, <2>2, <2>5, <2>6, <2>7, <3>2
    <3>3. CASE u = s
      BY <1>6, <2>2, <2>5, <2>6, <2>7, <3>3
    <3> QED BY <3>1, <3>2, <3>3
  <2>8. ASSUME NEW t \in Scope, disk'.circuit[t].state = "half_open",
               disk'.circuit[t].probe \notin disk'.consumed
        PROVE  Uses(disk'.circuit[t].probe) = {}
    <3>1. CASE t = s
      BY <1>6, <2>6, <2>8, <3>1 DEF Probed, Minted, Uses
    <3>2. CASE t # s
      BY <2>1, <2>4, <2>5, <2>8, <3>2
    <3> QED BY <3>1, <3>2
  <2>9. \A p : Uses(p) = {} => Uses(p)' = {}
    BY <1>4
  <2>10. \A t \in HalfOpen(disk)' : disk'.circuit[t].probe \notin disk'.consumed =>
             {a \in Attempt : /\ disk'.circuit[t].probe \in rsv'[a].probes
                              /\ (lease'[a] # "none" \/ wire'[a] # "unsent")} = {}
    BY <1>3, <2>8 DEF HalfOpen, Uses
  <2> QED BY <2>7, <2>10 DEF Unspent, HalfOpen, Uses
<1> QED BY <1>5, <1>7, <1>8 DEF Probed

(* A grant takes tokens that were nobody's, and consumes them.              *)
LEMMA ReserveProbed ==
    ASSUME Inv, Probed, NEW a \in Attempt, NEW r \in Request, NEW stale \in BOOLEAN,
           TryReserve(a, r, stale)
    PROVE  Probed'
<1>1. /\ UNCHANGED <<wire, minted>> /\ status = "healthy"
      /\ status' \in {status, "recovery_required"}
  BY ReserveBooks
<1>2. CASE Denied
  BY <1>1, <1>2 DEF Denied, Probed, Minted, Unspent, Spent, Uses, HalfOpen
<1>3. ASSUME NEW p \in Payload, Booked(a, p, r.gen) PROVE Probed'
  <2>1. /\ r.gen \in Gen /\ minted \in Nat /\ rsv \in [Attempt -> Payload]
        /\ lease \in [Attempt -> {"none", "held", "cleared"}]
    BY ConstantsAssumption DEF Inv, TypeOK
  <2>2. p.probes \subseteq {disk.circuit[s].probe : s \in HalfOpen(disk)}
    BY <1>3, <2>1 DEF Booked, ProbesOf, HalfOpen, Scope
  <2>3. /\ rsv' = [rsv EXCEPT ![a] = p] /\ disk'.circuit = disk.circuit
        /\ lease' = [lease EXCEPT ![a] = IF status' = "healthy" THEN "held" ELSE @]
        /\ p.probes \cap disk.consumed = {}
        /\ status' = "healthy" => disk'.consumed = disk.consumed \cup p.probes
    BY <1>3 DEF Booked
  <2>4. p.probes \subseteq 1..minted
    BY <2>2 DEF Probed, Minted, HalfOpen
  <2>5. \A q \in p.probes : Uses(q) = {}
    BY <1>1, <2>2, <2>3 DEF Probed, Unspent
  <2>6. \A q : q \notin p.probes => Uses(q)' \subseteq Uses(q)
    BY <1>1, <2>1, <2>3 DEF Uses
  <2>7. \A q : Uses(q)' \subseteq Uses(q) \cup {a}
    BY <1>1, <2>1, <2>3 DEF Uses
  <2>8. Minted'
    BY <1>1, <2>1, <2>3, <2>4 DEF Probed, Minted
  <2>9. ASSUME NEW q \in Nat PROVE Spent(q)'
    BY <2>5, <2>6, <2>7 DEF Probed, Spent
  <2>10. Unspent'
    <3> SUFFICES ASSUME status' = "healthy" PROVE Unspent'
      BY DEF Unspent
    <3>1. HalfOpen(disk)' = HalfOpen(disk) /\ disk'.consumed = disk.consumed \cup p.probes
      BY <2>3 DEF HalfOpen
    <3>2. \A s \in HalfOpen(disk) :
             disk.circuit[s].probe \notin disk.consumed => Uses(disk.circuit[s].probe) = {}
      BY <1>1 DEF Probed, Unspent
    <3>3. \A s \in HalfOpen(disk) :
             disk'.circuit[s].probe \notin disk'.consumed => Uses(disk.circuit[s].probe)' = {}
      BY <2>3, <2>6, <3>1, <3>2
    <3>4. \A s, t \in HalfOpen(disk) : disk.circuit[s].probe = disk.circuit[t].probe => s = t
      BY <1>1 DEF Probed, Unspent
    <3> QED BY <2>3, <3>1, <3>3, <3>4 DEF Unspent
  <2> QED BY <2>8, <2>9, <2>10 DEF Probed
<1> QED BY <1>2, <1>3, ReserveBooks

(* _consumed_circuit_probes: each probe token of a half-open circuit sends *)
(* at most one attempt, whatever crashes, checkpoints and swaps happen in  *)
(* between.                                                                *)
THEOREM ProbeSentOnce == Spec => []SingleProbe
<1>1. Init => Probed
  <2> SUFFICES ASSUME Init PROVE Probed
    OBVIOUS
  <2>1. /\ \A s \in Scope : disk.circuit[s] = Closed(0)
        /\ \A a \in Attempt : rsv[a].probes = {}
    BY DEF Init, Empty, Blank
  <2>2. HalfOpen(disk) = {} /\ \A s \in Scope : disk.circuit[s].probe = NoProbe
    BY <2>1 DEF HalfOpen, Closed
  <2>3. \A p : Uses(p) = {}
    BY <2>1 DEF Uses
  <2> QED BY <2>1, <2>2, <2>3 DEF Probed, Minted, Unspent, Spent, HalfOpen
<1>2. Inv /\ Probed /\ [Next]_vars => Probed'
  <2> SUFFICES ASSUME Inv, Probed, [Next]_vars PROVE Probed'
    OBVIOUS
  <2>1. CASE UNCHANGED vars
    BY <2>1 DEF vars, Probed, Minted, Unspent, Spent, Uses, HalfOpen
  <2> QED BY <2>1, StepKinds, CalmProbed, TurningProbed, ReserveProbed
<1>3. Inv /\ Probed => SingleProbe
  <2> SUFFICES ASSUME Inv, Probed, NEW p \in 1..minted
               PROVE  Cardinality({a \in Sent : p \in rsv[a].probes}) <= 1
    BY DEF SingleProbe
  <2> DEFINE S == {a \in Sent : p \in rsv[a].probes}
  <2>1. \A a, b \in S : a = b
    <3>1. p \in Nat
      BY DEF Inv, TypeOK
    <3> QED BY <3>1 DEF Probed, Spent, Uses, Sent
  <2>2. S = {} \/ \E x : S = {x}
    BY <2>1
  <2> HIDE DEF S
  <2>3. Cardinality(S) = 0 \/ Cardinality(S) = 1
    BY <2>2, FS_EmptySet, FS_Singleton
  <2> QED BY <2>3 DEF S
<1> QED BY <1>1, <1>2, <1>3, Invariance, PTL DEF Spec

-----------------------------------------------------------------------------
(* Sums over finite sets of attempts.  The community modules fold with a   *)
(* recursive function over subsets; its laws follow from the smallest      *)
(* subset that would break them.                                           *)

(* A nonempty set of subsets of a finite set has a smallest member.        *)
LEMMA Smallest ==
    ASSUME NEW S, IsFiniteSet(S), NEW B \in SUBSET (SUBSET S), B # {}
    PROVE  \E m \in B : \A t \in B : t \subseteq m => t = m
<1> DEFINE R == StrictSubsetOrdering(S)
           F == FiniteSubsetsOf(S)
<1>1. IsWellFoundedOn(R, F)
  BY FS_StrictSubsetOrderingWellFounded
<1>2. B \subseteq F
  BY FS_Subset DEF FiniteSubsetsOf
<1>3. \E m \in B : \A t \in B : ~(<<t, m>> \in R)
  <2> HIDE DEF R, F
  <2> QED BY <1>1, <1>2, WFMin
<1>4. PICK m \in B : \A t \in B : ~(<<t, m>> \in R)
  BY <1>3
<1>5. ASSUME NEW t \in B, t \subseteq m, t # m PROVE FALSE
  <2>1. <<t, m>> \in R
    BY <1>5 DEF StrictSubsetOrdering
  <2> HIDE DEF R
  <2> QED BY <1>4, <2>1
<1> QED BY <1>4, <1>5

(* The recursion behind MapThenSumSet.                                     *)
Choice(s) == CHOOSE x \in s : TRUE

SumStep(g, f, s) == IF s = {} THEN 0 ELSE g[Choice(s)] + f[s \ {Choice(s)}]

Sums(g, f, S) == f = [s \in SUBSET S |-> SumStep(g, f, s)]

Total(g, S) == (CHOOSE f : Sums(g, f, S))[S]

(* The member a sum takes out first.                                       *)
LEMMA ChoiceIn == ASSUME NEW s, s # {} PROVE Choice(s) \in s
  BY DEF Choice

(* Two such recursions agree where both are defined.                       *)
LEMMA SumsUnique ==
    ASSUME NEW g, NEW f, NEW h, NEW U, NEW V, IsFiniteSet(V),
           Sums(g, f, U), Sums(g, h, V), V \subseteq U
    PROVE  \A s \in SUBSET V : f[s] = h[s]
<1> DEFINE Bad == {s \in SUBSET V : f[s] # h[s]}
<1>1. CASE Bad = {}
  BY <1>1
<1>2. CASE Bad # {}
  <2>1. PICK m \in Bad : \A t \in Bad : t \subseteq m => t = m
    <3>1. Bad \in SUBSET (SUBSET V)
      OBVIOUS
    <3> HIDE DEF Bad
    <3> QED BY <1>2, <3>1, Smallest
  <2>2. /\ m \in SUBSET V /\ m \in SUBSET U /\ f[m] # h[m]
    BY <2>1
  <2>3. f[m] = SumStep(g, f, m) /\ h[m] = SumStep(g, h, m)
    BY <2>2 DEF Sums
  <2>4. m # {}
    BY <2>2, <2>3 DEF SumStep
  <2>5. Choice(m) \in m
    BY <2>4, ChoiceIn
  <2>6. m \ {Choice(m)} \notin Bad
    BY <2>1, <2>5
  <2>7. f[m \ {Choice(m)}] = h[m \ {Choice(m)}]
    BY <2>2, <2>6
  <2> QED BY <2>2, <2>3, <2>4, <2>7 DEF SumStep
<1> QED BY <1>1, <1>2

(* Every finite set has a sum.                                             *)
LEMMA SumsExist ==
    ASSUME NEW g, NEW S, IsFiniteSet(S)
    PROVE  \E f : Sums(g, f, S)
<1> DEFINE Bad == {s \in SUBSET S : ~ \E f : Sums(g, f, s)}
<1>1. CASE Bad = {}
  BY <1>1
<1>2. CASE Bad # {}
  <2>1. PICK T \in Bad : \A t \in Bad : t \subseteq T => t = T
    <3>1. Bad \in SUBSET (SUBSET S)
      OBVIOUS
    <3> HIDE DEF Bad
    <3> QED BY <1>2, <3>1, Smallest
  <2>2. T \subseteq S /\ ~ \E f : Sums(g, f, T)
    BY <2>1
  <2>3. ASSUME NEW u \in SUBSET T, u # T
        PROVE  /\ Sums(g, CHOOSE f : Sums(g, f, u), u) /\ IsFiniteSet(u)
    <3>1. u \in SUBSET S /\ u \notin Bad
      BY <2>1, <2>3
    <3> QED BY <3>1, FS_Subset
  <2> DEFINE F(u) == CHOOSE f : Sums(g, f, u)
             h == [s \in SUBSET T |-> IF s = {} THEN 0
                        ELSE g[Choice(s)] + F(s \ {Choice(s)})[s \ {Choice(s)}]]
  <2>4. ASSUME NEW u \in SUBSET T, u # T PROVE h[u] = F(u)[u]
    <3>1. Sums(g, F(u), u) /\ IsFiniteSet(u)
      BY <2>3, <2>4
    <3> HIDE DEF F
    <3>2. F(u)[u] = SumStep(g, F(u), u)
      BY <3>1 DEF Sums
    <3>3. CASE u = {}
      BY <3>2, <3>3 DEF SumStep
    <3>4. CASE u # {}
      <4> DEFINE w == u \ {Choice(u)}
      <4>1. Choice(u) \in u
        BY <3>4, ChoiceIn
      <4>2. w \in SUBSET T /\ w # T /\ w \subseteq u
        BY <4>1
      <4>3. Sums(g, F(w), w) /\ IsFiniteSet(w)
        BY <2>3, <4>2 DEF F
      <4>4. F(u)[w] = F(w)[w]
        BY <3>1, <4>2, <4>3, SumsUnique
      <4> QED BY <3>2, <3>4, <4>4 DEF SumStep
    <3> QED BY <3>3, <3>4
  <2>5. ASSUME NEW s \in SUBSET T PROVE h[s] = SumStep(g, h, s)
    <3>1. CASE s = {}
      BY <3>1 DEF SumStep
    <3>2. CASE s # {}
      <4> DEFINE w == s \ {Choice(s)}
      <4>1. Choice(s) \in s
        BY <3>2, ChoiceIn
      <4>2. w \in SUBSET T /\ w # T
        BY <4>1
      <4>3. h[w] = F(w)[w]
        BY <2>4, <4>2
      <4>4. h[s] = g[Choice(s)] + F(w)[w]
        BY <3>2
      <4> HIDE DEF h
      <4> QED BY <3>2, <4>3, <4>4 DEF SumStep
    <3> QED BY <3>1, <3>2
  <2>6. h = [s \in SUBSET T |-> h[s]]
    OBVIOUS
  <2> HIDE DEF h
  <2>7. Sums(g, h, T)
    BY <2>5, <2>6 DEF Sums
  <2> QED BY <2>2, <2>7
<1> QED BY <1>1, <1>2

(* Any function that satisfies the recursion gives the total.              *)
LEMMA SumsTotal ==
    ASSUME NEW g, NEW f, NEW S, IsFiniteSet(S), Sums(g, f, S)
    PROVE  f[S] = Total(g, S)
<1> DEFINE h == CHOOSE h : Sums(g, h, S)
<1>1. Sums(g, h, S)
  OBVIOUS
<1>2. Total(g, S) = h[S]
  BY DEF Total
<1> HIDE DEF h
<1> QED BY <1>1, <1>2, SumsUnique

(* Nothing sums to nothing.                                                *)
LEMMA TotalEmpty == ASSUME NEW g PROVE Total(g, {}) = 0
<1>1. PICK f : Sums(g, f, {})
  BY SumsExist, FS_EmptySet
<1>2. f[{}] = Total(g, {})
  BY <1>1, SumsTotal, FS_EmptySet
<1> QED BY <1>1, <1>2 DEF Sums, SumStep

(* One step of the recursion.                                              *)
LEMMA TotalStep ==
    ASSUME NEW g, NEW S, IsFiniteSet(S), S # {}
    PROVE  Total(g, S) = g[Choice(S)] + Total(g, S \ {Choice(S)})
<1> DEFINE w == S \ {Choice(S)}
<1>1. PICK f : Sums(g, f, S)
  BY SumsExist
<1>2. PICK h : Sums(g, h, w) /\ IsFiniteSet(w)
  <2>1. IsFiniteSet(w)
    BY FS_Subset
  <2> QED BY <2>1, SumsExist
<1>3. f[S] = Total(g, S)
  BY <1>1, SumsTotal
<1>4. h[w] = Total(g, w)
  BY <1>2, SumsTotal
<1>5. f[w] = h[w]
  BY <1>1, <1>2, SumsUnique
<1>6. f[S] = SumStep(g, f, S)
  BY <1>1 DEF Sums
<1> QED BY <1>3, <1>4, <1>5, <1>6 DEF SumStep

(* A sum of naturals is one.                                               *)
LEMMA TotalNat ==
    ASSUME NEW g, NEW S, IsFiniteSet(S), \A x \in S : g[x] \in Nat
    PROVE  Total(g, S) \in Nat
<1> DEFINE Bad == {s \in SUBSET S : Total(g, s) \notin Nat}
<1>1. CASE Bad = {}
  BY <1>1
<1>2. CASE Bad # {}
  <2>1. PICK T \in Bad : \A t \in Bad : t \subseteq T => t = T
    <3>1. Bad \in SUBSET (SUBSET S)
      OBVIOUS
    <3> HIDE DEF Bad
    <3> QED BY <1>2, <3>1, Smallest
  <2>2. T \subseteq S /\ Total(g, T) \notin Nat
    BY <2>1
  <2>3. T # {}
    BY <2>2, TotalEmpty
  <2>4. IsFiniteSet(T) /\ Choice(T) \in T
    BY <2>2, <2>3, ChoiceIn, FS_Subset
  <2>5. T \ {Choice(T)} \notin Bad
    BY <2>1, <2>4
  <2>6. Total(g, T \ {Choice(T)}) \in Nat /\ g[Choice(T)] \in Nat
    BY <2>2, <2>4, <2>5
  <2> QED BY <2>2, <2>3, <2>4, <2>6, TotalStep
<1> QED BY <1>1, <1>2

(* Any element may be split off.                                           *)
LEMMA TotalSplit ==
    ASSUME NEW g, NEW S, IsFiniteSet(S), \A x \in S : g[x] \in Nat, NEW a \in S
    PROVE  Total(g, S) = g[a] + Total(g, S \ {a})
<1> DEFINE Bad == {s \in SUBSET S : \E x \in s : Total(g, s) # g[x] + Total(g, s \ {x})}
<1>1. CASE Bad = {}
  BY <1>1
<1>2. CASE Bad # {}
  <2>1. PICK T \in Bad : \A t \in Bad : t \subseteq T => t = T
    <3>1. Bad \in SUBSET (SUBSET S)
      OBVIOUS
    <3> HIDE DEF Bad
    <3> QED BY <1>2, <3>1, Smallest
  <2>2. T \subseteq S
    BY <2>1
  <2>3. PICK x \in T : Total(g, T) # g[x] + Total(g, T \ {x})
    BY <2>1
  <2> DEFINE c == Choice(T)
  <2>4. IsFiniteSet(T) /\ c \in T
    BY <2>2, <2>3, ChoiceIn, FS_Subset
  <2>5. Total(g, T) = g[c] + Total(g, T \ {c})
    BY <2>3, <2>4, TotalStep
  <2> HIDE DEF c
  <2>6. x # c
    BY <2>3, <2>5
  <2>7. T \ {c} \notin Bad /\ T \ {x} \notin Bad
    BY <2>1, <2>4
  <2>8. Total(g, T \ {c}) = g[x] + Total(g, (T \ {c}) \ {x})
    BY <2>2, <2>6, <2>7
  <2>9. Total(g, T \ {x}) = g[c] + Total(g, (T \ {x}) \ {c})
    BY <2>2, <2>4, <2>6, <2>7
  <2>10. (T \ {x}) \ {c} = (T \ {c}) \ {x}
    OBVIOUS
  <2>11. g[x] \in Nat /\ g[c] \in Nat /\ Total(g, (T \ {c}) \ {x}) \in Nat
    <3>1. IsFiniteSet((T \ {c}) \ {x})
      BY <2>4, FS_Subset
    <3> QED BY <2>2, <2>4, <3>1, TotalNat
  <2>12. Total(g, T) = g[c] + (g[x] + Total(g, (T \ {c}) \ {x}))
    BY <2>5, <2>8
  <2>13. g[x] + Total(g, T \ {x}) = g[x] + (g[c] + Total(g, (T \ {c}) \ {x}))
    BY <2>9, <2>10
  <2>14. g[c] + (g[x] + Total(g, (T \ {c}) \ {x})) = g[x] + (g[c] + Total(g, (T \ {c}) \ {x}))
    BY <2>11
  <2> QED BY <2>3, <2>12, <2>13, <2>14
<1> QED BY <1>1, <1>2

(* Fewer and smaller summands make a smaller sum.                          *)
LEMMA TotalMono ==
    ASSUME NEW g, NEW h, NEW A, NEW B, IsFiniteSet(B), A \subseteq B,
           \A x \in A : g[x] \in Nat /\ g[x] <= h[x], \A x \in B : h[x] \in Nat
    PROVE  Total(g, A) <= Total(h, B)
<1> DEFINE Bad == {s \in SUBSET A : \E t \in SUBSET B : s \subseteq t /\ ~(Total(g, s) <= Total(h, t))}
<1>0. IsFiniteSet(A)
  BY FS_Subset
<1>1. CASE Bad = {}
  <2>1. A \notin Bad
    BY <1>1
  <2> QED BY <2>1
<1>2. CASE Bad # {}
  <2>1. PICK T \in Bad : \A t \in Bad : t \subseteq T => t = T
    <3>1. Bad \in SUBSET (SUBSET A)
      OBVIOUS
    <3> HIDE DEF Bad
    <3> QED BY <1>0, <1>2, <3>1, Smallest
  <2>2. T \subseteq A
    BY <2>1
  <2>3. PICK V \in SUBSET B : T \subseteq V /\ ~(Total(g, T) <= Total(h, V))
    BY <2>1
  <2>4. IsFiniteSet(T) /\ IsFiniteSet(V)
    BY <1>0, <2>2, FS_Subset
  <2>5. T # {}
    <3> SUFFICES ASSUME T = {} PROVE FALSE
      OBVIOUS
    <3>1. Total(g, T) = 0
      BY TotalEmpty
    <3>2. Total(h, V) \in Nat
      BY <2>4, TotalNat
    <3> QED BY <2>3, <3>1, <3>2
  <2>6. PICK x \in T : TRUE
    BY <2>5
  <2>7. T \ {x} \notin Bad
    BY <2>1
  <2>8. Total(g, T \ {x}) <= Total(h, V \ {x})
    BY <2>2, <2>3, <2>7
  <2>9. Total(g, T) = g[x] + Total(g, T \ {x})
    BY <2>2, <2>4, TotalSplit
  <2>10. Total(h, V) = h[x] + Total(h, V \ {x})
    BY <2>3, <2>4, TotalSplit
  <2>11. /\ IsFiniteSet(T \ {x}) /\ IsFiniteSet(V \ {x})
    BY <2>4, FS_Subset
  <2>12. /\ g[x] \in Nat /\ h[x] \in Nat /\ g[x] <= h[x]
    BY <2>2, <2>3
  <2>13. Total(g, T \ {x}) \in Nat
    BY <2>2, <2>11, TotalNat
  <2>14. Total(h, V \ {x}) \in Nat
    BY <2>11, TotalNat
  <2>15. g[x] + Total(g, T \ {x}) <= h[x] + Total(h, V \ {x})
    BY <2>8, <2>12, <2>13, <2>14
  <2> QED BY <2>3, <2>9, <2>10, <2>15
<1> QED BY <1>1, <1>2

(* An added summand.                                                       *)
LEMMA TotalAdd ==
    ASSUME NEW g, NEW S, IsFiniteSet(S), NEW a, a \notin S,
           \A x \in S \cup {a} : g[x] \in Nat
    PROVE  Total(g, S \cup {a}) = g[a] + Total(g, S)
<1>1. IsFiniteSet(S \cup {a})
  BY FS_AddElement
<1>2. (S \cup {a}) \ {a} = S
  OBVIOUS
<1>3. Total(g, S \cup {a}) = g[a] + Total(g, (S \cup {a}) \ {a})
  BY <1>1, TotalSplit
<1> QED BY <1>2, <1>3

(* The sums of the model are such totals.                                  *)
LEMMA TokensTotal ==
    ASSUME NEW S \in SUBSET Attempt, NEW q
    PROVE  MapThenSumSet(LAMBDA a : q[a].tokens, S) = Total([a \in Attempt |-> q[a].tokens], S)
<1> DEFINE g == [a \in Attempt |-> q[a].tokens]
           Iter(f) == f = [s \in SUBSET S |->
                        IF s = {} THEN 0
                        ELSE q[CHOOSE x \in s : TRUE].tokens + f[s \ {CHOOSE x \in s : TRUE}]]
<1>1. IsFiniteSet(S)
  BY ConstantsAssumption, FS_Subset
<1>2. ASSUME NEW f PROVE Iter(f) <=> Sums(g, f, S)
  <2>1. ASSUME NEW s \in SUBSET S
        PROVE  SumStep(g, f, s) =
                 IF s = {} THEN 0
                 ELSE q[CHOOSE x \in s : TRUE].tokens + f[s \ {CHOOSE x \in s : TRUE}]
    <3>1. CASE s = {}
      BY <3>1 DEF SumStep
    <3>2. CASE s # {}
      <4>1. Choice(s) \in Attempt
        BY <3>2, ChoiceIn
      <4>2. g[Choice(s)] = q[Choice(s)].tokens
        BY <4>1
      <4> HIDE DEF g
      <4> QED BY <3>2, <4>2 DEF SumStep, Choice
    <3> QED BY <3>1, <3>2
  <2> HIDE DEF g
  <2> QED BY <2>1 DEF Sums
<1>3. MapThenSumSet(LAMBDA a : q[a].tokens, S) = (CHOOSE f : Iter(f))[S]
  BY DEF MapThenSumSet, MapThenFoldSet
<1>4. \E f : Iter(f)
  <2>1. PICK f : Sums(g, f, S)
    BY <1>1, SumsExist
  <2>2. Iter(f)
    BY <1>2, <2>1
  <2> HIDE DEF Iter
  <2> QED BY <2>2
<1> DEFINE h == CHOOSE f : Iter(f)
<1>5. Iter(h)
  BY <1>4
<1> HIDE DEF h, Iter, g
<1>6. Sums(g, h, S)
  BY <1>2, <1>5
<1>7. h[S] = Total(g, S)
  BY <1>1, <1>6, SumsTotal
<1> QED BY <1>3, <1>7 DEF g, h

-----------------------------------------------------------------------------
(* Rate windows.  Every sender that some window may still count is counted *)
(* in the live ledger and in the one a restart would rebuild (Tracked).    *)

(* The attempts that may send or have sent, and those turned away.         *)
Senders == {a \in Attempt : lease[a] # "none" \/ wire[a] # "unsent"}
Refused == {a \in Attempt : wire[a] = "refused"}

(* A ledger counts attempt a, whose payload is q[a], in its windows.       *)
Counts(L, a, q, R) ==
    /\ a \in L.counted /\ a \in L.starts
    /\ a \notin R => L.tokens[a] = q[a].tokens

(* It counts every sender that some window may still hold.                 *)
Remembers(L, S, q, R) ==
    \A a \in S : Counts(L, a, q, R) \/ q[a].at <= L.hw - KeepWindow

(* Both ledgers remember the senders, and a sender was reserved.           *)
Tracked ==
    /\ Remembers(disk, Senders, rsv, Refused)
    /\ Up => Remembers(mem, Senders, rsv, Refused)
    /\ \A a \in Senders : rsv[a].at # NoTime

(* Operations that leave the windows alone.                                *)
Recalls(M, L) ==
    /\ M.counted = L.counted /\ M.starts = L.starts /\ M.tokens = L.tokens
    /\ L.hw \in Int /\ M.hw \in Int /\ M.hw >= L.hw

(* They keep what a ledger remembers, and time only helps.                 *)
LEMMA RecallsRemembers ==
    ASSUME NEW L, NEW M, NEW S \in SUBSET Attempt, NEW q \in [Attempt -> Payload], NEW R,
           Recalls(M, L), Remembers(L, S, q, R)
    PROVE  Remembers(M, S, q, R)
<1> SUFFICES ASSUME NEW a \in S PROVE Counts(M, a, q, R) \/ q[a].at <= M.hw - KeepWindow
  BY DEF Remembers
<1>1. CASE Counts(L, a, q, R)
  BY <1>1 DEF Counts, Recalls
<1>2. CASE q[a].at <= L.hw - KeepWindow
  <2>1. /\ q[a].at \in Int /\ L.hw \in Int /\ M.hw \in Int /\ KeepWindow \in Nat
        /\ M.hw >= L.hw
    BY ConstantsAssumption DEF Payload, Recalls
  <2> QED BY <1>2, <2>1
<1> QED BY <1>1, <1>2 DEF Remembers

(* A sender less, or one more that was refused, is no burden.              *)
LEMMA RemembersFewer ==
    ASSUME NEW L, NEW S, NEW T, NEW q, NEW R, NEW Q,
           Remembers(L, S, q, R), T \subseteq S, R \subseteq Q
    PROVE  Remembers(L, T, q, Q)
  BY DEF Remembers, Counts

(* Doing nothing is one of them.                                           *)
LEMMA RecallsSelf == ASSUME NEW L, Sound(L) PROVE Recalls(L, L)
<1>1. L.hw \in Int
  BY DEF Sound, Ledger
<1> QED BY <1>1 DEF Recalls

(* So is doing two of them.                                                *)
LEMMA RecallsTrans ==
    ASSUME NEW L, NEW M, NEW N, Recalls(N, M), Recalls(M, L)
    PROVE  Recalls(N, L)
  BY DEF Recalls

(* _now_ms: only the high-water moves.                                     *)
LEMMA TouchRecalls ==
    ASSUME NEW L, Sound(L), clock \in Nat
    PROVE  Recalls(Touch(L), L) /\ Touch(L).hw = Now(L)
<1>1. L.hw \in Int /\ Now(L) \in Int /\ Now(L) >= L.hw
  BY DEF Sound, Ledger, Now, Larger
<1>2. /\ Touch(L).counted = L.counted /\ Touch(L).starts = L.starts
      /\ Touch(L).tokens = L.tokens /\ Touch(L).hw = Now(L)
  BY DEF Touch, Sound, Ledger
<1> QED BY <1>1, <1>2 DEF Recalls

(* _prune_resolutions touches no start.                                    *)
LEMMA PruneRecalls ==
    ASSUME NEW L, Sound(L), NEW now
    PROVE  Recalls(PruneResolutions(L, now), L) /\ PruneResolutions(L, now).hw = L.hw
<1>1. /\ PruneResolutions(L, now).counted = L.counted /\ PruneResolutions(L, now).starts = L.starts
      /\ PruneResolutions(L, now).tokens = L.tokens /\ PruneResolutions(L, now).hw = L.hw
  BY DEF PruneResolutions, Sound, Ledger
<1>2. L.hw \in Int
  BY DEF Sound, Ledger
<1> QED BY <1>1, <1>2 DEF Recalls

(* _roll_monthly touches no start.                                         *)
LEMMA RollRecalls ==
    ASSUME NEW L, Sound(L), NEW now
    PROVE  Recalls(RollMonthly(L, now), L) /\ RollMonthly(L, now).hw = L.hw
<1> DEFINE M == RollMonthly(L, now)
<1>1. /\ M.counted = L.counted /\ M.starts = L.starts /\ M.tokens = L.tokens /\ M.hw = L.hw
  <2>1. M = L \/ M = [L EXCEPT !.used = 0, !.reset = 0]
    BY DEF RollMonthly
  <2> QED BY <2>1 DEF Sound, Ledger
<1>2. L.hw \in Int
  BY DEF Sound, Ledger
<1> HIDE DEF M
<1>3. Recalls(M, L) /\ M.hw = L.hw
  BY <1>1, <1>2 DEF Recalls
<1> QED BY <1>3 DEF M

(* update_account touches no start.                                        *)
LEMMA UpdateRecalls ==
    ASSUME NEW L, Sound(L), NEW c \in Config, clock \in Nat
    PROVE  Recalls(UpdateAccount(L, c), L)
<1> DEFINE R == RollMonthly(Touch(L), Now(L))
           t == IF R.reset = 0 \/ NextMonthlyReset(c, Now(L)) > R.reset
                THEN NextMonthlyReset(c, Now(L)) ELSE R.reset
<1>1. Sound(Touch(L)) /\ Agree(Touch(L), L) /\ Now(L) \in Nat
  BY TouchKeeps, AgreeSelf
<1>2. Sound(R)
  BY <1>1, RollKeeps
<1>3. Recalls(R, L)
  BY <1>1, <1>2, TouchRecalls, RollRecalls, RecallsTrans
<1>4. UpdateAccount(L, c) = [R EXCEPT !.reset = t]
  BY DEF UpdateAccount
<1> HIDE DEF R, t
<1> QED BY <1>2, <1>3, <1>4 DEF Recalls, Sound, Ledger

(* A restart forgets no start, and its clock is not behind the journal.    *)
LEMMA RebuiltRecalls ==
    ASSUME Sound(disk), cfg \in Config, clock \in Nat
    PROVE  Recalls(Rebuilt, disk)
<1> DEFINE h == IF disk.hw = NoTime THEN clock ELSE disk.hw
           t == IF disk.reset = NoTime THEN NextMonthlyReset(cfg, clock) ELSE disk.reset
           D == [disk EXCEPT !.hw = h, !.reset = t]
<1>1. h \in Int /\ t \in Int /\ h >= disk.hw
  BY ConstantsAssumption DEF Sound, Ledger, NextMonthlyReset, AccountConfig, NoTime
<1>2. Rebuilt = UpdateAccount(D, cfg)
  BY DEF Rebuilt, Sound, Ledger
<1> HIDE DEF h, t
<1>3. Sound(D)
  <2>1. D \in Ledger
    BY <1>1 DEF Sound, Ledger
  <2> QED BY <2>1 DEF Sound, Held, Ledger
<1>4. Recalls(D, disk)
  BY <1>1 DEF Recalls, Sound, Ledger
<1>5. Recalls(UpdateAccount(D, cfg), D)
  BY <1>3, UpdateRecalls
<1>6. Sound(UpdateAccount(D, cfg))
  BY <1>3, UpdateKeeps, AgreeSelf
<1> HIDE DEF D
<1> QED BY <1>2, <1>3, <1>4, <1>5, <1>6, RecallsTrans

(* mark_dispatched, live and replayed.                                     *)
LEMMA DispatchedRecalls ==
    ASSUME NEW L, Sound(L), NEW a
    PROVE  Recalls(LiveDispatched(L, a), L) /\ Recalls(ReplayDispatched(L, a), L)
<1>1. L.hw \in Int
  BY DEF Sound, Ledger
<1>2. Recalls([L EXCEPT !.dispatched = @ \cup {a}], L) /\ Recalls(Broken(L), L)
  BY <1>1 DEF Recalls, Broken, Sound, Ledger
<1> QED BY <1>2 DEF LiveDispatched, ReplayDispatched

(* A recovered attempt becomes uncertain.                                  *)
LEMMA UncertainRecalls ==
    ASSUME NEW L, Sound(L), NEW a
    PROVE  Recalls(ReplayUncertain(L, a), L)
<1>1. L.hw \in Int
  BY DEF Sound, Ledger
<1>2. Recalls([L EXCEPT !.active = @ \ {a}, !.uncertain = @ \cup {a}], L)
  BY <1>1 DEF Recalls, Sound, Ledger
<1> QED BY <1>2, RecallsSelf DEF ReplayUncertain

(* A count, and both ends of a recovery probe.                             *)
LEMMA ObservedRecalls ==
    ASSUME NEW L, Sound(L), NEW n \in Nat, NEW available \in BOOLEAN
    PROVE  /\ Recalls(ApplyCount(L, n), L) /\ Recalls(ProbeFinished(L, available), L)
           /\ Recalls(LiveProbeStarted(L), L)
<1>0. L.hw \in Int
  BY DEF Sound, Ledger
<1>1. ASSUME NEW A PROVE /\ Release(L, A) \in Ledger /\ Release(L, A).counted = L.counted
                         /\ Release(L, A).starts = L.starts /\ Release(L, A).tokens = L.tokens
                         /\ Release(L, A).hw = L.hw
  BY DEF Release, Sound, Ledger
<1>2. ASSUME NEW A, NEW h, NEW q
      PROVE  /\ Recalls([Release(L, A) EXCEPT !.holds = h, !.probing = q], L)
             /\ Recalls([Release(L, A) EXCEPT !.holds = h], L)
  BY <1>0, <1>1 DEF Ledger, Recalls
<1>3. Recalls(Broken(L), L) /\ Recalls(LiveProbeStarted(L), L)
  BY <1>0 DEF Broken, LiveProbeStarted, Recalls, Sound, Ledger
<1>4. ApplyCount(L, n) = Broken(L) \/ \E A, h : ApplyCount(L, n) = [Release(L, A) EXCEPT !.holds = h]
  BY DEF ApplyCount
<1>5. \E A, h : ProbeFinished(L, available) = [Release(L, A) EXCEPT !.holds = h, !.probing = "no"]
  BY DEF ProbeFinished
<1>6. Recalls(ApplyCount(L, n), L)
  <2>1. CASE ApplyCount(L, n) = Broken(L)
    BY <1>3, <2>1
  <2>2. CASE ApplyCount(L, n) # Broken(L)
    <3>1. PICK A, h : ApplyCount(L, n) = [Release(L, A) EXCEPT !.holds = h]
      BY <1>4, <2>2
    <3>2. Recalls([Release(L, A) EXCEPT !.holds = h], L)
      BY <1>2
    <3> QED BY <3>1, <3>2, Zenon
  <2> QED BY <2>1, <2>2
<1>7. Recalls(ProbeFinished(L, available), L)
  <2>1. PICK A, h : ProbeFinished(L, available) = [Release(L, A) EXCEPT !.holds = h, !.probing = "no"]
    BY <1>5
  <2>2. Recalls([Release(L, A) EXCEPT !.holds = h, !.probing = "no"], L)
    BY <1>2
  <2> QED BY <2>1, <2>2, Zenon
<1> QED BY <1>3, <1>6, <1>7

(* compare_and_swap_circuit.                                               *)
LEMMA CircuitRecalls ==
    ASSUME NEW L, Sound(L), NEW s, NEW v
    PROVE  Recalls(SetCircuit(L, s, v), L)
<1>1. L.hw \in Int
  BY DEF Sound, Ledger
<1> QED BY <1>1 DEF SetCircuit, Recalls, Sound, Ledger

(* _purge_windows forgets a start only when no window can count it.        *)
LEMMA PurgeRemembers ==
    ASSUME NEW L, NEW S \in SUBSET Attempt, NEW R, Sound(L), rsv \in [Attempt -> Payload],
           Remembers(L, S, rsv, R)
    PROVE  Remembers(PurgeWindows(L, L.hw), S, rsv, R) /\ PurgeWindows(L, L.hw).hw = L.hw
<1> DEFINE M == PurgeWindows(L, L.hw)
           kept == {a \in L.starts : rsv[a].at > L.hw - KeepWindow} \cup (L.starts \cap Held(L))
<1>1. /\ M.starts = kept /\ M.counted = L.counted \cap kept /\ M.tokens = L.tokens
      /\ M.hw = L.hw
  BY DEF PurgeWindows, Sound, Ledger
<1>2. ASSUME NEW a \in S PROVE Counts(M, a, rsv, R) \/ rsv[a].at <= M.hw - KeepWindow
  <2>1. rsv[a].at \in Int /\ L.hw \in Int /\ KeepWindow \in Nat
    BY ConstantsAssumption DEF Sound, Ledger, Payload
  <2>2. CASE rsv[a].at <= L.hw - KeepWindow
    BY <1>1, <2>2
  <2>3. CASE ~(rsv[a].at <= L.hw - KeepWindow)
    <3>1. Counts(L, a, rsv, R)
      BY <2>3 DEF Remembers
    <3>2. rsv[a].at > L.hw - KeepWindow
      BY <2>1, <2>3
    <3>3. a \in kept
      BY <3>1, <3>2 DEF Counts
    <3> HIDE DEF M, kept
    <3> QED BY <1>1, <3>1, <3>3 DEF Counts
  <2> QED BY <2>2, <2>3
<1> HIDE DEF M
<1>3. Remembers(M, S, rsv, R) /\ M.hw = L.hw
  BY <1>1, <1>2 DEF Remembers
<1> QED BY <1>3 DEF M

(* _finish: only what was never sent leaves the RPM window, and only that  *)
(* and what was refused gives its tokens back.                             *)
Refundable(a, k, S, R) == (k = "unsent" => a \notin S) /\ (k = "refused" => a \in R)

(* Whatever happens to the quota and the resolution along with it.         *)
LEMMA SettleRemembers ==
    ASSUME NEW L, NEW S \in SUBSET Attempt, NEW q, NEW R, Sound(L), NEW a \in Attempt,
           NEW k \in Resolution, Refundable(a, k, S, R), Remembers(L, S, q, R),
           NEW w, NEW at
    PROVE  Remembers([Settle(L, a, k) EXCEPT !.used = w, !.resolved[a] = at], S, q, R)
<1> DEFINE N == Settle(L, a, k)
           M == [N EXCEPT !.used = w, !.resolved[a] = at]
<1>1. /\ N.starts = L.starts /\ N.hw = L.hw
      /\ N.counted = IF k = "unsent" THEN L.counted \ {a} ELSE L.counted
      /\ N.tokens = [L.tokens EXCEPT ![a] = IF k \in {"unsent", "refused"} THEN 0 ELSE @]
  BY DEF Settle, StartRefunded, ChargeRefunded, Sound, Ledger
<1>2. /\ M.starts = N.starts /\ M.hw = N.hw /\ M.counted = N.counted /\ M.tokens = N.tokens
  BY DEF Settle, Sound, Ledger
<1>3. L.tokens \in [Attempt -> Nat]
  BY DEF Sound, Ledger
<1> HIDE DEF M, N
<1>4. ASSUME NEW b \in S, Counts(L, b, q, R) PROVE Counts(M, b, q, R)
  <2>1. CASE b # a
    BY <1>1, <1>2, <1>3, <1>4, <2>1 DEF Counts
  <2>2. CASE b = a
    <3>1. k # "unsent" /\ (k = "refused" => a \in R)
      BY <2>2 DEF Refundable
    <3> QED BY <1>1, <1>2, <1>3, <1>4, <2>2, <3>1 DEF Counts
  <2> QED BY <2>1, <2>2
<1>5. Remembers(M, S, q, R)
  BY <1>1, <1>2, <1>4 DEF Remembers
<1> QED BY <1>5 DEF M, N

(* The same for the live resolution and for its replay.                    *)
LEMMA ResolvedRemembers ==
    ASSUME NEW L, NEW S \in SUBSET Attempt, NEW q, NEW R, Sound(L), NEW a \in Attempt,
           NEW k \in Resolution, Refundable(a, k, S, R), Remembers(L, S, q, R), NEW at
    PROVE  /\ Remembers(LiveResolved(L, a, k, at), S, q, R)
           /\ Remembers(ReplayResolved(L, a, k, at), S, q, R)
<1>1. \A w : Remembers([Settle(L, a, k) EXCEPT !.used = w, !.resolved[a] = at], S, q, R)
  BY SettleRemembers
<1>2. \E w : LiveResolved(L, a, k, at) = [Settle(L, a, k) EXCEPT !.used = w, !.resolved[a] = at]
  BY DEF LiveResolved
<1>3. \/ ReplayResolved(L, a, k, at) = L
      \/ ReplayResolved(L, a, k, at) = Broken(L)
      \/ \E w : ReplayResolved(L, a, k, at) = [Settle(L, a, k) EXCEPT !.used = w, !.resolved[a] = at]
  BY DEF ReplayResolved
<1>4. Remembers(Broken(L), S, q, R)
  <2>1. /\ Broken(L).starts = L.starts /\ Broken(L).counted = L.counted
        /\ Broken(L).tokens = L.tokens /\ Broken(L).hw = L.hw
    BY DEF Broken, Sound, Ledger
  <2> QED BY <2>1 DEF Remembers, Counts
<1> QED BY <1>1, <1>2, <1>3, <1>4

(* Only a grant adds a sender, and a refusal is never taken back.          *)
Fewer == Senders' \subseteq Senders /\ Refused \subseteq Refused' /\ rsv' = rsv

(* With fewer senders the ledgers still remember all of them.              *)
LEMMA FewerKeeps ==
    ASSUME Tracked, Fewer
    PROVE  /\ Remembers(disk, Senders', rsv, Refused')
           /\ Up => Remembers(mem, Senders', rsv, Refused')
           /\ \A a \in Senders' : rsv'[a].at # NoTime
  BY RemembersFewer DEF Tracked, Fewer

(* A step is safe when every ledger it may leave behind remembers.         *)
LEMMA TrackedFrom ==
    ASSUME Tracked, Fewer, NEW before, NEW live, NEW replayed,
           mem' \in {before, live}, disk' \in {disk, live, replayed},
           Remembers(before, Senders', rsv, Refused'), Remembers(live, Senders', rsv, Refused'),
           Remembers(replayed, Senders', rsv, Refused')
    PROVE  Tracked'
<1>1. /\ Remembers(disk, Senders', rsv, Refused') /\ rsv' = rsv
      /\ \A a \in Senders' : rsv'[a].at # NoTime
  BY FewerKeeps DEF Fewer
<1>2. Remembers(disk', Senders', rsv', Refused') /\ Remembers(mem', Senders', rsv', Refused')
  BY <1>1
<1> QED BY <1>1, <1>2 DEF Tracked

(* Steps that leave the windows alone.                                     *)
LEMMA RecalledStep ==
    ASSUME Inv, Tracked, Fewer, Up, NEW before, NEW live, NEW replayed,
           mem' \in {before, live}, disk' \in {disk, live, replayed},
           Recalls(before, mem), Recalls(live, mem), Recalls(replayed, disk)
    PROVE  Tracked'
<1>1. /\ Remembers(disk, Senders', rsv, Refused') /\ Remembers(mem, Senders', rsv, Refused')
  BY FewerKeeps
<1>2. Senders' \in SUBSET Attempt /\ rsv \in [Attempt -> Payload]
  BY DEF Senders, Inv, TypeOK
<1>3. /\ Remembers(before, Senders', rsv, Refused') /\ Remembers(live, Senders', rsv, Refused')
      /\ Remembers(replayed, Senders', rsv, Refused')
  BY <1>1, <1>2, RecallsRemembers
<1> QED BY <1>3, TrackedFrom

(* A step that leaves the disk alone, and the live ledger unless it dies.  *)
LEMMA IdleStep ==
    ASSUME Inv, Tracked, Fewer, disk' = disk, status' = "down" \/ (mem' = mem /\ status' = status)
    PROVE  Tracked'
<1>1. /\ Remembers(disk, Senders', rsv, Refused')
      /\ Up => Remembers(mem, Senders', rsv, Refused')
      /\ \A a \in Senders' : rsv'[a].at # NoTime
  BY FewerKeeps
<1> QED BY <1>1 DEF Tracked, Fewer, Up

(* What Commit may leave behind.                                           *)
LEMMA CommitEnds ==
    ASSUME NEW before, NEW live, NEW replayed, Commit(before, live, replayed)
    PROVE  mem' \in {before, live} /\ disk' \in {disk, live, replayed}
  BY DEF Commit, Checkpointed, AppendFails

(* No step but a grant adds a sender.                                      *)
LEMMA CalmFewer ==
    ASSUME Inv, Calm
    PROVE  Fewer
<1>0. lease \in [Attempt -> {"none", "held", "cleared"}]
      /\ wire \in [Attempt -> {"unsent", "running", "ended", "refused"}]
  BY DEF Inv, TypeOK
<1>1. ASSUME NEW a \in Attempt, MarkDispatched(a) PROVE Fewer
  <2>1. \A b \in Attempt : lease'[b] # "none" => lease[b] # "none"
    BY <1>0, <1>1 DEF MarkDispatched
  <2>2. UNCHANGED <<rsv, wire>>
    BY <1>1 DEF MarkDispatched
  <2> QED BY <2>1, <2>2 DEF Fewer, Senders, Refused
<1>2. ASSUME NEW a \in Attempt, Send(a) PROVE Fewer
  BY <1>0, <1>2 DEF Send, Fewer, Senders, Refused
<1>3. ASSUME NEW a \in Attempt, NEW how, ProviderEnds(a, how) PROVE Fewer
  BY <1>0, <1>3 DEF ProviderEnds, Fewer, Senders, Refused
<1>4. ASSUME NEW a \in Attempt, NEW k, Finish(a, k) PROVE Fewer
  <2>1. \A b \in Attempt : lease'[b] # "none" => lease[b] # "none"
    BY <1>0, <1>4 DEF Finish
  <2>2. UNCHANGED <<rsv, wire>>
    BY <1>4 DEF Finish
  <2> QED BY <2>1, <2>2 DEF Fewer, Senders, Refused
<1>5. ASSUME UNCHANGED <<rsv, lease, wire>> PROVE Fewer
  BY <1>5 DEF Fewer, Senders, Refused
<1>6. CASE \/ Capacity \/ AuthoritativeCount \/ BeginRecoveryProbe \/ RecoverProbe \/ TakeCheckpoint
           \/ \E available \in BOOLEAN : FinishRecoveryProbe(available)
           \/ \E c \in Config : Publish(c)
           \/ \E t \in 1..MaxClock : ClockStep(t)
           \/ \E a \in Attempt : RecoverAttempt(a)
  BY <1>5, <1>6 DEF Capacity, AuthoritativeCount, BeginRecoveryProbe, RecoverProbe, TakeCheckpoint,
               FinishRecoveryProbe, Publish, ClockStep, RecoverAttempt
<1>7. CASE Crash
  BY <1>7 DEF Crash, Fewer, Senders, Refused
<1>8. CASE Boot \/ Recovered
  BY <1>5, <1>8 DEF Boot, Recovered
<1> QED BY <1>1, <1>2, <1>3, <1>4, <1>6, <1>7, <1>8 DEF Calm

(* Reading the capacity purges what no window can count.                   *)
LEMMA FreshRemembers ==
    ASSUME NEW L, NEW S \in SUBSET Attempt, NEW R, Sound(L), rsv \in [Attempt -> Payload],
           Remembers(L, S, rsv, R), L.hw \in Nat
    PROVE  /\ Remembers(RollMonthly(PurgeWindows(L, L.hw), L.hw), S, rsv, R)
           /\ RollMonthly(PurgeWindows(L, L.hw), L.hw).hw = L.hw
<1> DEFINE P == PurgeWindows(L, L.hw)
<1>1. Remembers(P, S, rsv, R) /\ P.hw = L.hw
  BY PurgeRemembers
<1>2. Sound(P)
  <2>1. Agree(L, L) /\ L.hw \in Int
    BY AgreeSelf
  <2> QED BY <2>1, PurgeKeeps
<1> HIDE DEF P
<1>3. Recalls(RollMonthly(P, L.hw), P) /\ RollMonthly(P, L.hw).hw = P.hw
  BY <1>2, RollRecalls
<1>4. Remembers(RollMonthly(P, L.hw), S, rsv, R)
  BY <1>1, <1>3, RecallsRemembers
<1> QED BY <1>1, <1>3, <1>4 DEF P

(* Each step other than a grant and a circuit transition.                  *)
LEMMA CalmTracked == ASSUME Inv, Calm, Tracked PROVE Tracked'
<1>0. Fewer
  BY CalmFewer
<1>00. ASSUME Up PROVE /\ Sound(mem) /\ Sound(disk) /\ clock \in Nat /\ Agree(mem, disk)
                       /\ Recalls(mem, mem) /\ Recalls(disk, disk) /\ Recalls(Touch(mem), mem)
                       /\ Sound(Touch(mem)) /\ Now(mem) \in Nat /\ Touch(mem).hw = Now(mem)
  BY <1>00, UpFacts, RecallsSelf, TouchRecalls, TouchKeeps
<1>1. ASSUME NEW a \in Attempt, MarkDispatched(a) PROVE Tracked'
  <2> DEFINE m == Touch(mem)
             live == LiveDispatched(m, a)
             replayed == ReplayDispatched(disk, a)
  <2>1. Up
    BY <1>1 DEF MarkDispatched, Serving, Up
  <2>2. Recalls(m, mem) /\ Recalls(live, m) /\ Recalls(replayed, disk)
    BY <1>00, <2>1, DispatchedRecalls
  <2>3. Recalls(live, mem)
    BY <2>2, RecallsTrans
  <2>4. mem' \in {m, live} /\ disk' \in {disk, live, replayed}
    BY <1>1, CommitEnds DEF MarkDispatched
  <2> HIDE DEF m, live, replayed
  <2> QED BY <1>0, <2>1, <2>2, <2>3, <2>4, RecalledStep
<1>2. ASSUME NEW a \in Attempt, RecoverAttempt(a) PROVE Tracked'
  <2>1. Up
    BY <1>2 DEF RecoverAttempt, Up
  <2>2. Recalls(ReplayUncertain(mem, a), mem) /\ Recalls(ReplayUncertain(disk, a), disk)
    BY <1>00, <2>1, UncertainRecalls
  <2>3. /\ mem' \in {mem, ReplayUncertain(mem, a)}
        /\ disk' \in {disk, ReplayUncertain(mem, a), ReplayUncertain(disk, a)}
    BY <1>2 DEF RecoverAttempt, AppendFails
  <2> QED BY <1>0, <1>00, <2>1, <2>2, <2>3, RecalledStep
<1>3. ASSUME NEW a \in Attempt, NEW k \in Resolution, Finish(a, k) PROVE Tracked'
  <2> DEFINE m == Touch(mem)
             now == Now(mem)
             live == LiveResolved(m, a, k, now)
             replayed == ReplayResolved(disk, a, k, now)
  <2>1. Up
    BY <1>3 DEF Finish, Serving, Up
  <2>2. Senders' \in SUBSET Attempt /\ rsv \in [Attempt -> Payload]
    BY DEF Senders, Inv, TypeOK
  <2>3. Refundable(a, k, Senders', Refused')
    <3>1. lease'[a] = "none" /\ wire' = wire /\ Truthful(a, k)
      BY <1>3 DEF Finish, Inv, TypeOK
    <3> QED BY <3>1 DEF Truthful, Resolution, Refundable, Senders, Refused
  <2>4. /\ Remembers(disk, Senders', rsv, Refused') /\ Remembers(mem, Senders', rsv, Refused')
    BY <1>0, <2>1, FewerKeeps
  <2>5. Remembers(m, Senders', rsv, Refused') /\ Sound(m) /\ Sound(disk)
    BY <1>00, <2>1, <2>2, <2>4, RecallsRemembers
  <2>6. mem' \in {m, live} /\ disk' \in {disk, live, replayed}
    BY <1>3, CommitEnds DEF Finish
  <2>7. Remembers(live, Senders', rsv, Refused') /\ Remembers(replayed, Senders', rsv, Refused')
    <3> HIDE DEF m, now
    <3> QED BY <2>2, <2>3, <2>4, <2>5, ResolvedRemembers
  <2> HIDE DEF m, live, replayed
  <2> QED BY <1>0, <2>5, <2>6, <2>7, TrackedFrom
<1>4. CASE AuthoritativeCount
  <2> DEFINE n == Cardinality(Running)
  <2>1. Up /\ n \in Nat
    BY <1>4, UpFacts, Counted DEF AuthoritativeCount, Serving, Up
  <2>2. mem' \in {mem, ApplyCount(mem, n)} /\ disk' \in {disk, ApplyCount(mem, n), ApplyCount(disk, n)}
    BY <1>4, CommitEnds DEF AuthoritativeCount
  <2> HIDE DEF n
  <2>3. Recalls(ApplyCount(mem, n), mem) /\ Recalls(ApplyCount(disk, n), disk)
    BY <1>00, <2>1, ObservedRecalls
  <2> QED BY <1>0, <1>00, <2>1, <2>2, <2>3, RecalledStep
<1>5. CASE BeginRecoveryProbe
  <2>1. Up
    BY <1>5 DEF BeginRecoveryProbe, Serving, Up
  <2>2. /\ mem' \in {mem, LiveProbeStarted(mem)}
        /\ disk' \in {disk, LiveProbeStarted(mem), LiveProbeStarted(disk)}
    BY <1>5, CommitEnds DEF BeginRecoveryProbe
  <2>3. Recalls(LiveProbeStarted(mem), mem) /\ Recalls(LiveProbeStarted(disk), disk)
    BY <1>00, <2>1, ObservedRecalls
  <2> QED BY <1>0, <1>00, <2>1, <2>2, <2>3, RecalledStep
<1>6. ASSUME NEW available \in BOOLEAN, Up,
             mem' \in {mem, ProbeFinished(mem, available)},
             disk' \in {disk, ProbeFinished(mem, available), ProbeFinished(disk, available)}
      PROVE  Tracked'
  <2>1. Recalls(ProbeFinished(mem, available), mem) /\ Recalls(ProbeFinished(disk, available), disk)
    BY <1>00, <1>6, ObservedRecalls
  <2> QED BY <1>0, <1>00, <1>6, <2>1, RecalledStep
<1>7. ASSUME NEW available \in BOOLEAN, FinishRecoveryProbe(available) PROVE Tracked'
  BY <1>6, <1>7, CommitEnds DEF FinishRecoveryProbe, Serving, Up
<1>8. CASE RecoverProbe
  <2>1. /\ Up /\ mem' \in {mem, ProbeFinished(mem, FALSE)}
        /\ disk' \in {disk, ProbeFinished(mem, FALSE), ProbeFinished(disk, FALSE)}
    BY <1>8 DEF RecoverProbe, AppendFails, Up
  <2> QED BY <1>6, <2>1
<1>9. ASSUME NEW c \in Config, Publish(c) PROVE Tracked'
  <2>1. Up
    BY <1>9 DEF Publish, Serving, Up
  <2>2. Recalls(UpdateAccount(mem, c), mem)
    BY <1>00, <2>1, UpdateRecalls
  <2>3. mem' \in {mem, UpdateAccount(mem, c)} /\ disk' \in {disk, UpdateAccount(mem, c), disk}
    BY <1>9 DEF Publish, Checkpointed, AppendFails
  <2> QED BY <1>0, <1>00, <2>1, <2>2, <2>3, RecalledStep
<1>10. CASE TakeCheckpoint \/ Recovered
  <2>1. Up /\ mem' \in {mem, mem} /\ disk' \in {disk, mem, disk}
    BY <1>10 DEF TakeCheckpoint, Recovered, Serving, Up, Checkpointed
  <2> QED BY <1>0, <1>00, <2>1, RecalledStep
<1>11. CASE Boot
  <2>1. Sound(disk) /\ cfg \in Config /\ clock \in Nat /\ rsv \in [Attempt -> Payload]
        /\ Senders' \in SUBSET Attempt
    BY DEF Inv, TypeOK, Senders
  <2>2. Remembers(disk, Senders', rsv, Refused')
    BY <1>0, FewerKeeps
  <2>3. Remembers(Rebuilt, Senders', rsv, Refused')
    BY <2>1, <2>2, RebuiltRecalls, RecallsRemembers
  <2>4. CASE mem' = Rebuilt /\ disk' \in {disk, Rebuilt}
    BY <1>0, <2>2, <2>3, <2>4, TrackedFrom
  <2>5. CASE status' = "recovery_required" /\ disk' = disk
    BY <1>0, <2>2, <2>5, FewerKeeps DEF Tracked, Fewer, Up
  <2> QED BY <1>11, <2>4, <2>5 DEF Boot, Checkpointed
<1>12. CASE Capacity
  <2> DEFINE m == Touch(mem)
             now == Now(mem)
             fresh == RollMonthly(PurgeWindows(m, now), now)
  <2>1. Up /\ mem' = fresh /\ disk' = disk
    BY <1>12 DEF Capacity, Serving, Up
  <2>2. Senders' \in SUBSET Attempt /\ rsv \in [Attempt -> Payload]
    BY DEF Senders, Inv, TypeOK
  <2>3. /\ Remembers(disk, Senders', rsv, Refused') /\ Remembers(mem, Senders', rsv, Refused')
    BY <1>0, <2>1, FewerKeeps
  <2>4. Remembers(m, Senders', rsv, Refused') /\ Sound(m) /\ m.hw = now /\ now \in Nat
    BY <1>00, <2>1, <2>2, <2>3, RecallsRemembers
  <2>5. Remembers(fresh, Senders', rsv, Refused')
    <3> HIDE DEF m, now
    <3> QED BY <2>2, <2>4, FreshRemembers
  <2> HIDE DEF fresh
  <2> QED BY <1>0, <2>1, <2>5, TrackedFrom
<1>13. CASE \/ \E a \in Attempt : Send(a)
            \/ \E a \in Attempt, how \in {"ended", "refused"} : ProviderEnds(a, how)
            \/ \E t \in 1..MaxClock : ClockStep(t)
            \/ Crash
  <2>1. disk' = disk /\ (status' = "down" \/ (mem' = mem /\ status' = status))
    BY <1>13 DEF Send, ProviderEnds, ClockStep, Crash
  <2> QED BY <1>0, <2>1, IdleStep
<1> QED
  BY <1>1, <1>2, <1>3, <1>4, <1>5, <1>7, <1>8, <1>9, <1>10, <1>11, <1>12, <1>13 DEF Calm

(* Circuits have nothing to do with the windows.                           *)
LEMMA TurningTracked == ASSUME Inv, Turning, Tracked PROVE Tracked'
<1>1. Fewer
  <2>1. UNCHANGED <<rsv, lease, wire>>
    BY TurningTurns DEF Turned
  <2> QED BY <2>1 DEF Fewer, Senders, Refused
<1>2. ASSUME Up, NEW s, NEW v, NEW m, m = mem \/ m = Touch(mem),
             Commit(m, SetCircuit(m, s, v), SetCircuit(disk, s, v))
      PROVE  Tracked'
  <2>1. Sound(mem) /\ Sound(disk) /\ clock \in Nat /\ Sound(Touch(mem))
    BY <1>2, UpFacts, TouchKeeps
  <2>2. Recalls(m, mem) /\ Sound(m)
    BY <1>2, <2>1, RecallsSelf, TouchRecalls
  <2>3. Recalls(SetCircuit(m, s, v), m) /\ Recalls(SetCircuit(disk, s, v), disk)
    BY <2>1, <2>2, CircuitRecalls
  <2>4. Recalls(SetCircuit(m, s, v), mem)
    BY <2>2, <2>3, RecallsTrans
  <2>5. mem' \in {m, SetCircuit(m, s, v)} /\ disk' \in {disk, SetCircuit(m, s, v), SetCircuit(disk, s, v)}
    BY <1>2, CommitEnds
  <2> QED BY <1>1, <1>2, <2>2, <2>3, <2>4, <2>5, RecalledStep
<1>3. ASSUME Serving, NEW s, NEW v, Swap(s, v) PROVE Tracked'
  BY <1>2, <1>3 DEF Swap, Serving, Up
<1>4. ASSUME NEW s \in Scope, OpenCircuit(s) \/ ProbeSucceeded(s) \/ ProbeFailed(s) PROVE Tracked'
  BY <1>3, <1>4 DEF OpenCircuit, ProbeSucceeded, ProbeFailed
<1>5. ASSUME NEW g \in Gen, BeginProbe(g) PROVE Tracked'
  BY <1>3, <1>5 DEF BeginProbe
<1>6. ASSUME NEW s \in Scope, RecoverCircuit(s) PROVE Tracked'
  <2>1. Up
    BY <1>6 DEF RecoverCircuit, Up
  <2>2. \E v : Commit(Touch(mem), SetCircuit(Touch(mem), s, v), SetCircuit(disk, s, v))
    BY <1>6 DEF RecoverCircuit
  <2> QED BY <1>2, <2>1, <2>2
<1> QED BY <1>4, <1>5, <1>6 DEF Turning

-----------------------------------------------------------------------------
(* What each attempt reserved.                                             *)
Tokens == [a \in Attempt |-> rsv[a].tokens]

(* What try_reserve has checked when it grants a the payload p: whichever  *)
(* senders share a window with it leave room for it.                       *)
Room(a, p) ==
    /\ a \notin Senders /\ p \in Payload
    /\ rsv' = [rsv EXCEPT ![a] = p]
    /\ Senders' \subseteq Senders \cup {a} /\ Refused' = Refused
    /\ cfg.rpm # Unknown =>
          \A S \in SUBSET Senders : (\A b \in S : rsv[b].at > p.at - Min({c.rpmWindow : c \in Config}))
              => Cardinality(S) < cfg.rpm
    /\ cfg.tpm # Unknown =>
          \A S \in SUBSET (Senders \ Refused) :
              (\A b \in S : rsv[b].at > p.at - Min({c.tpmWindow : c \in Config}))
                  => Total(Tokens, S) + p.tokens <= cfg.tpm

(* The least element of a set of naturals, for Min.                        *)
LEMMA Least ==
    ASSUME NEW S \in SUBSET Nat, S # {}
    PROVE  Min(S) \in S /\ \A m \in S : Min(S) <= m
<1>1. \E n \in S : \A m \in S : n <= m
  <2>1. PICK k \in S : TRUE
    OBVIOUS
  <2> DEFINE D(n) == {m \in S : m < n}
             B == {D(n) : n \in {n \in S : n <= k}}
  <2>2. IsFiniteSet(D(k))
    BY FS_BoundedSetOfNaturals
  <2>3. B \in SUBSET (SUBSET D(k)) /\ B # {}
    <3>1. ASSUME NEW n \in S, n <= k PROVE D(n) \subseteq D(k)
      <4> SUFFICES ASSUME NEW m \in S, m < n PROVE m < k
        OBVIOUS
      <4>1. m \in Nat /\ n \in Nat /\ k \in Nat
        OBVIOUS
      <4> QED BY <3>1, <4>1
    <3>2. k <= k
      OBVIOUS
    <3> HIDE DEF D
    <3> QED BY <3>1, <3>2
  <2>4. PICK x \in B : \A t \in B : t \subseteq x => t = x
    <3> HIDE DEF D, B
    <3> QED BY <2>2, <2>3, Smallest
  <2>5. PICK n \in S : n <= k /\ x = D(n)
    BY <2>4
  <2>6. ASSUME NEW m \in S, m < n PROVE FALSE
    <3>1. m \in Nat /\ n \in Nat /\ k \in Nat /\ m <= k
      BY <2>5, <2>6
    <3>2. D(m) \in B
      BY <3>1
    <3>3. D(m) \subseteq D(n)
      <4> SUFFICES ASSUME NEW i \in S, i < m PROVE i < n
        OBVIOUS
      <4>1. i \in Nat
        OBVIOUS
      <4> QED BY <2>6, <3>1, <4>1
    <3>4. m \in D(n) /\ m \notin D(m)
      BY <2>6, <3>1
    <3> HIDE DEF D, B
    <3> QED BY <2>4, <2>5, <3>2, <3>3, <3>4
  <2>7. \A m \in S : n <= m
    BY <2>6
  <2> QED BY <2>7
<1> QED BY <1>1 DEF Min

(* The smallest window is no longer than any published one.                *)
LEMMA SmallestWindow ==
    /\ Min({c.rpmWindow : c \in Config}) \in Nat /\ Min({c.tpmWindow : c \in Config}) \in Nat
    /\ \A c \in Config : /\ Min({d.rpmWindow : d \in Config}) <= c.rpmWindow
                         /\ Min({d.tpmWindow : d \in Config}) <= c.tpmWindow
                         /\ c.rpmWindow \in Nat /\ c.tpmWindow \in Nat
<1> DEFINE P == {c.rpmWindow : c \in Config}
           Q == {c.tpmWindow : c \in Config}
<1>1. P \subseteq Nat /\ Q \subseteq Nat /\ P # {} /\ Q # {}
  BY ConstantsAssumption DEF AccountConfig
<1>2. \A c \in Config : c.rpmWindow \in P /\ c.tpmWindow \in Q
  OBVIOUS
<1> HIDE DEF P, Q
<1>3. /\ Min(P) \in P /\ \A m \in P : Min(P) <= m
      /\ Min(Q) \in Q /\ \A m \in Q : Min(Q) <= m
  BY <1>1, Least
<1>4. /\ Min(P) \in Nat /\ Min(Q) \in Nat
      /\ \A c \in Config : /\ Min(P) <= c.rpmWindow /\ Min(Q) <= c.tpmWindow
                           /\ c.rpmWindow \in Nat /\ c.tpmWindow \in Nat
  BY <1>1, <1>2, <1>3
<1> QED BY <1>4 DEF P, Q

(* The RPM check counts every sender that shares the new start's window.   *)
LEMMA RpmRoom ==
    ASSUME Inv, NEW L, Sound(L), L.hw \in Nat, Remembers(L, Senders, rsv, Refused),
           RpmFree(L, L.hw), cfg.rpm # Unknown,
           NEW S \in SUBSET Senders,
           \A b \in S : rsv[b].at > L.hw - Min({c.rpmWindow : c \in Config})
    PROVE  Cardinality(S) < cfg.rpm
<1> DEFINE w == Min({c.rpmWindow : c \in Config})
           W == InWindow(L.counted, L.hw, cfg.rpmWindow)
<1>1. /\ w \in Nat /\ cfg.rpmWindow \in Nat /\ KeepWindow \in Nat
      /\ w <= cfg.rpmWindow /\ cfg.rpmWindow <= KeepWindow /\ cfg.rpm \in Nat
  BY SmallestWindow, WindowsAssumption, ConstantsAssumption DEF Inv, TypeOK, AccountConfig, Limit
<1> HIDE DEF w
<1>2. ASSUME NEW b \in S PROVE b \in W
  <2>1. b \in Senders /\ b \in Attempt /\ rsv[b].at \in Int
    BY DEF Senders, Inv, TypeOK, Payload
  <2>2. rsv[b].at > L.hw - w
    BY DEF w
  <2>3. rsv[b].at > L.hw - cfg.rpmWindow /\ ~(rsv[b].at <= L.hw - KeepWindow)
    BY <1>1, <2>1, <2>2
  <2>4. b \in L.counted
    BY <2>1, <2>3 DEF Remembers, Counts
  <2> QED BY <2>3, <2>4 DEF InWindow
<1>3. W \subseteq Attempt
  BY DEF InWindow, Sound, Ledger
<1>4. Cardinality(W) < cfg.rpm
  BY DEF RpmFree, RpmStarts
<1> HIDE DEF W
<1>5. /\ IsFiniteSet(W) /\ IsFiniteSet(S) /\ Cardinality(S) <= Cardinality(W)
  BY <1>2, <1>3, ConstantsAssumption, FS_Subset
<1>6. Cardinality(S) \in Nat /\ Cardinality(W) \in Nat
  BY <1>5, FS_CardinalityType
<1> QED BY <1>1, <1>4, <1>5, <1>6

(* So does the TPM check, with the tokens they reserved.                   *)
LEMMA WindowTokens ==
    ASSUME NEW L, Sound(L), NEW now, NEW w
    PROVE  /\ InWindow(L.starts, now, w) \subseteq Attempt
           /\ MapThenSumSet(LAMBDA a : L.tokens[a], InWindow(L.starts, now, w)) =
                 Total(L.tokens, InWindow(L.starts, now, w))
<1> DEFINE W == InWindow(L.starts, now, w)
           g == L.tokens
           Iter(f) == f = [s \in SUBSET W |->
                        IF s = {} THEN 0
                        ELSE g[CHOOSE x \in s : TRUE] + f[s \ {CHOOSE x \in s : TRUE}]]
<1>0. W \subseteq Attempt
  BY DEF InWindow, Sound, Ledger
<1>1. IsFiniteSet(W)
  BY <1>0, ConstantsAssumption, FS_Subset
<1> HIDE DEF W
<1>2. ASSUME NEW f PROVE Iter(f) <=> Sums(g, f, W)
  BY DEF Sums, SumStep, Choice
<1>3. MapThenSumSet(LAMBDA a : L.tokens[a], W) = (CHOOSE f : Iter(f))[W]
  BY DEF MapThenSumSet, MapThenFoldSet
<1>4. \E f : Iter(f)
  <2>1. PICK f : Sums(g, f, W)
    BY <1>1, SumsExist
  <2>2. Iter(f)
    BY <1>2, <2>1
  <2> HIDE DEF Iter
  <2> QED BY <2>2
<1> DEFINE h == CHOOSE f : Iter(f)
<1>5. Iter(h)
  BY <1>4
<1> HIDE DEF h, Iter, g
<1>6. Sums(g, h, W)
  BY <1>2, <1>5
<1>7. h[W] = Total(g, W)
  BY <1>1, <1>6, SumsTotal
<1> QED BY <1>0, <1>3, <1>7 DEF g, h, W

(* The TPM check leaves room for the tokens of every sender that shares    *)
(* the window of the new start.                                            *)
LEMMA TpmRoom ==
    ASSUME Inv, NEW L, Sound(L), L.hw \in Nat, Remembers(L, Senders, rsv, Refused),
           NEW r \in Request, TpmFree(L, r, L.hw), cfg.tpm # Unknown,
           NEW S \in SUBSET (Senders \ Refused),
           \A b \in S : rsv[b].at > L.hw - Min({c.tpmWindow : c \in Config})
    PROVE  Total(Tokens, S) + r.tokens <= cfg.tpm
<1> DEFINE w == Min({c.tpmWindow : c \in Config})
           W == InWindow(L.starts, L.hw, cfg.tpmWindow)
<1>1. /\ w \in Nat /\ cfg.tpmWindow \in Nat /\ KeepWindow \in Nat
      /\ w <= cfg.tpmWindow /\ cfg.tpmWindow <= KeepWindow /\ cfg.tpm \in Nat
  BY SmallestWindow, WindowsAssumption, ConstantsAssumption DEF Inv, TypeOK, AccountConfig, Limit
<1> HIDE DEF w
<1>2. ASSUME NEW b \in S PROVE b \in W /\ L.tokens[b] = Tokens[b]
  <2>1. b \in Senders /\ b \in Attempt /\ rsv[b].at \in Int /\ b \notin Refused
    BY DEF Senders, Inv, TypeOK, Payload
  <2>2. rsv[b].at > L.hw - w
    BY DEF w
  <2>3. rsv[b].at > L.hw - cfg.tpmWindow /\ ~(rsv[b].at <= L.hw - KeepWindow)
    BY <1>1, <2>1, <2>2
  <2>4. b \in L.starts /\ L.tokens[b] = rsv[b].tokens
    BY <2>1, <2>3 DEF Remembers, Counts
  <2> QED BY <2>1, <2>3, <2>4 DEF InWindow, Tokens
<1>3. W \subseteq Attempt /\ TpmTokens(L, cfg, L.hw) = Total(L.tokens, W)
  BY WindowTokens DEF TpmTokens
<1>4. Total(L.tokens, W) + r.tokens <= cfg.tpm
  BY <1>3 DEF TpmFree
<1> HIDE DEF W
<1>5. IsFiniteSet(W) /\ IsFiniteSet(S)
  BY <1>2, <1>3, ConstantsAssumption, FS_Subset
<1>6. \A b \in W : L.tokens[b] \in Nat
  BY <1>3 DEF Sound, Ledger
<1>7. \A b \in S : Tokens[b] \in Nat /\ Tokens[b] <= L.tokens[b]
  <2>1. \A b \in S : L.tokens[b] \in Nat /\ L.tokens[b] = Tokens[b]
    BY <1>2, <1>6
  <2> QED BY <2>1
<1>8. S \subseteq W
  BY <1>2
<1>9. Total(Tokens, S) <= Total(L.tokens, W)
  BY <1>5, <1>6, <1>7, <1>8, TotalMono
<1>10. Total(Tokens, S) \in Nat
  BY <1>5, <1>7, TotalNat
<1>11. Total(L.tokens, W) \in Nat /\ r.tokens \in Nat
  BY <1>5, <1>6, TotalNat, ConstantsAssumption
<1> QED BY <1>1, <1>4, <1>9, <1>10, <1>11

(* A reservation is counted in both ledgers.                               *)
LEMMA ReservedRemembers ==
    ASSUME NEW L, Sound(L), NEW S \in SUBSET Attempt, NEW q \in [Attempt -> Payload], NEW R,
           NEW a \in Attempt, NEW p \in Payload, a \notin S, Remembers(L, S, q, R)
    PROVE  /\ Remembers(L, S, [q EXCEPT ![a] = p], R)
           /\ Remembers(LiveReserved(L, a, p), S \cup {a}, [q EXCEPT ![a] = p], R)
           /\ Remembers(ReplayReserved(L, a, p), S \cup {a}, [q EXCEPT ![a] = p], R)
<1> DEFINE Q == [q EXCEPT ![a] = p]
<1>1. Q[a] = p /\ \A b \in S : Q[b] = q[b]
  OBVIOUS
<1> HIDE DEF Q
<1>2. Remembers(L, S, Q, R)
  BY <1>1 DEF Remembers, Counts
<1>3. ASSUME NEW M, M.starts = L.starts \cup {a}, M.counted = L.counted \cup {a},
             M.tokens = [L.tokens EXCEPT ![a] = p.tokens], M.hw = L.hw
      PROVE  Remembers(M, S \cup {a}, Q, R)
  <2>1. L.tokens \in [Attempt -> Nat]
    BY DEF Sound, Ledger
  <2>2. Counts(M, a, Q, R)
    BY <1>1, <1>3, <2>1 DEF Counts
  <2>3. ASSUME NEW b \in S, Counts(L, b, Q, R) PROVE Counts(M, b, Q, R)
    BY <1>3, <2>1, <2>3 DEF Counts
  <2> QED BY <1>2, <1>3, <2>2, <2>3 DEF Remembers
<1>4. Remembers(LiveReserved(L, a, p), S \cup {a}, Q, R)
  <2> DEFINE M == LiveReserved(L, a, p)
  <2>1. /\ M.starts = L.starts \cup {a} /\ M.counted = L.counted \cup {a}
        /\ M.tokens = [L.tokens EXCEPT ![a] = p.tokens] /\ M.hw = L.hw
    BY DEF LiveReserved, Sound, Ledger
  <2> HIDE DEF M
  <2>2. Remembers(M, S \cup {a}, Q, R)
    BY <1>3, <2>1
  <2> QED BY <2>2 DEF M
<1>5. Remembers(ReplayReserved(L, a, p), S \cup {a}, Q, R)
  <2> DEFINE M == ReplayReserved(L, a, p)
  <2>1. /\ M.starts = L.starts \cup {a} /\ M.counted = L.counted \cup {a}
        /\ M.tokens = [L.tokens EXCEPT ![a] = p.tokens] /\ M.hw = L.hw
    BY DEF ReplayReserved, Sound, Ledger
  <2> HIDE DEF M
  <2>2. Remembers(M, S \cup {a}, Q, R)
    BY <1>3, <2>1
  <2> QED BY <2>2 DEF M
<1> QED BY <1>2, <1>4, <1>5 DEF Q

(* try_reserve, granted or denied.                                         *)
LEMMA ReserveTracked ==
    ASSUME Inv, Tracked, NEW a \in Attempt, NEW r \in Request, NEW stale \in BOOLEAN,
           TryReserve(a, r, stale)
    PROVE  Tracked' /\ (Fewer \/ \E p : Room(a, p))
<1> DEFINE now    == Now(mem)
           m      == Touch(mem)
           pruned == PruneResolutions(m, now)
           purged == PurgeWindows(pruned, now)
           fresh  == RollMonthly(purged, now)
           p == [at |-> now, deadline |-> clock + r.ttl, tokens |-> r.tokens,
                 quota |-> r.quota, reset |-> fresh.reset,
                 probes |-> ProbesOf(fresh, r.gen)]
<1>1. /\ status = "healthy" /\ Up /\ clock \in Nat /\ Sound(mem) /\ Sound(disk)
      /\ Agree(mem, disk) /\ UNCHANGED <<cfg, wire>> /\ rsv[a].at = NoTime
      /\ rsv \in [Attempt -> Payload] /\ Senders \in SUBSET Attempt
      /\ lease \in [Attempt -> {"none", "held", "cleared"}]
  BY DEF TryReserve, Serving, Inv, TypeOK, Up, Senders
<1>2. Sound(m) /\ Agree(m, disk) /\ now \in Nat
  BY <1>1, TouchKeeps
<1>3. Sound(pruned) /\ Agree(pruned, disk)
  BY <1>2, PruneKeeps
<1>4. Sound(purged) /\ Agree(purged, disk)
  BY <1>2, <1>3, PurgeKeeps
<1>5. Sound(fresh)
  BY <1>2, <1>4, RollKeeps
<1>6. Remembers(pruned, Senders, rsv, Refused) /\ pruned.hw = now
  <2>1. Recalls(m, mem) /\ m.hw = now /\ Recalls(pruned, m) /\ pruned.hw = m.hw
    BY <1>1, <1>2, TouchRecalls, PruneRecalls
  <2>2. Recalls(pruned, mem) /\ Remembers(mem, Senders, rsv, Refused)
    BY <1>1, <2>1, RecallsTrans DEF Tracked
  <2> QED BY <1>1, <2>1, <2>2, RecallsRemembers
<1>7. Remembers(fresh, Senders, rsv, Refused) /\ fresh.hw = now
  <2>1. fresh = RollMonthly(PurgeWindows(pruned, pruned.hw), pruned.hw)
    BY <1>6
  <2> HIDE DEF fresh, pruned
  <2> QED BY <1>1, <1>2, <1>3, <1>6, <2>1, FreshRemembers
<1>8. a \notin Senders
  BY <1>1 DEF Tracked
<1> HIDE DEF now, m, pruned, purged, fresh
<1>9. CASE mem' \in {pruned, fresh} /\ UNCHANGED <<disk, rsv, status, lease>>
  <2>1. Senders' = Senders /\ Refused' = Refused /\ rsv' = rsv
    BY <1>1, <1>9 DEF Senders, Refused
  <2>2. Fewer
    BY <2>1 DEF Fewer
  <2>3. mem' \in {pruned, fresh} /\ disk' \in {disk, fresh, fresh}
    BY <1>9
  <2>4. Tracked'
    BY <1>6, <1>7, <2>1, <2>2, <2>3, TrackedFrom
  <2> QED BY <2>2, <2>4
<1>10. CASE Limits(fresh, r, now) /\ Grant(fresh, a, p)
  <2>1. r.gen \in Gen /\ r.ttl \in Nat /\ r.tokens \in Nat /\ r.quota \in Nat
    BY ConstantsAssumption
  <2>2. p \in Payload /\ p.at = now /\ p.tokens = r.tokens /\ now # NoTime
    <3>1. ProbesOf(fresh, r.gen) \subseteq Nat
      BY <1>5, <2>1 DEF ProbesOf, Sound, Ledger, Circuit, Scope
    <3>2. fresh.reset \in Int
      BY <1>5 DEF Sound, Ledger
    <3> QED BY <1>1, <1>2, <2>1, <3>1, <3>2 DEF Payload, NoTime
  <2> HIDE DEF p
  <2> DEFINE live == LiveReserved(fresh, a, p)
             replayed == ReplayReserved(disk, a, p)
             Q == [rsv EXCEPT ![a] = p]
             T == Senders \cup {a}
  <2>3. /\ Commit(fresh, live, replayed) /\ rsv' = Q
        /\ lease' = [lease EXCEPT ![a] = IF status' = "healthy" THEN "held" ELSE @]
    BY <1>10 DEF Grant
  <2>4. /\ Remembers(fresh, Senders, Q, Refused) /\ Remembers(live, T, Q, Refused)
    BY <1>1, <1>5, <1>7, <1>8, <2>2, ReservedRemembers
  <2>5. /\ Remembers(disk, Senders, Q, Refused) /\ Remembers(replayed, T, Q, Refused)
    BY <1>1, <1>8, <2>2, ReservedRemembers DEF Tracked
  <2>6. Q[a] = p /\ \A b \in Senders : Q[b] = rsv[b]
    BY <1>1, <1>8
  <2> HIDE DEF live, replayed, Q
  <2>7. Refused' = Refused /\ Senders' \subseteq T
    BY <1>1, <2>3 DEF Senders, Refused
  <2>8. status' # "healthy" => Senders' \subseteq Senders
    BY <1>1, <1>8, <2>3 DEF Senders
  <2>9. /\ status' \in {"healthy", "recovery_required"}
        /\ mem' \in {fresh, live} /\ disk' \in {disk, live, replayed}
        /\ status' = "healthy" => mem' = live /\ disk' \in {live, replayed}
    BY <1>1, <2>3 DEF Commit, Checkpointed, AppendFails
  <2>10. Tracked'
    <3>1. \A b \in Senders' : rsv'[b].at # NoTime
      BY <2>2, <2>3, <2>6, <2>7 DEF Tracked
    <3>2. CASE status' = "healthy"
      <4>1. Remembers(live, Senders', Q, Refused) /\ Remembers(replayed, Senders', Q, Refused)
        BY <2>4, <2>5, <2>7, RemembersFewer
      <4> QED BY <2>3, <2>7, <2>9, <3>1, <3>2, <4>1 DEF Tracked
    <3>3. CASE status' # "healthy"
      <4>1. /\ Remembers(live, Senders', Q, Refused) /\ Remembers(replayed, Senders', Q, Refused)
            /\ Remembers(fresh, Senders', Q, Refused) /\ Remembers(disk, Senders', Q, Refused)
        BY <2>4, <2>5, <2>7, <2>8, <3>3, RemembersFewer
      <4> QED BY <2>3, <2>7, <2>9, <3>1, <4>1 DEF Tracked
    <3> QED BY <3>2, <3>3
  <2>11. Room(a, p)
    <3>1. RpmFree(fresh, fresh.hw) /\ TpmFree(fresh, r, fresh.hw) /\ fresh.hw \in Nat
      BY <1>2, <1>7, <1>10 DEF Limits
    <3>2. cfg.rpm # Unknown =>
            \A S \in SUBSET Senders : (\A b \in S : rsv[b].at > p.at - Min({c.rpmWindow : c \in Config}))
                => Cardinality(S) < cfg.rpm
      BY <1>5, <1>7, <2>2, <3>1, RpmRoom
    <3>3. cfg.tpm # Unknown =>
            \A S \in SUBSET (Senders \ Refused) :
                (\A b \in S : rsv[b].at > p.at - Min({c.tpmWindow : c \in Config}))
                    => Total(Tokens, S) + p.tokens <= cfg.tpm
      BY <1>5, <1>7, <2>2, <3>1, TpmRoom
    <3> QED BY <1>8, <2>2, <2>3, <2>7, <3>2, <3>3 DEF Room, Q
  <2> QED BY <2>10, <2>11
<1> QED BY <1>9, <1>10 DEF TryReserve, now, m, pruned, purged, fresh

-----------------------------------------------------------------------------
(* The rate limits, over any interval of the length of a window (Rated).   *)

RpmWindow == Min({c.rpmWindow : c \in Config})
TpmWindow == Min({c.tpmWindow : c \in Config})
MostRpm == Max({c.rpm : c \in Config})
MostTpm == Max({c.tpm : c \in Config})

(* Both rates are limited in every configuration, and the limits have a    *)
(* largest one (as those of a finite set of configurations do).            *)
RatesKnown ==
    /\ \A c \in Config : c.rpm # Unknown /\ c.tpm # Unknown
    /\ \E c \in Config : \A d \in Config : d.rpm <= c.rpm
    /\ \E c \in Config : \A d \in Config : d.tpm <= c.tpm

(* The largest limits bound every published one.                           *)
LEMMA LargestRates ==
    ASSUME RatesKnown
    PROVE  /\ MostRpm \in Nat /\ MostTpm \in Nat
           /\ \A c \in Config : /\ c.rpm <= MostRpm /\ c.tpm <= MostTpm
                                /\ c.rpm \in Nat /\ c.tpm \in Nat
<1> DEFINE P == {c.rpm : c \in Config}
           Q == {c.tpm : c \in Config}
<1>0. \A c \in Config : c.rpm \in Nat /\ c.tpm \in Nat
  BY ConstantsAssumption DEF AccountConfig, Limit, RatesKnown
<1>1. P \subseteq Nat /\ Q \subseteq Nat
  BY <1>0
<1>2. \E x \in P : \A y \in P : x >= y
  BY <1>0 DEF RatesKnown
<1>3. \E x \in Q : \A y \in Q : x >= y
  BY <1>0 DEF RatesKnown
<1>4. MostRpm \in P /\ \A y \in P : MostRpm >= y
  BY <1>2 DEF MostRpm, Max
<1>5. MostTpm \in Q /\ \A y \in Q : MostTpm >= y
  BY <1>3 DEF MostTpm, Max
<1>6. \A c \in Config : c.rpm \in P /\ c.tpm \in Q
  OBVIOUS
<1> HIDE DEF P, Q
<1> QED BY <1>0, <1>1, <1>4, <1>5, <1>6

(* The members of S that started in the window of length w ending at t.    *)
StartedIn(S, q, t, w) == {a \in S : q[a].at \in (t - w + 1)..t}

(* What each attempt reserved.                                             *)
TokensOf(q) == [a \in Attempt |-> q[a].tokens]

(* No interval of the length of a window exceeds a limit.                  *)
Rated(S, R, q) ==
    \A t \in Int : /\ Cardinality(StartedIn(S, q, t, RpmWindow)) <= MostRpm
                   /\ Total(TokensOf(q), StartedIn(S \ R, q, t, TpmWindow)) <= MostTpm

(* Fewer senders, or more refusals, stay within the limits.                *)
LEMMA RatedFewer ==
    ASSUME RatesKnown, NEW S \in SUBSET Attempt, NEW T \in SUBSET S, NEW R, NEW Q,
           R \subseteq Q, NEW q \in [Attempt -> Payload], Rated(S, R, q)
    PROVE  Rated(T, Q, q)
<1> SUFFICES ASSUME NEW t \in Int
             PROVE  /\ Cardinality(StartedIn(T, q, t, RpmWindow)) <= MostRpm
                    /\ Total(TokensOf(q), StartedIn(T \ Q, q, t, TpmWindow)) <= MostTpm
  BY DEF Rated
<1> DEFINE A == StartedIn(T, q, t, RpmWindow)
           B == StartedIn(S, q, t, RpmWindow)
           C == StartedIn(T \ Q, q, t, TpmWindow)
           D == StartedIn(S \ R, q, t, TpmWindow)
<1>1. A \subseteq B /\ C \subseteq D /\ B \subseteq Attempt /\ D \subseteq Attempt
  BY DEF StartedIn
<1>2. Cardinality(B) <= MostRpm /\ Total(TokensOf(q), D) <= MostTpm
  BY DEF Rated
<1> HIDE DEF A, B, C, D
<1>3. IsFiniteSet(B) /\ IsFiniteSet(D) /\ IsFiniteSet(A) /\ IsFiniteSet(C)
  BY <1>1, ConstantsAssumption, FS_Subset
<1>4. Cardinality(A) <= Cardinality(B)
  BY <1>1, <1>3, FS_Subset
<1>5. Cardinality(A) \in Nat /\ Cardinality(B) \in Nat
  BY <1>3, FS_CardinalityType
<1>6. \A a \in D : TokensOf(q)[a] \in Nat
  BY <1>1 DEF TokensOf, Payload
<1>7. \A a \in C : TokensOf(q)[a] \in Nat /\ TokensOf(q)[a] <= TokensOf(q)[a]
  BY <1>1, <1>6
<1>8. Total(TokensOf(q), C) <= Total(TokensOf(q), D)
  BY <1>1, <1>3, <1>6, <1>7, TotalMono
<1>9. Total(TokensOf(q), C) \in Nat
  BY <1>3, <1>7, TotalNat
<1>10. Total(TokensOf(q), D) \in Nat
  BY <1>3, <1>6, TotalNat
<1>11. MostRpm \in Nat /\ MostTpm \in Nat
  BY LargestRates
<1>12. Cardinality(A) <= MostRpm
  BY <1>2, <1>4, <1>5, <1>11
<1>13. Total(TokensOf(q), C) <= MostTpm
  BY <1>2, <1>8, <1>9, <1>10, <1>11
<1> QED BY <1>12, <1>13 DEF A, C

(* A granted attempt joins windows that have room for it.                  *)
LEMMA RoomRated ==
    ASSUME RatesKnown, Inv, Rated(Senders, Refused, rsv), NEW a \in Attempt, NEW p, Room(a, p)
    PROVE  Rated(Senders \cup {a}, Refused, [rsv EXCEPT ![a] = p])
<1> DEFINE Q == [rsv EXCEPT ![a] = p]
<1> SUFFICES ASSUME NEW t \in Int
             PROVE  /\ Cardinality(StartedIn(Senders \cup {a}, Q, t, RpmWindow)) <= MostRpm
                    /\ Total(TokensOf(Q), StartedIn((Senders \cup {a}) \ Refused, Q, t, TpmWindow)) <= MostTpm
  BY DEF Rated
<1>0. /\ rsv \in [Attempt -> Payload] /\ p \in Payload /\ p.at \in Int /\ p.tokens \in Nat
      /\ Senders \subseteq Attempt /\ a \notin Senders /\ cfg \in Config
  BY DEF Inv, TypeOK, Senders, Room, Payload
<1>1. Q[a] = p /\ Q \in [Attempt -> Payload] /\ \A b \in Attempt : b # a => Q[b] = rsv[b]
  BY <1>0
<1> HIDE DEF Q
<1>2. /\ MostRpm \in Nat /\ MostTpm \in Nat /\ cfg.rpm \in Nat /\ cfg.tpm \in Nat
      /\ cfg.rpm <= MostRpm /\ cfg.tpm <= MostTpm /\ cfg.rpm # Unknown /\ cfg.tpm # Unknown
  BY <1>0, LargestRates DEF RatesKnown
<1>3. RpmWindow \in Nat /\ TpmWindow \in Nat
  BY SmallestWindow DEF RpmWindow, TpmWindow
<1>4. ASSUME NEW S \in SUBSET Senders, NEW w \in Nat
      PROVE  /\ StartedIn(S, Q, t, w) = StartedIn(S, rsv, t, w)
             /\ StartedIn(S, rsv, t, w) \subseteq S
             /\ StartedIn(S \cup {a}, Q, t, w) \subseteq StartedIn(S, rsv, t, w) \cup {a}
             /\ p.at \notin (t - w + 1)..t => StartedIn(S \cup {a}, Q, t, w) = StartedIn(S, rsv, t, w)
             /\ p.at \in (t - w + 1)..t => \A b \in StartedIn(S, rsv, t, w) : rsv[b].at > p.at - w
  <2>1. \A b \in S : Q[b] = rsv[b] /\ rsv[b].at \in Int /\ b # a
    BY <1>0, <1>1 DEF Payload
  <2>2. ASSUME p.at \in (t - w + 1)..t, NEW b \in StartedIn(S, rsv, t, w) PROVE rsv[b].at > p.at - w
    <3>1. b \in S /\ rsv[b].at \in (t - w + 1)..t /\ rsv[b].at \in Int
      BY <2>1 DEF StartedIn
    <3> QED BY <1>0, <2>2, <3>1
  <2>3. /\ StartedIn(S, Q, t, w) = StartedIn(S, rsv, t, w)
        /\ StartedIn(S, rsv, t, w) \subseteq S
        /\ StartedIn(S \cup {a}, Q, t, w) \subseteq StartedIn(S, rsv, t, w) \cup {a}
        /\ p.at \notin (t - w + 1)..t => StartedIn(S \cup {a}, Q, t, w) = StartedIn(S, rsv, t, w)
    BY <1>1, <2>1 DEF StartedIn
  <2> QED BY <2>2, <2>3
<1>5. Cardinality(StartedIn(Senders \cup {a}, Q, t, RpmWindow)) <= MostRpm
  <2> DEFINE W == StartedIn(Senders, rsv, t, RpmWindow)
             V == StartedIn(Senders \cup {a}, Q, t, RpmWindow)
  <2>1. /\ W \subseteq Senders /\ V \subseteq W \cup {a}
        /\ p.at \notin (t - RpmWindow + 1)..t => V = W
        /\ p.at \in (t - RpmWindow + 1)..t => \A b \in W : rsv[b].at > p.at - RpmWindow
    BY <1>3, <1>4
  <2>2. Cardinality(W) <= MostRpm
    BY DEF Rated
  <2> HIDE DEF W, V
  <2>3. CASE p.at \notin (t - RpmWindow + 1)..t
    BY <2>1, <2>2, <2>3 DEF V
  <2>4. CASE p.at \in (t - RpmWindow + 1)..t
    <3>1. Cardinality(W) < cfg.rpm
      BY <1>2, <2>1, <2>4 DEF Room, RpmWindow
    <3>2. IsFiniteSet(W) /\ a \notin W
      BY <1>0, <2>1, ConstantsAssumption, FS_Subset
    <3>3. IsFiniteSet(W \cup {a}) /\ Cardinality(W \cup {a}) = Cardinality(W) + 1
      BY <3>2, FS_AddElement
    <3>4. Cardinality(V) <= Cardinality(W \cup {a}) /\ IsFiniteSet(V)
      BY <2>1, <3>3, FS_Subset
    <3>5. Cardinality(V) \in Nat /\ Cardinality(W) \in Nat
      BY <3>2, <3>4, FS_CardinalityType
    <3>6. Cardinality(V) <= MostRpm
      BY <1>2, <3>1, <3>3, <3>4, <3>5
    <3> QED BY <3>6 DEF V
  <2> QED BY <2>3, <2>4
<1>6. Total(TokensOf(Q), StartedIn((Senders \cup {a}) \ Refused, Q, t, TpmWindow)) <= MostTpm
  <2> DEFINE S == Senders \ Refused
             W == StartedIn(S, rsv, t, TpmWindow)
             V == StartedIn((Senders \cup {a}) \ Refused, Q, t, TpmWindow)
  <2>0. V \subseteq StartedIn(S \cup {a}, Q, t, TpmWindow)
    BY DEF StartedIn
  <2>1. /\ W \subseteq S /\ StartedIn(S \cup {a}, Q, t, TpmWindow) \subseteq W \cup {a}
        /\ p.at \notin (t - TpmWindow + 1)..t => StartedIn(S \cup {a}, Q, t, TpmWindow) = W
        /\ p.at \in (t - TpmWindow + 1)..t => \A b \in W : rsv[b].at > p.at - TpmWindow
    BY <1>3, <1>4
  <2>2. Total(TokensOf(rsv), W) <= MostTpm
    BY DEF Rated
  <2>3. Tokens = TokensOf(rsv)
    BY DEF Tokens, TokensOf
  <2>4. S \subseteq Senders /\ S \subseteq Attempt /\ a \notin S
    BY <1>0
  <2> HIDE DEF W, V, S
  <2>5. IsFiniteSet(W) /\ a \notin W /\ W \subseteq Attempt
    BY <2>1, <2>4, ConstantsAssumption, FS_Subset
  <2>6. /\ \A b \in W : TokensOf(Q)[b] = TokensOf(rsv)[b]
        /\ \A b \in Attempt : TokensOf(Q)[b] \in Nat /\ TokensOf(rsv)[b] \in Nat
        /\ TokensOf(Q)[a] = p.tokens
    BY <1>0, <1>1, <2>5 DEF TokensOf, Payload
  <2>7. \A b \in W : TokensOf(Q)[b] \in Nat /\ TokensOf(Q)[b] <= TokensOf(rsv)[b]
    BY <2>5, <2>6
  <2>8. Total(TokensOf(Q), W) <= Total(TokensOf(rsv), W)
    BY <2>5, <2>6, <2>7, TotalMono
  <2>9. Total(TokensOf(Q), W) \in Nat
    BY <2>5, <2>7, TotalNat
  <2>10. Total(TokensOf(rsv), W) \in Nat
    BY <2>5, <2>6, TotalNat
  <2>11. \A b \in V : TokensOf(Q)[b] \in Nat /\ TokensOf(Q)[b] <= TokensOf(Q)[b]
    <3>1. V \subseteq Attempt
      BY <2>0, <2>1, <2>5
    <3>2. \A b \in V : TokensOf(Q)[b] \in Nat
      BY <2>6, <3>1
    <3> QED BY <3>2
  <2>12. CASE p.at \notin (t - TpmWindow + 1)..t
    <3>1. V \subseteq W
      BY <2>0, <2>1, <2>12
    <3>2. Total(TokensOf(Q), V) <= Total(TokensOf(Q), W)
      BY <2>5, <2>6, <2>11, <3>1, TotalMono
    <3>3. Total(TokensOf(Q), V) \in Nat
      BY <2>5, <2>11, <3>1, TotalNat, FS_Subset
    <3>4. Total(TokensOf(Q), V) <= MostTpm
      BY <1>2, <2>2, <2>8, <2>9, <2>10, <3>2, <3>3
    <3> QED BY <3>4 DEF V
  <2>13. CASE p.at \in (t - TpmWindow + 1)..t
    <3>1. Total(TokensOf(rsv), W) + p.tokens <= cfg.tpm
      BY <1>2, <2>1, <2>3, <2>13 DEF Room, TpmWindow, S
    <3>2. IsFiniteSet(W \cup {a}) /\ V \subseteq W \cup {a} /\ W \cup {a} \subseteq Attempt
      BY <2>0, <2>1, <2>5, FS_AddElement
    <3>3. \A b \in W \cup {a} : TokensOf(Q)[b] \in Nat
      BY <2>6, <3>2
    <3>4. Total(TokensOf(Q), W \cup {a}) = TokensOf(Q)[a] + Total(TokensOf(Q), W)
      BY <2>5, <3>3, TotalAdd
    <3>5. Total(TokensOf(Q), V) <= Total(TokensOf(Q), W \cup {a})
      BY <2>11, <3>2, <3>3, TotalMono
    <3>6. Total(TokensOf(Q), V) \in Nat
      BY <2>11, <3>2, TotalNat, FS_Subset
    <3>7. Total(TokensOf(Q), W \cup {a}) = p.tokens + Total(TokensOf(Q), W)
      BY <2>6, <3>4
    <3>8. Total(TokensOf(Q), V) <= MostTpm
      BY <1>0, <1>2, <2>8, <2>9, <2>10, <3>1, <3>5, <3>6, <3>7
    <3> QED BY <3>8 DEF V
  <2> QED BY <2>12, <2>13
<1> QED BY <1>5, <1>6

(* One step.                                                               *)
LEMMA RatedStep ==
    ASSUME RatesKnown, Inv, Tracked, Rated(Senders, Refused, rsv), [Next]_vars
    PROVE  Tracked' /\ Rated(Senders, Refused, rsv)'
<1>0. rsv \in [Attempt -> Payload] /\ Senders \in SUBSET Attempt
  BY DEF Inv, TypeOK, Senders
<1>1. ASSUME Fewer PROVE Rated(Senders, Refused, rsv)'
  <2>1. Rated(Senders', Refused', rsv)
    BY <1>0, <1>1, RatedFewer DEF Fewer
  <2> QED BY <1>1, <2>1 DEF Fewer, Rated, StartedIn, TokensOf, MostRpm, MostTpm, RpmWindow, TpmWindow
<1>2. CASE Calm
  BY <1>1, <1>2, CalmTracked, CalmFewer
<1>3. CASE Turning
  <2>1. Fewer
    <3>1. UNCHANGED <<rsv, lease, wire>>
      BY <1>3, TurningTurns DEF Turned
    <3> QED BY <3>1 DEF Fewer, Senders, Refused
  <2> QED BY <1>1, <1>3, <2>1, TurningTracked
<1>4. ASSUME NEW a \in Attempt, NEW r \in Request, NEW stale \in BOOLEAN, TryReserve(a, r, stale)
      PROVE  Tracked' /\ Rated(Senders, Refused, rsv)'
  <2>1. Tracked' /\ (Fewer \/ \E p : Room(a, p))
    BY <1>4, ReserveTracked
  <2>2. ASSUME NEW p, Room(a, p) PROVE Rated(Senders, Refused, rsv)'
    <3> DEFINE Q == [rsv EXCEPT ![a] = p]
    <3>1. /\ Rated(Senders \cup {a}, Refused, Q) /\ rsv' = Q /\ Q \in [Attempt -> Payload]
          /\ Senders' \subseteq Senders \cup {a} /\ Refused' = Refused
          /\ Senders \cup {a} \subseteq Attempt
      BY <1>0, <2>2, RoomRated DEF Room
    <3> HIDE DEF Q
    <3>2. Rated(Senders', Refused', Q)
      BY <3>1, RatedFewer
    <3> QED BY <3>1, <3>2 DEF Rated, StartedIn, TokensOf, MostRpm, MostTpm, RpmWindow, TpmWindow
  <2> QED BY <1>1, <2>1, <2>2
<1>5. CASE UNCHANGED vars
  BY <1>5 DEF vars, Tracked, Remembers, Counts, Senders, Refused, Up, Rated, StartedIn, TokensOf
<1> QED BY <1>2, <1>3, <1>4, <1>5, StepKinds

(* _rpm_starts and _tpm_starts: whatever the clock, the purges, the refunds*)
(* and the restarts did, no rolling window holds more sent attempts than   *)
(* the RPM limit, nor more tokens than the TPM limit.                      *)
THEOREM RatesNeverExceeded ==
    ASSUME RatesKnown
    PROVE  Spec => []RateWindowBound
<1> DEFINE I == Tracked /\ Rated(Senders, Refused, rsv)
<1>1. Init => I
  <2> SUFFICES ASSUME Init PROVE I
    OBVIOUS
  <2>1. Senders = {}
    BY DEF Init, Senders
  <2>2. Tracked
    BY <2>1 DEF Tracked, Remembers
  <2>3. Rated(Senders, Refused, rsv)
    <3> SUFFICES ASSUME NEW t \in Int
                 PROVE  /\ Cardinality(StartedIn({}, rsv, t, RpmWindow)) <= MostRpm
                        /\ Total(TokensOf(rsv), StartedIn({} \ Refused, rsv, t, TpmWindow)) <= MostTpm
      BY <2>1 DEF Rated
    <3>1. StartedIn({}, rsv, t, RpmWindow) = {} /\ StartedIn({} \ Refused, rsv, t, TpmWindow) = {}
      BY DEF StartedIn
    <3>2. Cardinality({}) = 0 /\ Total(TokensOf(rsv), {}) = 0
      BY FS_EmptySet, TotalEmpty
    <3>3. MostRpm \in Nat /\ MostTpm \in Nat
      BY LargestRates
    <3> QED BY <3>1, <3>2, <3>3
  <2> QED BY <2>2, <2>3
<1>2. Inv /\ I /\ [Next]_vars => I'
  BY RatedStep
<1>3. Inv /\ I => RateWindowBound
  <2> SUFFICES ASSUME Inv, Rated(Senders, Refused, rsv), NEW t \in 1..MaxClock
               PROVE  /\ Cardinality(SentIn(t, RpmWindow)) <= MostRpm
                      /\ MapThenSumSet(LAMBDA a : rsv[a].tokens,
                            {a \in SentIn(t, TpmWindow) : wire[a] # "refused"}) <= MostTpm
    BY DEF RateWindowBound, RpmWindow, TpmWindow, MostRpm, MostTpm
  <2>0. rsv \in [Attempt -> Payload] /\ Senders \in SUBSET Attempt /\ t \in Int
    BY DEF Inv, TypeOK, Senders
  <2>1. Sent \subseteq Senders /\ Sent \subseteq Attempt
    BY DEF Sent, Senders
  <2>2. Rated(Sent, Refused, rsv)
    BY <2>0, <2>1, RatedFewer
  <2>3. /\ SentIn(t, RpmWindow) = StartedIn(Sent, rsv, t, RpmWindow)
        /\ {a \in SentIn(t, TpmWindow) : wire[a] # "refused"} = StartedIn(Sent \ Refused, rsv, t, TpmWindow)
    BY <2>1 DEF SentIn, StartedIn, Refused
  <2> DEFINE W == {a \in SentIn(t, TpmWindow) : wire[a] # "refused"}
  <2>4. W \in SUBSET Attempt
    BY <2>1 DEF SentIn
  <2> HIDE DEF W
  <2>5. MapThenSumSet(LAMBDA a : rsv[a].tokens, W) = Total(TokensOf(rsv), W)
    BY <2>4, TokensTotal DEF TokensOf
  <2>6. Total(TokensOf(rsv), W) <= MostTpm
    BY <2>0, <2>2, <2>3 DEF Rated, W
  <2>7. Cardinality(SentIn(t, RpmWindow)) <= MostRpm
    BY <2>0, <2>2, <2>3 DEF Rated
  <2>8. MapThenSumSet(LAMBDA a : rsv[a].tokens, W) <= MostTpm
    BY <2>5, <2>6
  <2> QED BY <2>7, <2>8 DEF W
<1> QED BY <1>1, <1>2, <1>3, Invariance, PTL DEF Spec

-----------------------------------------------------------------------------
(* The monthly quota.  While the period runs, both ledgers have charged    *)
(* every attempt they have not settled and every sender the provider did   *)
(* not turn away; once it is over it never starts again (Periods).         *)

(* The reset of the period, where all configurations name the same one.    *)
Reset == (CHOOSE c \in Config : TRUE).resetAt
MostQuota == Max({c.quota : c \in Config})

(* Every configuration limits the quota and names the same reset, every    *)
(* request is charged, and the quotas have a largest one.                  *)
QuotaKnown ==
    /\ \A c \in Config : c.quota # Unknown /\ c.resetAt = Reset
    /\ \E c \in Config : \A d \in Config : d.quota <= c.quota
    /\ \A r \in Request : r.quota > 0

(* The largest quota bounds every published one.                           *)
LEMMA LargestQuota ==
    ASSUME QuotaKnown
    PROVE  /\ MostQuota \in Nat /\ Reset \in Nat
           /\ \A c \in Config : c.quota <= MostQuota /\ c.quota \in Nat
<1> DEFINE P == {c.quota : c \in Config}
<1>0. \A c \in Config : c.quota \in Nat /\ c.resetAt \in Nat
  BY ConstantsAssumption DEF AccountConfig, Limit, QuotaKnown
<1>1. P \subseteq Nat
  BY <1>0
<1>2. \E x \in P : \A y \in P : x >= y
  BY <1>0 DEF QuotaKnown
<1>3. MostQuota \in P /\ \A y \in P : MostQuota >= y
  BY <1>2 DEF MostQuota, Max
<1>4. \A c \in Config : c.quota \in P
  OBVIOUS
<1>5. Reset \in Nat
  BY <1>0, ConstantsAssumption DEF QuotaKnown
<1> HIDE DEF P
<1> QED BY <1>0, <1>1, <1>3, <1>4, <1>5

(* What each attempt is charged.                                           *)
QuotasOf(q) == [a \in Attempt |-> q[a].quota]

(* What a ledger has to have charged: attempts it has not settled, and     *)
(* senders the provider did not turn away.                                 *)
Charged(L, S, R) == (Held(L) \ Resolved(L)) \cup (S \ R)

(* A ledger covers the senders in S, those in R turned away: its period is *)
(* the configured one, over, or not begun; and while it runs, the usage    *)
(* accounts for all that is charged to it.                                 *)
Covers(L, S, R, q) ==
    /\ L.reset \in {0, Reset, NoTime}
    /\ L.reset = 0 => L.hw >= Reset
    /\ L.reset = NoTime => Held(L) = {} /\ S = {}
    /\ L.reset = Reset /\ Reset # 0 => Total(QuotasOf(q), Charged(L, S, R)) <= L.used

(* Both ledgers cover the senders, and a period that is over on disk is    *)
(* over in memory.                                                         *)
Periods ==
    /\ Covers(disk, Senders, Refused, rsv)
    /\ Up => /\ Covers(mem, Senders, Refused, rsv) /\ mem.reset # NoTime
             /\ disk.reset = 0 => mem.reset = 0

(* Operations that charge nothing and give nothing back.                   *)
Spares(M, L) ==
    /\ M.reset = L.reset /\ M.used = L.used
    /\ L.hw \in Int /\ M.hw \in Int /\ M.hw >= L.hw
    /\ Held(M) \subseteq Held(L)
    /\ \A a \in Held(M) : M.resolved[a] = L.resolved[a]

(* Charging less needs no more.                                            *)
LEMMA ChargedLess ==
    ASSUME NEW A, NEW B \in SUBSET Attempt, A \subseteq B, NEW q \in [Attempt -> Payload]
    PROVE  /\ Total(QuotasOf(q), A) <= Total(QuotasOf(q), B)
           /\ Total(QuotasOf(q), A) \in Nat /\ Total(QuotasOf(q), B) \in Nat
<1>1. \A a \in Attempt : QuotasOf(q)[a] \in Nat
  BY DEF QuotasOf, Payload
<1>2. IsFiniteSet(B) /\ IsFiniteSet(A)
  BY ConstantsAssumption, FS_Subset
<1>3. \A a \in B : QuotasOf(q)[a] \in Nat
  BY <1>1
<1>4. \A a \in A : QuotasOf(q)[a] \in Nat /\ QuotasOf(q)[a] <= QuotasOf(q)[a]
  BY <1>3
<1>5. Total(QuotasOf(q), A) <= Total(QuotasOf(q), B)
  BY <1>2, <1>3, <1>4, TotalMono
<1> QED BY <1>2, <1>3, <1>4, <1>5, TotalNat

(* What is charged are attempts.                                           *)
LEMMA ChargedIn ==
    ASSUME NEW L, Sound(L), NEW S \in SUBSET Attempt, NEW R
    PROVE  Charged(L, S, R) \in SUBSET Attempt
  BY DEF Charged, Held, Sound, Ledger

(* A ledger that such an operation leaves covers what it covered.          *)
LEMMA SparesCovers ==
    ASSUME QuotaKnown, NEW L, NEW M, Sound(L), Spares(M, L),
           NEW S \in SUBSET Attempt, NEW T \in SUBSET S, NEW R, NEW Q, R \subseteq Q,
           NEW q \in [Attempt -> Payload], Covers(L, S, R, q)
    PROVE  Covers(M, T, Q, q)
<1>0. Reset \in Nat /\ L.hw \in Int /\ M.hw \in Int /\ M.hw >= L.hw /\ L.used \in Nat
  BY LargestQuota DEF Spares, Sound, Ledger
<1>1. Charged(M, T, Q) \subseteq Charged(L, S, R)
  <2>1. Held(L) \subseteq Attempt
    BY DEF Held, Sound, Ledger
  <2> QED BY <2>1 DEF Charged, Spares, Resolved
<1>2. /\ Total(QuotasOf(q), Charged(M, T, Q)) <= Total(QuotasOf(q), Charged(L, S, R))
      /\ Total(QuotasOf(q), Charged(M, T, Q)) \in Nat /\ Total(QuotasOf(q), Charged(L, S, R)) \in Nat
  BY <1>1, ChargedIn, ChargedLess
<1>3. M.reset = 0 => M.hw >= Reset
  BY <1>0 DEF Covers, Spares
<1>4. M.reset = Reset /\ Reset # 0 => Total(QuotasOf(q), Charged(M, T, Q)) <= M.used
  <2> SUFFICES ASSUME M.reset = Reset, Reset # 0
               PROVE  Total(QuotasOf(q), Charged(M, T, Q)) <= M.used
    OBVIOUS
  <2>1. Total(QuotasOf(q), Charged(L, S, R)) <= L.used /\ M.used = L.used
    BY DEF Covers, Spares
  <2> QED BY <1>0, <1>2, <2>1
<1>5. M.reset \in {0, Reset, NoTime} /\ (M.reset = NoTime => Held(M) = {} /\ T = {})
  BY DEF Covers, Spares
<1> QED BY <1>3, <1>4, <1>5 DEF Covers

(* Doing nothing is one of them.                                           *)
LEMMA SparesSelf == ASSUME NEW L, Sound(L) PROVE Spares(L, L)
<1>1. L.hw \in Int
  BY DEF Sound, Ledger
<1> QED BY <1>1 DEF Spares

(* So is doing two of them.                                                *)
LEMMA SparesTrans ==
    ASSUME NEW L, NEW M, NEW N, Spares(N, M), Spares(M, L)
    PROVE  Spares(N, L)
<1>1. /\ N.reset = L.reset /\ N.used = L.used /\ L.hw \in Int /\ N.hw \in Int /\ N.hw >= L.hw
  BY DEF Spares
<1>2. /\ Held(N) \subseteq Held(L) /\ \A a \in Held(N) : N.resolved[a] = L.resolved[a]
  BY DEF Spares
<1> QED BY <1>1, <1>2 DEF Spares

(* _now_ms: only the high-water moves.                                     *)
LEMMA TouchSpares ==
    ASSUME NEW L, Sound(L), clock \in Nat
    PROVE  Spares(Touch(L), L)
<1>1. L.hw \in Int /\ Now(L) \in Int /\ Now(L) >= L.hw
  BY DEF Sound, Ledger, Now, Larger
<1>2. /\ Touch(L).active = L.active /\ Touch(L).uncertain = L.uncertain
      /\ Touch(L).reset = L.reset /\ Touch(L).used = L.used
      /\ Touch(L).resolved = L.resolved /\ Touch(L).hw = Now(L)
  BY DEF Touch, Sound, Ledger
<1> QED BY <1>1, <1>2 DEF Spares, Held

(* _prune_resolutions forgets no resolution of a held attempt.             *)
LEMMA PruneSpares ==
    ASSUME NEW L, Sound(L), NEW now
    PROVE  Spares(PruneResolutions(L, now), L)
<1> DEFINE M == PruneResolutions(L, now)
<1>1. L.hw \in Int /\ Held(L) \subseteq Attempt
  BY DEF Sound, Ledger, Held
<1>2. /\ M.active = L.active /\ M.uncertain = L.uncertain
      /\ M.reset = L.reset /\ M.used = L.used /\ M.hw = L.hw
  BY DEF PruneResolutions, Sound, Ledger
<1>3. \A a \in Held(L) : M.resolved[a] = L.resolved[a]
  BY <1>1 DEF PruneResolutions, Sound, Ledger
<1> HIDE DEF M
<1>4. Spares(M, L)
  BY <1>1, <1>2, <1>3 DEF Spares, Held
<1> QED BY <1>4 DEF M

(* _purge_windows leaves the quota alone.                                  *)
LEMMA PurgeSpares ==
    ASSUME NEW L, Sound(L), NEW now
    PROVE  Spares(PurgeWindows(L, now), L)
<1> DEFINE M == PurgeWindows(L, now)
<1>1. L.hw \in Int
  BY DEF Sound, Ledger
<1>2. /\ M.active = L.active /\ M.uncertain = L.uncertain /\ M.resolved = L.resolved
      /\ M.reset = L.reset /\ M.used = L.used /\ M.hw = L.hw
  BY DEF PurgeWindows, Sound, Ledger
<1> HIDE DEF M
<1>4. Spares(M, L)
  BY <1>1, <1>2 DEF Spares, Held
<1> QED BY <1>4 DEF M

(* mark_dispatched, live and replayed.                                     *)
LEMMA DispatchedSpares ==
    ASSUME NEW L, Sound(L), NEW a
    PROVE  Spares(LiveDispatched(L, a), L) /\ Spares(ReplayDispatched(L, a), L)
<1>1. L.hw \in Int
  BY DEF Sound, Ledger
<1>2. Spares([L EXCEPT !.dispatched = @ \cup {a}], L) /\ Spares(Broken(L), L)
  BY <1>1 DEF Spares, Held, Broken, Sound, Ledger
<1> QED BY <1>2 DEF LiveDispatched, ReplayDispatched

(* A recovered attempt keeps its charge.                                   *)
LEMMA UncertainSpares ==
    ASSUME NEW L, Sound(L), NEW a
    PROVE  Spares(ReplayUncertain(L, a), L)
<1>1. L.hw \in Int
  BY DEF Sound, Ledger
<1>2. a \in Held(L) => Spares([L EXCEPT !.active = @ \ {a}, !.uncertain = @ \cup {a}], L)
  BY <1>1 DEF Spares, Held, Sound, Ledger
<1> QED BY <1>2, SparesSelf DEF ReplayUncertain

(* A count and a probe release slots; the charge stays.                    *)
LEMMA ObservedSpares ==
    ASSUME NEW L, Sound(L), NEW n \in Nat, NEW available \in BOOLEAN
    PROVE  /\ Spares(ApplyCount(L, n), L) /\ Spares(ProbeFinished(L, available), L)
           /\ Spares(LiveProbeStarted(L), L)
<1>0. L.hw \in Int
  BY DEF Sound, Ledger
<1>1. ASSUME NEW A PROVE /\ Release(L, A) \in Ledger /\ Spares(Release(L, A), L)
  <2> DEFINE M == Release(L, A)
  <2>1. /\ M.active = L.active \ A /\ M.uncertain = L.uncertain \ A /\ M.resolved = L.resolved
        /\ M.reset = L.reset /\ M.used = L.used /\ M.hw = L.hw
    BY DEF Release, Sound, Ledger
  <2>2. M \in Ledger
    BY ReleaseKeeps, AgreeSelf DEF Sound
  <2> HIDE DEF M
  <2>3. Spares(M, L)
    BY <1>0, <2>1 DEF Spares, Held
  <2> QED BY <2>2, <2>3 DEF M
<1>2. ASSUME NEW A, NEW h, NEW q
      PROVE  /\ Spares([Release(L, A) EXCEPT !.holds = h, !.probing = q], L)
             /\ Spares([Release(L, A) EXCEPT !.holds = h], L)
  <2> DEFINE M == Release(L, A)
  <2>1. M \in Ledger /\ Spares(M, L)
    BY <1>1
  <2> HIDE DEF M
  <2>2. /\ Spares([M EXCEPT !.holds = h, !.probing = q], L)
        /\ Spares([M EXCEPT !.holds = h], L)
    BY <2>1 DEF Ledger, Spares, Held
  <2> QED BY <2>2 DEF M
<1>3. Spares(Broken(L), L) /\ Spares(LiveProbeStarted(L), L)
  BY <1>0 DEF Broken, LiveProbeStarted, Spares, Held, Sound, Ledger
<1>4. ApplyCount(L, n) = Broken(L) \/ \E A, h : ApplyCount(L, n) = [Release(L, A) EXCEPT !.holds = h]
  BY DEF ApplyCount
<1>5. \E A, h : ProbeFinished(L, available) = [Release(L, A) EXCEPT !.holds = h, !.probing = "no"]
  BY DEF ProbeFinished
<1>6. Spares(ApplyCount(L, n), L)
  <2>1. CASE ApplyCount(L, n) = Broken(L)
    BY <1>3, <2>1
  <2>2. CASE ApplyCount(L, n) # Broken(L)
    <3>1. PICK A, h : ApplyCount(L, n) = [Release(L, A) EXCEPT !.holds = h]
      BY <1>4, <2>2
    <3>2. Spares([Release(L, A) EXCEPT !.holds = h], L)
      BY <1>2
    <3> QED BY <3>1, <3>2, Zenon
  <2> QED BY <2>1, <2>2
<1>7. Spares(ProbeFinished(L, available), L)
  <2>1. PICK A, h : ProbeFinished(L, available) = [Release(L, A) EXCEPT !.holds = h, !.probing = "no"]
    BY <1>5
  <2>2. Spares([Release(L, A) EXCEPT !.holds = h, !.probing = "no"], L)
    BY <1>2
  <2> QED BY <2>1, <2>2, Zenon
<1> QED BY <1>3, <1>6, <1>7

(* compare_and_swap_circuit.                                               *)
LEMMA CircuitSpares ==
    ASSUME NEW L, Sound(L), NEW s, NEW v
    PROVE  Spares(SetCircuit(L, s, v), L)
<1>1. L.hw \in Int
  BY DEF Sound, Ledger
<1> QED BY <1>1 DEF SetCircuit, Spares, Held, Sound, Ledger

(* _roll_monthly: the period is over.                                      *)
LEMMA RollCovers ==
    ASSUME QuotaKnown, NEW L, Sound(L), NEW S \in SUBSET Attempt, NEW R, NEW q,
           Covers(L, S, R, q), L.reset # NoTime
    PROVE  /\ Covers(RollMonthly(L, L.hw), S, R, q) /\ RollMonthly(L, L.hw).reset # NoTime
           /\ L.reset = 0 => RollMonthly(L, L.hw).reset = 0
           /\ RollMonthly(L, L.hw).reset # 0 => RollMonthly(L, L.hw) = L
<1>0. Reset \in Nat /\ L.hw \in Int /\ 0 # NoTime
  BY LargestQuota DEF Sound, Ledger, NoTime
<1>1. CASE L.reset # 0 /\ L.hw >= L.reset
  <2> DEFINE M == [L EXCEPT !.used = 0, !.reset = 0]
  <2>1. RollMonthly(L, L.hw) = M
    BY <1>1 DEF RollMonthly
  <2>2. M.reset = 0 /\ M.hw = L.hw
    BY DEF Sound, Ledger
  <2>3. L.reset = Reset
    BY <1>1 DEF Covers
  <2> HIDE DEF M
  <2>4. Covers(M, S, R, q)
    BY <1>0, <1>1, <2>2, <2>3 DEF Covers
  <2> QED BY <1>0, <1>1, <2>1, <2>2, <2>4
<1>2. CASE ~(L.reset # 0 /\ L.hw >= L.reset)
  BY <1>2 DEF RollMonthly
<1> QED BY <1>1, <1>2

(* update_account names the same reset again.                              *)
LEMMA UpdateCovers ==
    ASSUME QuotaKnown, NEW L, Sound(L), NEW S \in SUBSET Attempt, NEW R, NEW q,
           Covers(Touch(L), S, R, q), L.reset # NoTime, NEW c \in Config, clock \in Nat
    PROVE  /\ Covers(UpdateAccount(L, c), S, R, q) /\ UpdateAccount(L, c).reset # NoTime
           /\ L.reset = 0 => UpdateAccount(L, c).reset = 0
<1> DEFINE T == Touch(L)
           N == RollMonthly(T, Now(L))
           candidate == NextMonthlyReset(c, Now(L))
           t == IF N.reset = 0 \/ candidate > N.reset THEN candidate ELSE N.reset
<1>1. Sound(T) /\ T.hw = Now(L) /\ T.reset = L.reset
  BY TouchKeeps, TouchRecalls, TouchSpares, AgreeSelf DEF Spares
<1>2. /\ Covers(N, S, R, q) /\ N.reset # NoTime /\ (T.reset = 0 => N.reset = 0) /\ N.hw = Now(L)
  <2> HIDE DEF T
  <2>1. N = RollMonthly(T, T.hw)
    BY <1>1
  <2>2. N.hw = T.hw
    BY <1>1, <2>1, RollRecalls
  <2> HIDE DEF N
  <2> QED BY <1>1, <2>1, <2>2, RollCovers DEF T
<1>3. Sound(N)
  <2>1. Agree(T, T) /\ Now(L) \in Int
    BY TouchKeeps, AgreeSelf
  <2> HIDE DEF T
  <2> QED BY <1>1, <2>1, RollKeeps
<1>4. UpdateAccount(L, c) = [N EXCEPT !.reset = t]
  BY DEF UpdateAccount
<1>5. t = N.reset
  <2>1. /\ c.resetAt = Reset /\ c.quota # Unknown /\ Reset \in Nat /\ Now(L) \in Int
    BY <1>1, LargestQuota DEF QuotaKnown, Sound, Ledger
  <2>2. N.reset \in {0, Reset} /\ (N.reset = 0 => Now(L) >= Reset)
    BY <1>2 DEF Covers
  <2> HIDE DEF N
  <2>3. candidate \in {0, Reset} /\ (Now(L) >= Reset => candidate = 0)
    BY <2>1 DEF NextMonthlyReset
  <2> HIDE DEF candidate
  <2> QED BY <2>1, <2>2, <2>3
<1> HIDE DEF t, N
<1>6. [N EXCEPT !.reset = t] = N
  BY <1>3, <1>5 DEF Sound, Ledger
<1> QED BY <1>1, <1>2, <1>4, <1>6

(* A restart neither forgets a charge nor starts the period again.         *)
LEMMA RebuiltCovers ==
    ASSUME QuotaKnown, Inv, NEW S \in SUBSET Attempt, NEW R,
           Covers(disk, S, R, rsv)
    PROVE  /\ Covers(Rebuilt, S, R, rsv) /\ Rebuilt.reset # NoTime
           /\ disk.reset = 0 => Rebuilt.reset = 0
<1> DEFINE h == IF disk.hw = NoTime THEN clock ELSE disk.hw
           t == IF disk.reset = NoTime THEN NextMonthlyReset(cfg, clock) ELSE disk.reset
           D == [disk EXCEPT !.hw = h, !.reset = t]
<1>0. Sound(disk) /\ cfg \in Config /\ clock \in Nat /\ rsv \in [Attempt -> Payload] /\ Reset \in Nat
      /\ disk.hw \in Int /\ disk.reset \in Int
  BY LargestQuota DEF Inv, TypeOK, Ledger
<1>1. h \in Int /\ t \in Int /\ h >= disk.hw
  BY <1>0, ConstantsAssumption DEF NextMonthlyReset, AccountConfig, NoTime
<1>2. Rebuilt = UpdateAccount(D, cfg)
  BY <1>0 DEF Rebuilt, Sound, Ledger
<1>3. /\ t # NoTime /\ (disk.reset = 0 => t = 0)
      /\ disk.reset = NoTime => t \in {0, Reset} /\ (t = 0 => clock >= Reset)
  BY <1>0 DEF NextMonthlyReset, QuotaKnown, NoTime, Unknown
<1>4. disk.reset # NoTime => t = disk.reset
  OBVIOUS
<1> HIDE DEF h, t
<1>5. /\ D \in Ledger /\ D.hw = h /\ D.reset = t /\ D.used = disk.used
      /\ D.active = disk.active /\ D.uncertain = disk.uncertain /\ D.resolved = disk.resolved
      /\ D.starts = disk.starts /\ D.replayable = disk.replayable
  BY <1>0, <1>1 DEF Sound, Ledger
<1> HIDE DEF D
<1>6. Sound(D) /\ Held(D) = Held(disk)
  BY <1>0, <1>5 DEF Sound, Held
<1>7. Spares(Touch(D), D) /\ Touch(D).hw = Now(D) /\ Now(D) \in Int /\ Now(D) >= clock
  <2>1. Spares(Touch(D), D) /\ Touch(D).hw = Now(D)
    BY <1>0, <1>6, TouchSpares, TouchRecalls
  <2> QED BY <1>0, <1>1, <1>5, <2>1 DEF Now, Larger
<1>8. Covers(Touch(D), S, R, rsv)
  <2>1. CASE disk.reset # NoTime
    <3>1. Spares(D, disk)
      BY <1>0, <1>1, <1>4, <1>5, <1>6, <2>1 DEF Spares
    <3>2. Spares(Touch(D), disk)
      BY <1>7, <3>1, SparesTrans
    <3> QED BY <1>0, <3>2, SparesCovers
  <2>2. CASE disk.reset = NoTime
    <3>1. Held(disk) = {} /\ S = {} /\ disk.used \in Nat
      BY <1>0, <2>2 DEF Covers, Sound, Ledger
    <3>2. Held(Touch(D)) = {} /\ Touch(D).reset = t /\ Touch(D).used \in Nat
      BY <1>5, <1>6, <1>7, <3>1 DEF Spares
    <3>3. Charged(Touch(D), S, R) = {}
      BY <3>1, <3>2 DEF Charged
    <3>4. Total(QuotasOf(rsv), {}) <= Touch(D).used
      BY <3>2, TotalEmpty
    <3>5. t = 0 => Touch(D).hw >= Reset
      BY <1>0, <1>3, <1>7, <2>2
    <3> QED BY <1>3, <2>2, <3>2, <3>3, <3>4, <3>5 DEF Covers
  <2> QED BY <2>1, <2>2
<1>9. /\ Covers(UpdateAccount(D, cfg), S, R, rsv) /\ UpdateAccount(D, cfg).reset # NoTime
      /\ D.reset = 0 => UpdateAccount(D, cfg).reset = 0
  BY <1>0, <1>3, <1>5, <1>6, <1>8, UpdateCovers
<1> QED BY <1>2, <1>3, <1>5, <1>9

(* A resolution gives back no more than the attempt was charged.           *)
LEMMA RefundCovers ==
    ASSUME QuotaKnown, NEW L, NEW M, Sound(L), NEW S \in SUBSET Attempt, NEW R,
           rsv \in [Attempt -> Payload], Covers(L, S, R, rsv),
           NEW a \in Held(L) \ Resolved(L), NEW at, at # NoTime,
           NEW k \in Resolution, Refundable(a, k, S, R),
           Held(M) \subseteq Held(L), M.resolved = [L.resolved EXCEPT ![a] = at],
           M.reset = L.reset, M.hw = L.hw,
           M.used = L.used \/ (ChargeRefunded(k) /\ M.used = Monus(L.used, rsv[a].quota))
    PROVE  Covers(M, S, R, rsv)
<1> DEFINE C == Charged(L, S, R)
           D == Charged(M, S, R)
           g == QuotasOf(rsv)
<1>0. /\ Held(L) \subseteq Attempt /\ a \in Attempt /\ L.resolved \in [Attempt -> Int]
      /\ L.used \in Nat
  BY DEF Sound, Ledger, Held
<1>1. a \notin Held(M) \ Resolved(M) /\ Held(M) \ Resolved(M) \subseteq Held(L) \ Resolved(L)
  BY <1>0 DEF Resolved
<1>2. C \in SUBSET Attempt /\ D \subseteq C /\ a \in C
  BY <1>1, ChargedIn DEF Charged
<1>3. ChargeRefunded(k) => D \subseteq C \ {a}
  <2>1. ChargeRefunded(k) => a \notin S \ R
    BY DEF ChargeRefunded, Refundable
  <2> QED BY <1>1, <1>2, <2>1 DEF Charged
<1>4. g[a] = rsv[a].quota /\ rsv[a].quota \in Nat
  BY <1>0 DEF QuotasOf, Payload
<1>5. Total(g, C) = g[a] + Total(g, C \ {a})
  <2>1. IsFiniteSet(C) /\ \A b \in C : g[b] \in Nat
    BY <1>2, ConstantsAssumption, FS_Subset DEF QuotasOf, Payload
  <2> HIDE DEF g, C
  <2> QED BY <1>2, <2>1, TotalSplit
<1>6. /\ Total(g, D) <= Total(g, C) /\ Total(g, D) \in Nat /\ Total(g, C) \in Nat
  BY <1>2, ChargedLess
<1>7. /\ ChargeRefunded(k) => Total(g, D) <= Total(g, C \ {a})
      /\ Total(g, C \ {a}) \in Nat
  <2>1. C \ {a} \in SUBSET Attempt
    BY <1>2
  <2> HIDE DEF C, D
  <2>2. Total(g, C \ {a}) \in Nat
    BY <2>1, ChargedLess
  <2>3. ChargeRefunded(k) => Total(g, D) <= Total(g, C \ {a})
    BY <1>3, <2>1, ChargedLess
  <2> QED BY <2>2, <2>3
<1> HIDE DEF C, D, g
<1>8. M.reset = Reset /\ Reset # 0 => Total(g, D) <= M.used
  <2> SUFFICES ASSUME M.reset = Reset, Reset # 0 PROVE Total(g, D) <= M.used
    OBVIOUS
  <2>1. Total(g, C) <= L.used
    BY DEF Covers, C, g
  <2>2. CASE M.used = L.used
    BY <1>0, <1>6, <2>1, <2>2
  <2>3. CASE ChargeRefunded(k) /\ M.used = Monus(L.used, rsv[a].quota)
    <3>1. Total(g, D) <= Total(g, C \ {a}) /\ L.used >= rsv[a].quota
      BY <1>0, <1>4, <1>5, <1>7, <2>1, <2>3
    <3>2. M.used = L.used - rsv[a].quota
      BY <2>3, <3>1 DEF Monus
    <3> QED BY <1>0, <1>4, <1>5, <1>6, <1>7, <2>1, <3>1, <3>2
  <2> QED BY <2>2, <2>3
<1>9. M.reset = NoTime => Held(M) = {} /\ S = {}
  BY DEF Covers
<1> QED BY <1>8, <1>9 DEF Covers, D, g

(* The same for the live resolution and for its replay.                    *)
LEMMA ResolvedCovers ==
    ASSUME QuotaKnown, NEW L, Sound(L), NEW S \in SUBSET Attempt, NEW R,
           rsv \in [Attempt -> Payload], Covers(L, S, R, rsv),
           NEW a \in Held(L) \ Resolved(L), NEW at, at # NoTime,
           NEW k \in Resolution, Refundable(a, k, S, R)
    PROVE  /\ Covers(LiveResolved(L, a, k, at), S, R, rsv)
           /\ Covers(ReplayResolved(L, a, k, at), S, R, rsv)
           /\ LiveResolved(L, a, k, at).reset = L.reset
           /\ ReplayResolved(L, a, k, at).reset = L.reset
<1>0. a \in Attempt /\ L.resolved[a] = NoTime /\ a \in L.starts
  BY DEF Resolved, Sound, Ledger, Held
<1>1. ASSUME NEW w, w = L.used \/ (ChargeRefunded(k) /\ w = Monus(L.used, rsv[a].quota))
      PROVE  /\ Covers([Settle(L, a, k) EXCEPT !.used = w, !.resolved[a] = at], S, R, rsv)
             /\ [Settle(L, a, k) EXCEPT !.used = w, !.resolved[a] = at].reset = L.reset
  <2> DEFINE N == Settle(L, a, k)
             M == [N EXCEPT !.used = w, !.resolved[a] = at]
  <2>1. /\ N.active = L.active \ {a} /\ N.reset = L.reset /\ N.hw = L.hw /\ N.resolved = L.resolved
        /\ N.uncertain = IF k = "ambiguous" THEN L.uncertain \cup {a} ELSE L.uncertain \ {a}
    BY DEF Settle, Sound, Ledger
  <2>2. /\ M.active = N.active /\ M.uncertain = N.uncertain /\ M.reset = N.reset /\ M.hw = N.hw
        /\ M.resolved = [N.resolved EXCEPT ![a] = at] /\ M.used = w
    BY DEF Settle, Sound, Ledger
  <2> HIDE DEF M, N
  <2>3. Held(M) \subseteq Held(L)
    BY <2>1, <2>2 DEF Held
  <2>4. /\ M.resolved = [L.resolved EXCEPT ![a] = at] /\ M.reset = L.reset /\ M.hw = L.hw
        /\ M.used = L.used \/ (ChargeRefunded(k) /\ M.used = Monus(L.used, rsv[a].quota))
    BY <1>1, <2>1, <2>2
  <2>5. Covers(M, S, R, rsv)
    BY <2>3, <2>4, RefundCovers
  <2> QED BY <2>4, <2>5 DEF M, N
<1>2. Settle(L, a, k).used = L.used
  BY DEF Settle, Sound, Ledger
<1>3. \E w : /\ LiveResolved(L, a, k, at) = [Settle(L, a, k) EXCEPT !.used = w, !.resolved[a] = at]
             /\ w = L.used \/ (ChargeRefunded(k) /\ w = Monus(L.used, rsv[a].quota))
  BY <1>2 DEF LiveResolved
<1>4. \E w : /\ ReplayResolved(L, a, k, at) = [Settle(L, a, k) EXCEPT !.used = w, !.resolved[a] = at]
             /\ w = L.used \/ (ChargeRefunded(k) /\ w = Monus(L.used, rsv[a].quota))
  BY <1>0, <1>2 DEF ReplayResolved
<1>5. Covers(LiveResolved(L, a, k, at), S, R, rsv) /\ LiveResolved(L, a, k, at).reset = L.reset
  <2>1. PICK w : /\ LiveResolved(L, a, k, at) = [Settle(L, a, k) EXCEPT !.used = w, !.resolved[a] = at]
                 /\ w = L.used \/ (ChargeRefunded(k) /\ w = Monus(L.used, rsv[a].quota))
    BY <1>3
  <2>2. /\ Covers([Settle(L, a, k) EXCEPT !.used = w, !.resolved[a] = at], S, R, rsv)
        /\ [Settle(L, a, k) EXCEPT !.used = w, !.resolved[a] = at].reset = L.reset
    BY <1>1, <2>1
  <2> QED BY <2>1, <2>2, Zenon
<1>6. Covers(ReplayResolved(L, a, k, at), S, R, rsv) /\ ReplayResolved(L, a, k, at).reset = L.reset
  <2>1. PICK w : /\ ReplayResolved(L, a, k, at) = [Settle(L, a, k) EXCEPT !.used = w, !.resolved[a] = at]
                 /\ w = L.used \/ (ChargeRefunded(k) /\ w = Monus(L.used, rsv[a].quota))
    BY <1>4
  <2>2. /\ Covers([Settle(L, a, k) EXCEPT !.used = w, !.resolved[a] = at], S, R, rsv)
        /\ [Settle(L, a, k) EXCEPT !.used = w, !.resolved[a] = at].reset = L.reset
    BY <1>1, <2>1
  <2> QED BY <2>1, <2>2, Zenon
<1> QED BY <1>5, <1>6

(* Q is q with the payload of attempt a filled in.                         *)
Enters(Q, q, a, p) ==
    /\ Q \in [Attempt -> Payload] /\ Q[a] = p
    /\ \A b \in Attempt \ {a} : Q[b] = q[b]

(* A payload of the running period for an attempt the ledger does not know.*)
Chargeable(L, S, R, q, a, p, Q) ==
    /\ Sound(L) /\ S \in SUBSET Attempt /\ q \in [Attempt -> Payload] /\ Covers(L, S, R, q)
    /\ a \in Attempt /\ a \notin Held(L) \cup S
    /\ p \in Payload /\ p.reset = Reset /\ Reset # 0
    /\ Enters(Q, q, a, p)

(* A reservation in the running period is charged to it, live and replayed.*)
LEMMA ReservedCovers ==
    ASSUME QuotaKnown, NEW L, NEW S, NEW R, NEW q, NEW a, NEW p, NEW Q,
           Chargeable(L, S, R, q, a, p, Q)
    PROVE  /\ Covers(L, S, R, Q)
           /\ L.reset # 0 => /\ Covers(ReplayReserved(L, a, p), S \cup {a}, R, Q)
                             /\ ReplayReserved(L, a, p).reset = Reset
           /\ L.reset = Reset => /\ Covers(LiveReserved(L, a, p), S \cup {a}, R, Q)
                                 /\ LiveReserved(L, a, p).reset = Reset
<1> USE DEF Chargeable
<1> DEFINE C == Charged(L, S, R)
           u == IF L.reset = Reset THEN L.used ELSE 0
<1>0. /\ Reset \in Nat /\ Reset # NoTime /\ L.used \in Nat /\ p.quota \in Nat
  BY LargestQuota DEF Sound, Ledger, Payload, NoTime
<1>1. C \in SUBSET Attempt /\ a \notin C
  BY ChargedIn DEF Charged
<1>2. /\ Q \in [Attempt -> Payload] /\ QuotasOf(Q)[a] = p.quota
      /\ \A b \in C : QuotasOf(Q)[b] = QuotasOf(q)[b]
  BY <1>1 DEF QuotasOf, Enters
<1>3. /\ \A b \in Attempt : QuotasOf(Q)[b] \in Nat
      /\ \A b \in Attempt : QuotasOf(q)[b] \in Nat
  BY <1>2 DEF QuotasOf, Payload
<1>4. IsFiniteSet(C) /\ C \cup {a} \in SUBSET Attempt
  BY <1>1, ConstantsAssumption, FS_Subset
<1> HIDE DEF C
<1>5. /\ Total(QuotasOf(Q), C) <= Total(QuotasOf(q), C)
      /\ Total(QuotasOf(Q), C) \in Nat /\ Total(QuotasOf(q), C) \in Nat
  <2>1. \A b \in C : QuotasOf(Q)[b] \in Nat /\ QuotasOf(Q)[b] <= QuotasOf(q)[b]
    BY <1>1, <1>2, <1>3
  <2>2. \A b \in C : QuotasOf(q)[b] \in Nat
    BY <1>1, <1>3
  <2> QED BY <1>4, <2>1, <2>2, TotalMono, TotalNat
<1>6. Covers(L, S, R, Q)
  <2>1. L.reset = Reset => Total(QuotasOf(Q), C) <= L.used
    <3> SUFFICES ASSUME L.reset = Reset PROVE Total(QuotasOf(Q), C) <= L.used
      OBVIOUS
    <3>1. Total(QuotasOf(q), C) <= L.used
      BY DEF Covers, C
    <3> QED BY <1>0, <1>5, <3>1
  <2> QED BY <2>1 DEF Covers, C
<1>7. ASSUME L.reset # 0 PROVE Total(QuotasOf(Q), C) <= u /\ u \in Nat
  <2>1. CASE L.reset = Reset
    <3>1. Total(QuotasOf(Q), C) <= L.used
      BY <1>6, <2>1 DEF Covers, C
    <3> QED BY <1>0, <2>1, <3>1
  <2>2. CASE L.reset # Reset
    <3>1. L.reset = NoTime
      BY <1>7, <2>2 DEF Covers
    <3>2. C = {}
      BY <3>1 DEF Covers, C, Charged
    <3>3. Total(QuotasOf(Q), C) = 0
      BY <3>2, TotalEmpty
    <3> QED BY <2>2, <3>3
  <2> QED BY <2>1, <2>2
<1>8. ASSUME L.reset # 0, NEW M, Held(M) = Held(L) \cup {a}, M.resolved = L.resolved, M.reset = Reset,
             M.used = u + p.quota
      PROVE  Covers(M, S \cup {a}, R, Q)
  <2> DEFINE D == Charged(M, S \cup {a}, R)
  <2>1. D \subseteq C \cup {a}
    BY <1>8 DEF Charged, C, Resolved
  <2> HIDE DEF D
  <2>2. Total(QuotasOf(Q), D) <= Total(QuotasOf(Q), C \cup {a}) /\ Total(QuotasOf(Q), D) \in Nat
    BY <1>2, <1>4, <2>1, ChargedLess
  <2>3. Total(QuotasOf(Q), C \cup {a}) = QuotasOf(Q)[a] + Total(QuotasOf(Q), C)
    <3>1. \A b \in C \cup {a} : QuotasOf(Q)[b] \in Nat
      BY <1>3, <1>4
    <3> QED BY <1>1, <1>4, <3>1, TotalAdd
  <2>4. Total(QuotasOf(Q), C \cup {a}) = p.quota + Total(QuotasOf(Q), C)
    BY <1>2, <2>3
  <2>5. Total(QuotasOf(Q), C) <= u /\ u \in Nat
    BY <1>7, <1>8
  <2> HIDE DEF u
  <2>6. Total(QuotasOf(Q), D) <= M.used
    BY <1>0, <1>5, <1>8, <2>2, <2>4, <2>5
  <2> QED BY <1>0, <1>8, <2>6 DEF Covers, D
<1>9. L.reset # 0 => /\ Covers(ReplayReserved(L, a, p), S \cup {a}, R, Q)
                     /\ ReplayReserved(L, a, p).reset = Reset
  <2> SUFFICES ASSUME L.reset # 0
               PROVE  /\ Covers(ReplayReserved(L, a, p), S \cup {a}, R, Q)
                      /\ ReplayReserved(L, a, p).reset = Reset
    OBVIOUS
  <2> DEFINE M == ReplayReserved(L, a, p)
  <2>1. /\ M.active = L.active \cup {a} /\ M.uncertain = L.uncertain /\ M.resolved = L.resolved
        /\ M.reset = Reset /\ M.used = u + p.quota
    BY DEF ReplayReserved, Sound, Ledger
  <2> HIDE DEF M, u
  <2>2. Held(M) = Held(L) \cup {a}
    BY <2>1 DEF Held
  <2>3. Covers(M, S \cup {a}, R, Q)
    BY <1>8, <2>1, <2>2
  <2> QED BY <2>1, <2>3 DEF M
<1>10. L.reset = Reset => /\ Covers(LiveReserved(L, a, p), S \cup {a}, R, Q)
                          /\ LiveReserved(L, a, p).reset = Reset
  <2> SUFFICES ASSUME L.reset = Reset
               PROVE  /\ Covers(LiveReserved(L, a, p), S \cup {a}, R, Q)
                      /\ LiveReserved(L, a, p).reset = Reset
    OBVIOUS
  <2> DEFINE M == LiveReserved(L, a, p)
  <2>1. /\ M.active = L.active \cup {a} /\ M.uncertain = L.uncertain /\ M.resolved = L.resolved
        /\ M.reset = L.reset /\ M.used = L.used + p.quota
    BY DEF LiveReserved, Sound, Ledger
  <2>4. M.used = u + p.quota
    BY <2>1
  <2> HIDE DEF M, u
  <2>2. Held(M) = Held(L) \cup {a}
    BY <2>1 DEF Held
  <2>3. Covers(M, S \cup {a}, R, Q)
    BY <1>8, <2>1, <2>2, <2>4
  <2> QED BY <2>1, <2>3 DEF M
<1> QED BY <1>6, <1>9, <1>10

(* Fewer senders are covered as well.                                      *)
LEMMA FewerCovers ==
    ASSUME QuotaKnown, Inv, Periods, Fewer
    PROVE  /\ Covers(disk, Senders', Refused', rsv)
           /\ Up => Covers(mem, Senders', Refused', rsv)
<1>1. /\ Sound(disk) /\ Sound(mem) /\ rsv \in [Attempt -> Payload] /\ Senders \in SUBSET Attempt
      /\ Senders' \in SUBSET Senders /\ Refused \subseteq Refused'
  BY DEF Inv, TypeOK, Senders, Fewer
<1>2. Spares(disk, disk) /\ Spares(mem, mem)
  BY <1>1, SparesSelf
<1>3. Covers(disk, Senders, Refused, rsv) /\ (Up => Covers(mem, Senders, Refused, rsv))
  BY DEF Periods
<1> HIDE DEF Senders, Refused
<1> QED BY <1>1, <1>2, <1>3, SparesCovers

(* The rolling of the period is what the two ledgers agree on.             *)
LEMMA PeriodsFrom ==
    ASSUME QuotaKnown, Inv, Periods, Fewer, Up, NEW before, NEW live, NEW replayed,
           mem' \in {before, live}, disk' \in {disk, live, replayed},
           Covers(before, Senders', Refused', rsv), Covers(live, Senders', Refused', rsv),
           Covers(replayed, Senders', Refused', rsv),
           before.reset = live.reset, live.reset # NoTime, mem.reset = 0 => live.reset = 0,
           replayed.reset = 0 => disk.reset = 0
    PROVE  Periods'
<1>1. Covers(disk, Senders', Refused', rsv) /\ rsv' = rsv
  BY FewerCovers DEF Fewer
<1>2. Covers(disk', Senders', Refused', rsv') /\ Covers(mem', Senders', Refused', rsv')
  BY <1>1
<1>3. mem'.reset # NoTime /\ (disk'.reset = 0 => mem'.reset = 0)
  BY DEF Periods
<1> QED BY <1>2, <1>3 DEF Periods, Covers, Reset, QuotasOf, Charged

(* Steps that charge nothing and give nothing back.                        *)
LEMMA SparedStep ==
    ASSUME QuotaKnown, Inv, Periods, Fewer, Up, NEW before, NEW live, NEW replayed,
           mem' \in {before, live}, disk' \in {disk, live, replayed},
           Spares(before, mem), Spares(live, mem), Spares(replayed, disk)
    PROVE  Periods'
<1>1. /\ Covers(disk, Senders', Refused', rsv) /\ Covers(mem, Senders', Refused', rsv)
  BY FewerCovers
<1>2. /\ Senders' \in SUBSET Attempt /\ rsv \in [Attempt -> Payload] /\ Sound(mem) /\ Sound(disk)
  BY DEF Senders, Inv, TypeOK
<1>3. /\ Covers(before, Senders', Refused', rsv) /\ Covers(live, Senders', Refused', rsv)
      /\ Covers(replayed, Senders', Refused', rsv)
  BY <1>1, <1>2, SparesCovers
<1>4. /\ before.reset = live.reset /\ live.reset # NoTime /\ (mem.reset = 0 => live.reset = 0)
      /\ replayed.reset = 0 => disk.reset = 0
  BY DEF Spares, Periods
<1> QED BY <1>3, <1>4, PeriodsFrom

(* A step that leaves the disk alone, and the live ledger unless it dies.  *)
LEMMA StillStep ==
    ASSUME QuotaKnown, Inv, Periods, Fewer, disk' = disk,
           status' \in {"down", "recovery_required"} \/ (mem' = mem /\ status' = status)
    PROVE  Periods'
<1>1. /\ Covers(disk, Senders', Refused', rsv) /\ rsv' = rsv
      /\ Up => Covers(mem, Senders', Refused', rsv)
  BY FewerCovers DEF Fewer
<1>2. Up' => Up /\ mem' = mem
  BY DEF Up
<1>3. /\ Covers(disk', Senders', Refused', rsv')
      /\ Up' => /\ Covers(mem', Senders', Refused', rsv') /\ mem'.reset # NoTime
                /\ disk'.reset = 0 => mem'.reset = 0
  BY <1>1, <1>2 DEF Periods
<1> QED BY <1>3 DEF Periods, Covers, Reset, QuotasOf, Charged

(* Reading the capacity purges, then rolls.                                *)
LEMMA FreshCovers ==
    ASSUME QuotaKnown, NEW L, Sound(L), L.hw \in Nat, NEW S \in SUBSET Attempt, NEW R,
           rsv \in [Attempt -> Payload], Covers(L, S, R, rsv), L.reset # NoTime
    PROVE  /\ Covers(RollMonthly(PurgeWindows(L, L.hw), L.hw), S, R, rsv)
           /\ RollMonthly(PurgeWindows(L, L.hw), L.hw).reset # NoTime
           /\ L.reset = 0 => RollMonthly(PurgeWindows(L, L.hw), L.hw).reset = 0
<1> DEFINE P == PurgeWindows(L, L.hw)
<1>1. Spares(P, L) /\ P.hw = L.hw
  BY PurgeSpares DEF PurgeWindows, Sound, Ledger
<1>2. Sound(P)
  <2>1. Agree(L, L) /\ L.hw \in Int
    BY AgreeSelf
  <2> QED BY <2>1, PurgeKeeps
<1> HIDE DEF P
<1>3. Covers(P, S, R, rsv) /\ P.reset = L.reset
  BY <1>1, SparesCovers DEF Spares
<1>4. /\ Covers(RollMonthly(P, P.hw), S, R, rsv) /\ RollMonthly(P, P.hw).reset # NoTime
      /\ P.reset = 0 => RollMonthly(P, P.hw).reset = 0
  BY <1>2, <1>3, RollCovers
<1> QED BY <1>1, <1>3, <1>4 DEF P

(* Each step other than a grant and a circuit transition.                  *)
LEMMA CalmPeriods == ASSUME QuotaKnown, Inv, Calm, Periods PROVE Periods'
<1>0. Fewer
  BY CalmFewer
<1>00. ASSUME Up PROVE /\ Sound(mem) /\ Sound(disk) /\ clock \in Nat /\ Agree(mem, disk)
                       /\ Spares(mem, mem) /\ Spares(disk, disk) /\ Spares(Touch(mem), mem)
                       /\ Sound(Touch(mem)) /\ Now(mem) \in Nat /\ Touch(mem).hw = Now(mem)
  BY <1>00, UpFacts, SparesSelf, TouchSpares, TouchRecalls, TouchKeeps
<1>01. Senders' \in SUBSET Attempt /\ rsv \in [Attempt -> Payload]
  BY DEF Senders, Inv, TypeOK
<1>1. ASSUME NEW a \in Attempt, MarkDispatched(a) PROVE Periods'
  <2> DEFINE m == Touch(mem)
             live == LiveDispatched(m, a)
             replayed == ReplayDispatched(disk, a)
  <2>1. Up
    BY <1>1 DEF MarkDispatched, Serving, Up
  <2>2. Spares(m, mem) /\ Spares(live, m) /\ Spares(replayed, disk)
    BY <1>00, <2>1, DispatchedSpares
  <2>3. Spares(live, mem)
    BY <2>2, SparesTrans
  <2>4. mem' \in {m, live} /\ disk' \in {disk, live, replayed}
    BY <1>1, CommitEnds DEF MarkDispatched
  <2> HIDE DEF m, live, replayed
  <2> QED BY <1>0, <2>1, <2>2, <2>3, <2>4, SparedStep
<1>2. ASSUME NEW a \in Attempt, RecoverAttempt(a) PROVE Periods'
  <2>1. Up
    BY <1>2 DEF RecoverAttempt, Up
  <2>2. Spares(ReplayUncertain(mem, a), mem) /\ Spares(ReplayUncertain(disk, a), disk)
    BY <1>00, <2>1, UncertainSpares
  <2>3. /\ mem' \in {mem, ReplayUncertain(mem, a)}
        /\ disk' \in {disk, ReplayUncertain(mem, a), ReplayUncertain(disk, a)}
    BY <1>2 DEF RecoverAttempt, AppendFails
  <2> QED BY <1>0, <1>00, <2>1, <2>2, <2>3, SparedStep
<1>3. ASSUME NEW a \in Attempt, NEW k \in Resolution, Finish(a, k) PROVE Periods'
  <2> DEFINE m == Touch(mem)
             now == Now(mem)
             live == LiveResolved(m, a, k, now)
             replayed == ReplayResolved(disk, a, k, now)
  <2>1. Up
    BY <1>3 DEF Finish, Serving, Up
  <2>3. Refundable(a, k, Senders', Refused')
    <3>1. lease'[a] = "none" /\ wire' = wire /\ Truthful(a, k)
      BY <1>3 DEF Finish, Inv, TypeOK
    <3> QED BY <3>1 DEF Truthful, Resolution, Refundable, Senders, Refused
  <2>4. /\ Covers(disk, Senders', Refused', rsv) /\ Covers(mem, Senders', Refused', rsv)
    BY <1>0, <2>1, FewerCovers
  <2>5. Covers(m, Senders', Refused', rsv) /\ Sound(m) /\ Sound(disk) /\ Sound(mem) /\ now # NoTime
    <3>1. Sound(mem) /\ Sound(m) /\ Sound(disk) /\ Spares(m, mem) /\ now \in Nat
      BY <1>00, <2>1
    <3>2. now # NoTime
      BY <3>1 DEF NoTime
    <3> HIDE DEF m, now
    <3>3. Covers(m, Senders', Refused', rsv)
      BY <1>01, <2>4, <3>1, SparesCovers
    <3> QED BY <3>1, <3>2, <3>3
  <2>6. a \in Held(m) \ Resolved(m) /\ a \in Held(disk) \ Resolved(disk)
    <3>1. a \in Held(mem) \ Resolved(mem)
      BY <1>3 DEF Finish
    <3>2. Held(m) = Held(mem) /\ Resolved(m) = Resolved(mem)
      BY <2>5 DEF Touch, Held, Resolved, Sound, Ledger
    <3>3. Agree(mem, disk) /\ Held(mem) = Held(disk)
      BY <2>1, UpFacts
    <3> HIDE DEF m
    <3> QED BY <3>1, <3>2, <3>3 DEF Agree, Resolved
  <2>7. mem' \in {m, live} /\ disk' \in {disk, live, replayed}
    BY <1>3, CommitEnds DEF Finish
  <2>8. m.reset = mem.reset
    BY <1>00, <2>1 DEF Spares
  <2>9. /\ Covers(live, Senders', Refused', rsv) /\ Covers(replayed, Senders', Refused', rsv)
        /\ live.reset = m.reset /\ replayed.reset = disk.reset
    <3> HIDE DEF m, now
    <3> QED BY <1>01, <2>3, <2>4, <2>5, <2>6, ResolvedCovers
  <2>10. mem.reset # NoTime
    BY <2>1 DEF Periods
  <2> HIDE DEF m, live, replayed
  <2> QED BY <1>0, <2>1, <2>5, <2>7, <2>8, <2>9, <2>10, PeriodsFrom
<1>4. CASE AuthoritativeCount
  <2> DEFINE n == Cardinality(Running)
  <2>1. Up /\ n \in Nat
    BY <1>4, UpFacts, Counted DEF AuthoritativeCount, Serving, Up
  <2>2. mem' \in {mem, ApplyCount(mem, n)} /\ disk' \in {disk, ApplyCount(mem, n), ApplyCount(disk, n)}
    BY <1>4, CommitEnds DEF AuthoritativeCount
  <2> HIDE DEF n
  <2>3. Spares(ApplyCount(mem, n), mem) /\ Spares(ApplyCount(disk, n), disk)
    BY <1>00, <2>1, ObservedSpares
  <2> QED BY <1>0, <1>00, <2>1, <2>2, <2>3, SparedStep
<1>5. CASE BeginRecoveryProbe
  <2>1. Up
    BY <1>5 DEF BeginRecoveryProbe, Serving, Up
  <2>2. /\ mem' \in {mem, LiveProbeStarted(mem)}
        /\ disk' \in {disk, LiveProbeStarted(mem), LiveProbeStarted(disk)}
    BY <1>5, CommitEnds DEF BeginRecoveryProbe
  <2>3. Spares(LiveProbeStarted(mem), mem) /\ Spares(LiveProbeStarted(disk), disk)
    BY <1>00, <2>1, ObservedSpares
  <2> QED BY <1>0, <1>00, <2>1, <2>2, <2>3, SparedStep
<1>6. ASSUME NEW available \in BOOLEAN, Up,
             mem' \in {mem, ProbeFinished(mem, available)},
             disk' \in {disk, ProbeFinished(mem, available), ProbeFinished(disk, available)}
      PROVE  Periods'
  <2>1. Spares(ProbeFinished(mem, available), mem) /\ Spares(ProbeFinished(disk, available), disk)
    BY <1>00, <1>6, ObservedSpares
  <2> QED BY <1>0, <1>00, <1>6, <2>1, SparedStep
<1>7. ASSUME NEW available \in BOOLEAN, FinishRecoveryProbe(available) PROVE Periods'
  BY <1>6, <1>7, CommitEnds DEF FinishRecoveryProbe, Serving, Up
<1>8. CASE RecoverProbe
  <2>1. /\ Up /\ mem' \in {mem, ProbeFinished(mem, FALSE)}
        /\ disk' \in {disk, ProbeFinished(mem, FALSE), ProbeFinished(disk, FALSE)}
    BY <1>8 DEF RecoverProbe, AppendFails, Up
  <2> QED BY <1>6, <2>1
<1>9. ASSUME NEW c \in Config, Publish(c) PROVE Periods'
  <2> DEFINE m == UpdateAccount(mem, c)
  <2>1. Up
    BY <1>9 DEF Publish, Serving, Up
  <2>2. /\ Covers(disk, Senders', Refused', rsv) /\ Covers(mem, Senders', Refused', rsv)
        /\ mem.reset # NoTime
    BY <1>0, <2>1, FewerCovers DEF Periods
  <2>3. Covers(Touch(mem), Senders', Refused', rsv)
    BY <1>00, <1>01, <2>1, <2>2, SparesCovers
  <2>4. /\ Covers(m, Senders', Refused', rsv) /\ m.reset # NoTime /\ (mem.reset = 0 => m.reset = 0)
    BY <1>00, <1>01, <2>1, <2>2, <2>3, UpdateCovers
  <2>5. \/ mem' = m /\ disk' \in {disk, m}
        \/ disk' = disk /\ status' = "recovery_required"
    BY <1>9 DEF Publish, Checkpointed, AppendFails
  <2> HIDE DEF m
  <2>6. CASE mem' = m /\ disk' \in {disk, m}
    <3>1. mem' \in {m, m} /\ disk' \in {disk, m, disk}
      BY <2>6
    <3> QED BY <1>0, <2>1, <2>2, <2>4, <3>1, PeriodsFrom
  <2>7. CASE disk' = disk /\ status' = "recovery_required"
    BY <1>0, <2>7, StillStep
  <2> QED BY <2>5, <2>6, <2>7
<1>10. CASE TakeCheckpoint \/ Recovered
  <2>1. Up /\ mem' \in {mem, mem} /\ disk' \in {disk, mem, disk}
    BY <1>10 DEF TakeCheckpoint, Recovered, Serving, Up, Checkpointed
  <2> QED BY <1>0, <1>00, <2>1, SparedStep
<1>11. CASE Boot
  <2>1. Covers(disk, Senders', Refused', rsv) /\ rsv' = rsv
    BY <1>0, FewerCovers DEF Fewer
  <2>2. /\ Covers(Rebuilt, Senders', Refused', rsv) /\ Rebuilt.reset # NoTime
        /\ disk.reset = 0 => Rebuilt.reset = 0
    BY <1>01, <2>1, RebuiltCovers
  <2>4. CASE mem' = Rebuilt /\ disk' \in {disk, Rebuilt}
    <3> DEFINE B == Rebuilt
    <3>1. /\ Covers(B, Senders', Refused', rsv) /\ B.reset # NoTime
          /\ (disk.reset = 0 => B.reset = 0) /\ mem' = B /\ disk' \in {disk, B}
      BY <2>2, <2>4
    <3> HIDE DEF B
    <3>2. Covers(disk', Senders', Refused', rsv') /\ Covers(mem', Senders', Refused', rsv')
      BY <2>1, <3>1
    <3>3. mem'.reset # NoTime /\ (disk'.reset = 0 => mem'.reset = 0)
      BY <3>1
    <3> QED BY <3>2, <3>3 DEF Periods, Covers, Reset, QuotasOf, Charged
  <2>5. CASE status' = "recovery_required" /\ disk' = disk
    BY <1>0, <2>5, StillStep
  <2> QED BY <1>11, <2>4, <2>5 DEF Boot, Checkpointed
<1>12. CASE Capacity
  <2> DEFINE m == Touch(mem)
             now == Now(mem)
             fresh == RollMonthly(PurgeWindows(m, now), now)
  <2>1. Up /\ mem' = fresh /\ disk' = disk
    BY <1>12 DEF Capacity, Serving, Up
  <2>3. /\ Covers(disk, Senders', Refused', rsv) /\ Covers(mem, Senders', Refused', rsv)
        /\ mem.reset # NoTime
    BY <1>0, <2>1, FewerCovers DEF Periods
  <2>4. /\ Covers(m, Senders', Refused', rsv) /\ Sound(m) /\ m.hw = now /\ now \in Nat
        /\ m.reset = mem.reset
    <3>1. Sound(mem) /\ Sound(m) /\ Spares(m, mem) /\ now \in Nat /\ m.hw = now
      BY <1>00, <2>1
    <3> HIDE DEF m, now
    <3> QED BY <1>01, <2>3, <3>1, SparesCovers DEF Spares
  <2>5. /\ Covers(fresh, Senders', Refused', rsv) /\ fresh.reset # NoTime
        /\ mem.reset = 0 => fresh.reset = 0
    <3> HIDE DEF m, now
    <3> QED BY <1>01, <2>3, <2>4, FreshCovers
  <2> HIDE DEF fresh
  <2>6. mem' \in {fresh, fresh} /\ disk' \in {disk, fresh, disk}
    BY <2>1
  <2> QED BY <1>0, <2>1, <2>3, <2>5, <2>6, PeriodsFrom
<1>13. CASE \/ \E a \in Attempt : Send(a)
            \/ \E a \in Attempt, how \in {"ended", "refused"} : ProviderEnds(a, how)
            \/ \E t \in 1..MaxClock : ClockStep(t)
            \/ Crash
  <2>1. disk' = disk /\ (status' \in {"down", "recovery_required"} \/ (mem' = mem /\ status' = status))
    BY <1>13 DEF Send, ProviderEnds, ClockStep, Crash
  <2> QED BY <1>0, <2>1, StillStep
<1> QED
  BY <1>1, <1>2, <1>3, <1>4, <1>5, <1>7, <1>8, <1>9, <1>10, <1>11, <1>12, <1>13 DEF Calm

(* Circuits have nothing to do with the quota.                             *)
LEMMA TurningPeriods == ASSUME QuotaKnown, Inv, Turning, Periods PROVE Periods'
<1>1. Fewer
  <2>1. UNCHANGED <<rsv, lease, wire>>
    BY TurningTurns DEF Turned
  <2> QED BY <2>1 DEF Fewer, Senders, Refused
<1>2. ASSUME Up, NEW s, NEW v, NEW m, m = mem \/ m = Touch(mem),
             Commit(m, SetCircuit(m, s, v), SetCircuit(disk, s, v))
      PROVE  Periods'
  <2>1. Sound(mem) /\ Sound(disk) /\ clock \in Nat /\ Sound(Touch(mem))
    BY <1>2, UpFacts, TouchKeeps
  <2>2. Spares(m, mem) /\ Sound(m)
    BY <1>2, <2>1, SparesSelf, TouchSpares
  <2>3. Spares(SetCircuit(m, s, v), m) /\ Spares(SetCircuit(disk, s, v), disk)
    BY <2>1, <2>2, CircuitSpares
  <2>4. Spares(SetCircuit(m, s, v), mem)
    BY <2>2, <2>3, SparesTrans
  <2>5. mem' \in {m, SetCircuit(m, s, v)} /\ disk' \in {disk, SetCircuit(m, s, v), SetCircuit(disk, s, v)}
    BY <1>2, CommitEnds
  <2> QED BY <1>1, <1>2, <2>2, <2>3, <2>4, <2>5, SparedStep
<1>3. ASSUME Serving, NEW s, NEW v, Swap(s, v) PROVE Periods'
  BY <1>2, <1>3 DEF Swap, Serving, Up
<1>4. ASSUME NEW s \in Scope, OpenCircuit(s) \/ ProbeSucceeded(s) \/ ProbeFailed(s) PROVE Periods'
  BY <1>3, <1>4 DEF OpenCircuit, ProbeSucceeded, ProbeFailed
<1>5. ASSUME NEW g \in Gen, BeginProbe(g) PROVE Periods'
  BY <1>3, <1>5 DEF BeginProbe
<1>6. ASSUME NEW s \in Scope, RecoverCircuit(s) PROVE Periods'
  <2>1. Up
    BY <1>6 DEF RecoverCircuit, Up
  <2>2. \E v : Commit(Touch(mem), SetCircuit(Touch(mem), s, v), SetCircuit(disk, s, v))
    BY <1>6 DEF RecoverCircuit
  <2> QED BY <1>2, <2>1, <2>2
<1> QED BY <1>4, <1>5, <1>6 DEF Turning

(* What try_reserve has checked when it grants a the payload p: the        *)
(* senders that were charged leave enough of the quota.                    *)
Affords(a, p) ==
    /\ a \notin Senders /\ p \in Payload
    /\ rsv' = [rsv EXCEPT ![a] = p]
    /\ Senders' \subseteq Senders \cup {a} /\ Refused' = Refused
    /\ Total(QuotasOf(rsv), Senders \ Refused) + p.quota <= cfg.quota

(* try_reserve, granted or denied: a grant is charged to the running       *)
(* period in both ledgers, and only when the quota allows it.              *)
LEMMA ReservePeriods ==
    ASSUME QuotaKnown, Inv, Tracked, Periods, NEW a \in Attempt, NEW r \in Request,
           NEW stale \in BOOLEAN, TryReserve(a, r, stale)
    PROVE  Periods' /\ (Fewer \/ \E p : Affords(a, p))
<1> DEFINE now    == Now(mem)
           m      == Touch(mem)
           pruned == PruneResolutions(m, now)
           purged == PurgeWindows(pruned, now)
           fresh  == RollMonthly(purged, now)
           p == [at |-> now, deadline |-> clock + r.ttl, tokens |-> r.tokens,
                 quota |-> r.quota, reset |-> fresh.reset,
                 probes |-> ProbesOf(fresh, r.gen)]
<1>1. /\ status = "healthy" /\ Up /\ clock \in Nat /\ Sound(mem) /\ Sound(disk)
      /\ Agree(mem, disk) /\ UNCHANGED <<cfg, wire>> /\ rsv[a].at = NoTime
      /\ rsv \in [Attempt -> Payload] /\ Senders \in SUBSET Attempt
      /\ lease \in [Attempt -> {"none", "held", "cleared"}] /\ cfg \in Config
  BY DEF TryReserve, Serving, Inv, TypeOK, Up, Senders
<1>2. Sound(m) /\ Agree(m, disk) /\ now \in Nat
  BY <1>1, TouchKeeps
<1>3. Sound(pruned) /\ Agree(pruned, disk)
  BY <1>2, PruneKeeps
<1>4. Sound(purged) /\ Agree(purged, disk)
  BY <1>2, <1>3, PurgeKeeps
<1>5. Sound(fresh) /\ Agree(fresh, disk)
  BY <1>2, <1>4, RollKeeps
<1>6. /\ Covers(pruned, Senders, Refused, rsv) /\ pruned.hw = now /\ pruned.reset = mem.reset
      /\ mem.reset # NoTime
  <2>1. /\ Spares(m, mem) /\ Recalls(m, mem) /\ m.hw = now /\ Spares(pruned, m) /\ pruned.hw = m.hw
    BY <1>1, <1>2, TouchRecalls, TouchSpares, PruneSpares, PruneRecalls
  <2>2. Spares(pruned, mem) /\ Covers(mem, Senders, Refused, rsv) /\ mem.reset # NoTime
    BY <1>1, <2>1, SparesTrans DEF Periods
  <2> HIDE DEF pruned, m, now
  <2>3. Covers(pruned, Senders, Refused, rsv)
    BY <1>1, <2>2, SparesCovers
  <2> QED BY <2>1, <2>2, <2>3 DEF Spares
<1>7. /\ Covers(fresh, Senders, Refused, rsv) /\ fresh.reset # NoTime
      /\ mem.reset = 0 => fresh.reset = 0
  <2>1. fresh = RollMonthly(PurgeWindows(pruned, pruned.hw), pruned.hw)
    BY <1>6
  <2> HIDE DEF fresh, pruned
  <2> QED BY <1>1, <1>2, <1>3, <1>6, <2>1, FreshCovers
<1>8. a \notin Senders /\ a \notin Held(disk) /\ Held(fresh) = Held(disk)
  BY <1>1, <1>5 DEF Tracked, Inv, Fresh, Agree, Same, Held
<1> HIDE DEF now, m, pruned, purged, fresh
<1>9. CASE mem' \in {pruned, fresh} /\ UNCHANGED <<disk, rsv, status, lease>>
  <2>1. Senders' = Senders /\ Refused' = Refused /\ rsv' = rsv
    BY <1>1, <1>9 DEF Senders, Refused
  <2>2. Fewer
    BY <2>1 DEF Fewer
  <2>3. Covers(disk, Senders', Refused', rsv)
    BY <2>2, FewerCovers
  <2>4. CASE mem' = pruned
    <3>1. mem' \in {pruned, pruned} /\ disk' \in {disk, pruned, disk}
      BY <1>9, <2>4
    <3> QED BY <1>1, <1>6, <2>1, <2>2, <2>3, <3>1, PeriodsFrom
  <2>5. CASE mem' = fresh
    <3>1. mem' \in {fresh, fresh} /\ disk' \in {disk, fresh, disk}
      BY <1>9, <2>5
    <3> QED BY <1>1, <1>7, <2>1, <2>2, <2>3, <3>1, PeriodsFrom
  <2> QED BY <1>9, <2>2, <2>4, <2>5
<1>10. CASE Limits(fresh, r, now) /\ Grant(fresh, a, p)
  <2>1. /\ r.gen \in Gen /\ r.ttl \in Nat /\ r.tokens \in Nat /\ r.quota \in Nat /\ r.quota > 0
        /\ cfg.quota # Unknown
    BY <1>1, ConstantsAssumption DEF QuotaKnown
  <2>2. fresh.reset = Reset /\ Reset # 0
    <3>1. fresh.reset # 0
      BY <1>10, <2>1 DEF Limits, ResetKnown
    <3> QED BY <1>7, <3>1 DEF Covers
  <2>3. p \in Payload /\ p.quota = r.quota /\ p.reset = Reset
    <3>1. ProbesOf(fresh, r.gen) \subseteq Nat
      BY <1>5, <2>1 DEF ProbesOf, Sound, Ledger, Circuit, Scope
    <3>2. fresh.reset \in Int
      BY <1>5 DEF Sound, Ledger
    <3> QED BY <1>1, <1>2, <2>1, <2>2, <3>1, <3>2 DEF Payload
  <2> HIDE DEF p
  <2> DEFINE live == LiveReserved(fresh, a, p)
             replayed == ReplayReserved(disk, a, p)
             Q == [rsv EXCEPT ![a] = p]
             T == Senders \cup {a}
  <2>4. /\ Commit(fresh, live, replayed) /\ rsv' = Q
        /\ lease' = [lease EXCEPT ![a] = IF status' = "healthy" THEN "held" ELSE @]
    BY <1>10 DEF Grant
  <2>5. disk.reset # 0 /\ Covers(disk, Senders, Refused, rsv)
    BY <1>1, <1>7, <2>2 DEF Periods
  <2>6. Covers(live, T, Refused, Q) /\ live.reset = Reset
    <3>1. a \notin Held(fresh) \cup Senders
      BY <1>8
    <3>2. Enters(Q, rsv, a, p)
      BY <1>1, <2>3 DEF Enters
    <3> HIDE DEF Q
    <3>3. /\ Sound(fresh) /\ Senders \in SUBSET Attempt /\ rsv \in [Attempt -> Payload]
          /\ Covers(fresh, Senders, Refused, rsv) /\ p \in Payload /\ p.reset = Reset /\ Reset # 0
          /\ a \in Attempt
      BY <1>1, <1>5, <1>7, <2>2, <2>3
    <3>4. /\ fresh.reset = Reset => /\ Covers(LiveReserved(fresh, a, p), Senders \cup {a}, Refused, Q)
                                    /\ LiveReserved(fresh, a, p).reset = Reset
      <4>1. Chargeable(fresh, Senders, Refused, rsv, a, p, Q)
        BY <3>1, <3>2, <3>3 DEF Chargeable
      <4> QED BY <4>1, ReservedCovers
    <3> QED BY <2>2, <3>4
  <2>7. /\ Covers(disk, Senders, Refused, Q)
        /\ Covers(replayed, T, Refused, Q) /\ replayed.reset = Reset
    <3>1. a \notin Held(disk) \cup Senders
      BY <1>8
    <3>2. Enters(Q, rsv, a, p)
      BY <1>1, <2>3 DEF Enters
    <3> HIDE DEF Q
    <3>3. /\ Sound(disk) /\ Senders \in SUBSET Attempt /\ rsv \in [Attempt -> Payload]
          /\ Covers(disk, Senders, Refused, rsv) /\ p \in Payload /\ p.reset = Reset /\ Reset # 0
          /\ a \in Attempt
      BY <1>1, <2>2, <2>3, <2>5
    <3>4. /\ Covers(disk, Senders, Refused, Q)
          /\ disk.reset # 0 => /\ Covers(ReplayReserved(disk, a, p), Senders \cup {a}, Refused, Q)
                               /\ ReplayReserved(disk, a, p).reset = Reset
      <4>1. Chargeable(disk, Senders, Refused, rsv, a, p, Q)
        BY <3>1, <3>2, <3>3 DEF Chargeable
      <4> QED BY <4>1, ReservedCovers
    <3> QED BY <2>5, <3>4
  <2>8. Sound(live) /\ Sound(replayed)
    <3>1. Agree(fresh, fresh) /\ Agree(disk, disk)
      BY AgreeSelf
    <3> QED BY <1>1, <1>5, <2>3, <3>1, ReservedKeeps
  <2>9. Q \in [Attempt -> Payload] /\ T \in SUBSET Attempt
    BY <1>1, <2>3
  <2> HIDE DEF live, replayed, Q
  <2>10. Refused' = Refused /\ Senders' \subseteq T
    BY <1>1, <2>4 DEF Senders, Refused
  <2>11. status' # "healthy" => Senders' \subseteq Senders
    BY <1>1, <1>8, <2>4 DEF Senders
  <2>12. /\ status' \in {"healthy", "recovery_required"}
         /\ disk' \in {disk, live, replayed}
         /\ status' = "healthy" => mem' = live /\ disk' \in {live, replayed}
    BY <1>1, <2>4 DEF Commit, Checkpointed, AppendFails
  <2>13. /\ Covers(live, Senders', Refused', Q) /\ Covers(replayed, Senders', Refused', Q)
         /\ status' # "healthy" => Covers(disk, Senders', Refused', Q)
    <3>1. Spares(live, live) /\ Spares(replayed, replayed) /\ Spares(disk, disk)
      BY <1>1, <2>8, SparesSelf
    <3>2. Senders' \in SUBSET T
      BY <2>10
    <3> HIDE DEF T
    <3>3. Covers(live, Senders', Refused', Q) /\ Covers(replayed, Senders', Refused', Q)
      BY <2>6, <2>7, <2>8, <2>9, <2>10, <3>1, <3>2, SparesCovers
    <3>4. status' # "healthy" => Covers(disk, Senders', Refused', Q)
      BY <1>1, <2>7, <2>9, <2>10, <2>11, <3>1, SparesCovers
    <3> QED BY <3>3, <3>4
  <2>14. Periods'
    <3>1. Covers(disk', Senders', Refused', rsv')
      BY <2>4, <2>12, <2>13
    <3>2. Up' => /\ Covers(mem', Senders', Refused', rsv') /\ mem'.reset = Reset
                 /\ disk'.reset = Reset
      BY <2>4, <2>6, <2>7, <2>12, <2>13 DEF Up
    <3>3. Reset # NoTime
      BY LargestQuota DEF NoTime
    <3> QED BY <2>2, <3>1, <3>2, <3>3 DEF Periods, Covers, Reset, QuotasOf, Charged
  <2>15. Affords(a, p)
    <3> DEFINE C == Charged(fresh, Senders, Refused)
               A == Senders \ Refused
    <3>1. C \in SUBSET Attempt /\ A \subseteq C
      BY <1>1, <1>5, ChargedIn DEF Charged
    <3>2. Total(QuotasOf(rsv), C) <= fresh.used
      BY <1>7, <2>2 DEF Covers
    <3>3. fresh.used + r.quota <= cfg.quota
      BY <1>10, <2>1 DEF Limits, QuotaFree
    <3>4. fresh.used \in Nat /\ cfg.quota \in Nat
      BY <1>1, <1>5, LargestQuota DEF Sound, Ledger
    <3> HIDE DEF C, A
    <3>5. /\ Total(QuotasOf(rsv), A) <= Total(QuotasOf(rsv), C)
          /\ Total(QuotasOf(rsv), A) \in Nat /\ Total(QuotasOf(rsv), C) \in Nat
      BY <1>1, <3>1, ChargedLess
    <3>6. Total(QuotasOf(rsv), A) + p.quota <= cfg.quota
      BY <2>1, <2>3, <3>2, <3>3, <3>4, <3>5
    <3> QED BY <1>8, <2>3, <2>4, <2>10, <3>6 DEF Affords, A, Q
  <2> QED BY <2>14, <2>15
<1> QED BY <1>9, <1>10 DEF TryReserve, now, m, pruned, purged, fresh

(* What the senders that were not turned away were charged.                *)
Budgeted(S, R, q) == Total(QuotasOf(q), S \ R) <= MostQuota

(* One step.                                                               *)
LEMMA BudgetedStep ==
    ASSUME QuotaKnown, Inv, Tracked, Periods, Budgeted(Senders, Refused, rsv), [Next]_vars
    PROVE  Tracked' /\ Periods' /\ Budgeted(Senders, Refused, rsv)'
<1>0. /\ rsv \in [Attempt -> Payload] /\ Senders \in SUBSET Attempt /\ cfg \in Config
      /\ MostQuota \in Nat /\ cfg.quota \in Nat /\ cfg.quota <= MostQuota
  <2>1. rsv \in [Attempt -> Payload] /\ Senders \in SUBSET Attempt /\ cfg \in Config
    BY DEF Inv, TypeOK, Senders
  <2> QED BY <2>1, LargestQuota
<1>1. ASSUME Fewer PROVE Budgeted(Senders, Refused, rsv)'
  <2> DEFINE A == Senders' \ Refused'
             B == Senders \ Refused
  <2>1. A \subseteq B /\ B \in SUBSET Attempt /\ rsv' = rsv
    BY <1>0, <1>1 DEF Fewer
  <2>2. Total(QuotasOf(rsv), B) <= MostQuota
    BY DEF Budgeted
  <2> HIDE DEF A, B
  <2>3. /\ Total(QuotasOf(rsv), A) <= Total(QuotasOf(rsv), B)
        /\ Total(QuotasOf(rsv), A) \in Nat /\ Total(QuotasOf(rsv), B) \in Nat
    BY <1>0, <2>1, ChargedLess
  <2>4. Total(QuotasOf(rsv), A) <= MostQuota
    BY <1>0, <2>2, <2>3
  <2>5. Total(QuotasOf(rsv'), A) <= MostQuota
    BY <2>1, <2>4
  <2> QED BY <2>5 DEF Budgeted, QuotasOf, MostQuota, A
<1>2. CASE Calm
  BY <1>1, <1>2, CalmTracked, CalmPeriods, CalmFewer
<1>3. CASE Turning
  <2>1. Fewer
    <3>1. UNCHANGED <<rsv, lease, wire>>
      BY <1>3, TurningTurns DEF Turned
    <3> QED BY <3>1 DEF Fewer, Senders, Refused
  <2> QED BY <1>1, <1>3, <2>1, TurningTracked, TurningPeriods
<1>4. ASSUME NEW a \in Attempt, NEW r \in Request, NEW stale \in BOOLEAN, TryReserve(a, r, stale)
      PROVE  Tracked' /\ Periods' /\ Budgeted(Senders, Refused, rsv)'
  <2>1. Tracked' /\ Periods' /\ (Fewer \/ \E p : Affords(a, p))
    BY <1>4, ReserveTracked, ReservePeriods
  <2>2. ASSUME NEW p, Affords(a, p) PROVE Budgeted(Senders, Refused, rsv)'
    <3> DEFINE Q == [rsv EXCEPT ![a] = p]
               A == Senders' \ Refused'
               B == Senders \ Refused
    <3>1. /\ rsv' = Q /\ Q \in [Attempt -> Payload] /\ p.quota \in Nat
          /\ A \subseteq B \cup {a} /\ B \cup {a} \in SUBSET Attempt /\ a \notin B
          /\ Total(QuotasOf(rsv), B) + p.quota <= cfg.quota
      BY <1>0, <2>2 DEF Affords, Payload
    <3>2. /\ QuotasOf(Q)[a] = p.quota /\ \A b \in B : QuotasOf(Q)[b] = QuotasOf(rsv)[b]
          /\ \A b \in Attempt : QuotasOf(Q)[b] \in Nat /\ QuotasOf(rsv)[b] \in Nat
      BY <1>0, <3>1 DEF QuotasOf, Payload
    <3> HIDE DEF Q, A, B
    <3>3. IsFiniteSet(B) /\ IsFiniteSet(B \cup {a}) /\ B \subseteq Attempt
      BY <3>1, ConstantsAssumption, FS_Subset
    <3>4. \A b \in B : QuotasOf(Q)[b] \in Nat /\ QuotasOf(Q)[b] <= QuotasOf(rsv)[b]
      BY <3>2, <3>3
    <3>5. Total(QuotasOf(Q), B) <= Total(QuotasOf(rsv), B)
      BY <3>2, <3>3, <3>4, TotalMono
    <3>6. Total(QuotasOf(Q), B) \in Nat /\ Total(QuotasOf(rsv), B) \in Nat
      BY <3>2, <3>3, TotalNat
    <3>7. Total(QuotasOf(Q), B \cup {a}) = QuotasOf(Q)[a] + Total(QuotasOf(Q), B)
      <4>1. \A b \in B \cup {a} : QuotasOf(Q)[b] \in Nat
        BY <3>1, <3>2
      <4> QED BY <3>1, <3>3, <4>1, TotalAdd
    <3>8. Total(QuotasOf(Q), B \cup {a}) = p.quota + Total(QuotasOf(Q), B)
      BY <3>2, <3>7
    <3>9. Total(QuotasOf(Q), A) <= Total(QuotasOf(Q), B \cup {a}) /\ Total(QuotasOf(Q), A) \in Nat
      BY <3>1, ChargedLess
    <3>10. Total(QuotasOf(Q), A) <= MostQuota
      BY <1>0, <3>1, <3>5, <3>6, <3>8, <3>9
    <3>11. Total(QuotasOf(rsv'), A) <= MostQuota
      BY <3>1, <3>10
    <3> QED BY <3>11 DEF Budgeted, QuotasOf, MostQuota, A
  <2> QED BY <1>1, <2>1, <2>2
<1>5. CASE UNCHANGED vars
  BY <1>5 DEF vars, Tracked, Remembers, Counts, Senders, Refused, Up, Budgeted, QuotasOf, MostQuota,
              Periods, Covers, Reset, Charged, Held, Resolved
<1> QED BY <1>2, <1>3, <1>4, <1>5, StepKinds

(* The quota of an attempt set, as the model sums it.                      *)
LEMMA QuotasTotal ==
    ASSUME NEW S \in SUBSET Attempt, NEW q
    PROVE  MapThenSumSet(LAMBDA a : q[a].quota, S) = Total(QuotasOf(q), S)
<1> DEFINE g == QuotasOf(q)
           Iter(f) == f = [s \in SUBSET S |->
                        IF s = {} THEN 0
                        ELSE q[CHOOSE x \in s : TRUE].quota + f[s \ {CHOOSE x \in s : TRUE}]]
<1>1. IsFiniteSet(S)
  BY ConstantsAssumption, FS_Subset
<1>2. ASSUME NEW f PROVE Iter(f) <=> Sums(g, f, S)
  <2>1. ASSUME NEW s \in SUBSET S
        PROVE  SumStep(g, f, s) =
                 IF s = {} THEN 0
                 ELSE q[CHOOSE x \in s : TRUE].quota + f[s \ {CHOOSE x \in s : TRUE}]
    <3>1. CASE s = {}
      BY <3>1 DEF SumStep
    <3>2. CASE s # {}
      <4>1. Choice(s) \in Attempt
        BY <3>2, ChoiceIn
      <4>2. g[Choice(s)] = q[Choice(s)].quota
        BY <4>1 DEF QuotasOf
      <4> HIDE DEF g
      <4> QED BY <3>2, <4>2 DEF SumStep, Choice
    <3> QED BY <3>1, <3>2
  <2> HIDE DEF g
  <2> QED BY <2>1 DEF Sums
<1>3. MapThenSumSet(LAMBDA a : q[a].quota, S) = (CHOOSE f : Iter(f))[S]
  BY DEF MapThenSumSet, MapThenFoldSet
<1>4. \E f : Iter(f)
  <2>1. PICK f : Sums(g, f, S)
    BY <1>1, SumsExist
  <2>2. Iter(f)
    BY <1>2, <2>1
  <2> HIDE DEF Iter
  <2> QED BY <2>2
<1> DEFINE h == CHOOSE f : Iter(f)
<1>5. Iter(h)
  BY <1>4
<1> HIDE DEF h, Iter, g
<1>6. Sums(g, h, S)
  BY <1>2, <1>5
<1>7. h[S] = Total(g, S)
  BY <1>1, <1>6, SumsTotal
<1> QED BY <1>3, <1>7 DEF g, h

(* _roll_monthly, _finish and their replay: where publications keep one    *)
(* reset and every request is charged, the attempts of a period that the   *)
(* provider accepted never cost more than the published quota, whatever    *)
(* the clock, the refunds, the failed appends and the restarts did.        *)
THEOREM QuotaNeverExceeded ==
    ASSUME QuotaKnown
    PROVE  Spec => []MonthlyQuotaBound
<1> DEFINE I == Tracked /\ Periods /\ Budgeted(Senders, Refused, rsv)
<1>1. Init => I
  <2> SUFFICES ASSUME Init PROVE I
    OBVIOUS
  <2>1. Senders = {} /\ status = "healthy"
    BY DEF Init, Senders
  <2>2. Tracked
    BY <2>1 DEF Tracked, Remembers
  <2>3. Budgeted(Senders, Refused, rsv)
    <3>1. Senders \ Refused = {}
      BY <2>1
    <3>2. Total(QuotasOf(rsv), {}) = 0 /\ MostQuota \in Nat
      BY TotalEmpty, LargestQuota
    <3> QED BY <3>1, <3>2 DEF Budgeted
  <2>4. Reset \in Nat /\ 0 # NoTime /\ Reset # NoTime
    BY LargestQuota DEF NoTime
  <2>5. disk.reset = NoTime /\ Held(disk) = {}
    BY DEF Init, Empty, Held
  <2>6. /\ mem.reset = NextMonthlyReset(cfg, 1) /\ mem.hw = 1 /\ Held(mem) = {} /\ mem.used = 0
    BY DEF Init, Empty, Held
  <2>7. cfg.quota # Unknown /\ cfg.resetAt = Reset
    BY DEF Init, QuotaKnown
  <2>8. mem.reset \in {0, Reset} /\ (mem.reset = 0 => mem.hw >= Reset)
    BY <2>4, <2>6, <2>7 DEF NextMonthlyReset
  <2>9. Covers(disk, Senders, Refused, rsv)
    BY <2>1, <2>4, <2>5 DEF Covers
  <2>10. Covers(mem, Senders, Refused, rsv)
    <3>1. Charged(mem, Senders, Refused) = {}
      BY <2>1, <2>6 DEF Charged
    <3>2. Total(QuotasOf(rsv), Charged(mem, Senders, Refused)) <= mem.used
      BY <2>6, <3>1, TotalEmpty
    <3> QED BY <2>4, <2>8, <3>2 DEF Covers
  <2>11. Periods
    BY <2>4, <2>5, <2>8, <2>9, <2>10 DEF Periods
  <2> QED BY <2>2, <2>3, <2>11
<1>2. Inv /\ I /\ [Next]_vars => I'
  BY BudgetedStep
<1>3. Inv /\ I => MonthlyQuotaBound
  <2> SUFFICES ASSUME Inv, Budgeted(Senders, Refused, rsv), NEW p
               PROVE  MapThenSumSet(LAMBDA a : rsv[a].quota,
                            {a \in Sent : wire[a] # "refused" /\ rsv[a].reset = p}) <= MostQuota
    BY DEF MonthlyQuotaBound, MostQuota
  <2> DEFINE A == {a \in Sent : wire[a] # "refused" /\ rsv[a].reset = p}
             B == Senders \ Refused
  <2>1. /\ A \subseteq B /\ A \in SUBSET Attempt /\ B \in SUBSET Attempt
        /\ rsv \in [Attempt -> Payload]
    BY DEF Sent, Senders, Refused, Inv, TypeOK
  <2>2. Total(QuotasOf(rsv), B) <= MostQuota /\ MostQuota \in Nat
    BY LargestQuota DEF Budgeted
  <2> HIDE DEF A, B
  <2>3. /\ Total(QuotasOf(rsv), A) <= Total(QuotasOf(rsv), B)
        /\ Total(QuotasOf(rsv), A) \in Nat /\ Total(QuotasOf(rsv), B) \in Nat
    BY <2>1, ChargedLess
  <2>4. MapThenSumSet(LAMBDA a : rsv[a].quota, A) = Total(QuotasOf(rsv), A)
    BY <2>1, QuotasTotal
  <2>5. Total(QuotasOf(rsv), A) <= MostQuota
    BY <2>2, <2>3
  <2>6. MapThenSumSet(LAMBDA a : rsv[a].quota, A) <= MostQuota
    BY <2>4, <2>5
  <2> QED BY <2>6 DEF A
<1> QED BY <1>1, <1>2, <1>3, Invariance, PTL DEF Spec
=============================================================================
