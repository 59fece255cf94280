-------------------------- MODULE MCAccountRuntime --------------------------
(* Small instances of AccountRuntime.  Each set of configurations switches *)
(* on the dimension one run is about; Unknown turns a limit off.           *)
EXTENDS AccountRuntime

Plain == [state |-> "active", parallel |-> 2, rpm |-> Unknown, rpmWindow |-> 2,
          tpm |-> Unknown, tpmWindow |-> 2, quota |-> Unknown, resetAt |-> 0,
          perAttempt |-> 0]

Ask(ttl, tokens, quota) ==
    {[gen |-> g, ttl |-> ttl, tokens |-> tokens, quota |-> quota] : g \in Gen}

(* Parallel slots, with a publication that takes the account away.         *)
SlotRequest == Ask(2, 0, 0)
DrainConfig == {[Plain EXCEPT !.parallel = 1, !.state = s] :
                   s \in {"active", "disabled"}}

(* One start per clock unit, one token per window of two, one quota unit   *)
(* per month; a request uses tokens or quota.                              *)
WindowConfig  == {[Plain EXCEPT !.parallel = 1, !.rpm = 1, !.rpmWindow = 1, !.tpm = 1,
                                !.quota = 1, !.resetAt = 3]}
WindowRequest == Ask(1, 1, 0) \cup Ask(1, 0, 1)

(* A monthly quota of one unit whose reset a publication moves.            *)
TwoResets     == {[Plain EXCEPT !.quota = 1, !.resetAt = t] : t \in {2, 4}}
QuotaRequest  == Ask(2, 0, 1)

(* One reset, and requests that are charged beside some that are not.      *)
OneReset      == {[Plain EXCEPT !.quota = 1, !.resetAt = 3, !.parallel = 3]}
MixedRequest  == Ask(2, 0, 0) \cup Ask(2, 0, 1)

(* Narrows that search: no checkpoint, no failed boot, the clock before    *)
(* the reset or at it, and a second attempt that is not charged.           *)
SecondUncharged ==
    /\ evicted = {} /\ saved = 0 /\ status # "recovery_required" /\ disk.hw = NoTime
    /\ clock \in {1, 3} /\ \A a \in Attempt : disk.resolved[a] = NoTime
    /\ rsv[2].at # NoTime => rsv[2].quota = 0

(* Ids are issued in order.                                                *)
IssuedInOrder ==
    \A a, b \in Attempt : a < b /\ rsv[b].at # NoTime => rsv[a].at # NoTime

(* All attempts of a behaviour use tokens, or all use quota.               *)
Alike ==
    \A a, b \in {c \in Attempt : rsv[c].at # NoTime} : rsv[a].tokens = rsv[b].tokens

AtOnce == [i \in 0..2 |-> 0]
Steps == [i \in 0..2 |-> i]
=============================================================================
