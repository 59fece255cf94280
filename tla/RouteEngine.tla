----------------------------- MODULE RouteEngine -----------------------------
(***************************************************************************)
(* The routing decisions of the Gateway (RouteEngine and AttemptBudget in  *)
(* gateway/routing.py) over the operational view of the accounts.          *)
(*                                                                         *)
(* A request's authorized legs are a sequence; a leg names its account and *)
(* the causes (triggers) it serves, and has a deployment generation of its *)
(* own.  Capability checks are left out: every leg listed can serve its    *)
(* request.  The view shows how many attempts an account runs and whether  *)
(* it is active or its circuit open; it does not show what try_reserve     *)
(* also asks, the rate windows and the quota.                              *)
(***************************************************************************)
EXTENDS Integers, Sequences, FiniteSets, FiniteSetsExt

CONSTANTS
    Request,     \* request ids
    Account,     \* provider accounts
    Route,       \* Route[r]: the authorized legs of r, in order: [account, causes]
    Parallel     \* parallel_limit of each account

VARIABLES
    slot,        \* slot[r]: the leg whose attempt holds a slot for r, 0 if none
    shadows,     \* shadows[a]: slots of a taken by shadow attempts
    sent,        \* sent[r]: legs of the attempts of r that are durably dispatched
    gate         \* gate[a]: what stands in the way of a reservation on a

Cause == {"primary", "capacity", "quota", "failure"}

(* "broken": the account's circuit is open after transient failures.       *)
(* "rpm", "tpm" and "stop", a resolution ledger at its limit, are seen by  *)
(* try_reserve only.                                                       *)
Gate == {"open", "inactive", "broken", "rpm", "tpm", "stop"}

AccountOf(r, i) == Route[r][i].account

InUse(a) ==
    shadows[a] + Cardinality({r \in Request : slot[r] # 0 /\ AccountOf(r, slot[r]) = a})

Full(a) == InUse(a) >= Parallel[a]

(* _operationally_available.                                               *)
Available(a) == gate[a] \notin {"inactive", "broken"} /\ ~Full(a)

(* filter: the legs that serve the cause and are available, in order.      *)
Filter(r, c) ==
    {i \in DOMAIN Route[r] : c \in Route[r][i].causes /\ Available(AccountOf(r, i))}

Primaries(r) == {i \in DOMAIN Route[r] : "primary" \in Route[r][i].causes}

Blockers(a) ==
    (IF Full(a) THEN {"capacity"} ELSE {}) \cup (IF gate[a] = "broken" THEN {"failure"} ELSE {})

(* primary_blocking_cause: the one cause that blocks every primary leg, as *)
(* a set; empty if some leg is blocked by none, by two, or is not active.  *)
PrimaryBlockingCause(r) ==
    LET blockers == {Blockers(AccountOf(r, i)) : i \in Primaries(r)}
        causes == UNION blockers
    IN  IF /\ \A i \in Primaries(r) : gate[AccountOf(r, i)] # "inactive"
           /\ \A b \in blockers : Cardinality(b) = 1
           /\ Cardinality(causes) = 1
        THEN causes ELSE {}

(* AttemptBudget: three sends, and no leg twice.                           *)
SendClosed(r) == Cardinality(sent[r]) >= 3
CanSend(r, i) == ~SendClosed(r) /\ i \notin sent[r]

(* _authorization_has_alternate, for the retry after a failed attempt.     *)
HasAlternate(r, i, c) == \E j \in DOMAIN Route[r] \ {i} : c \in Route[r][j].causes

(* try_reserve, as the pump sees it: granted, or the cause the denial      *)
(* leads to (_denial_cause), "none" when it leads to none.                 *)
Reservation(r, i) ==
    LET a == AccountOf(r, i)
    IN  CASE gate[a] \in {"inactive", "broken", "stop"} -> "none"
          [] gate[a] \notin {"inactive", "broken", "stop"} /\ (Full(a) \/ gate[a] = "rpm") -> "capacity"
          [] gate[a] = "tpm" /\ ~Full(a) -> "quota"
          [] OTHER -> "granted"
=============================================================================
