------------------------------ MODULE Takeover ------------------------------
(***************************************************************************)
(* A Gateway installation hands over to another (TakeoverCoordinator and   *)
(* the fence of GatewayLocalState in gateway/activation.py).               *)
(*                                                                         *)
(* The old installation fences itself and signs a receipt; the new one     *)
(* accepts the receipt if it advances its own fence.  Receipts are never   *)
(* forgotten: they may be lost, delayed, or presented again at any time.   *)
(* fence_old and accept of one installation exclude each other             *)
(* (DispatcherGate); accept writes two transactions and may crash between. *)
(* A transaction and the memory it updates are one step, and a restart     *)
(* reads the same values back.                                             *)
(***************************************************************************)
EXTENDS Integers, FiniteSets

CONSTANTS
    Installation,
    Origin,       \* the installation that serves at first
    MaxFence      \* bound: the highest fence epoch explored

ASSUME TakeoverAssumption == Origin \in Installation /\ MaxFence \in Nat

VARIABLES
    fence,      \* fence_epoch of each installation
    takeover,   \* its takeover_state
    active,     \* installations that have an active bundle
    receipts,   \* fence receipts signed so far
    pending     \* pending[i]: the receipt i is accepting, as a set

vars == <<fence, takeover, active, receipts, pending>>

Receipt == [old : Installation, target : Installation, epoch : Nat]

(* fence_old signs a receipt, for any target, of the next fence epoch.     *)
NewReceipt(i, j) == [old |-> i, target |-> j, epoch |-> fence[i] + 1]

(* record_old_fence, under the gate: any number of times; being fenced     *)
(* already is no obstacle.                                                 *)
FenceOld(i, j) ==
    /\ pending[i] = {} /\ fence[i] < MaxFence
    /\ fence' = [fence EXCEPT ![i] = @ + 1]
    /\ takeover' = [takeover EXCEPT ![i] = "fenced_old"]
    /\ receipts' = receipts \cup {NewReceipt(i, j)}
    /\ UNCHANGED <<active, pending>>

(* Mutants of Advances: the same epoch is accepted; any epoch is accepted. *)
AdvancesOrEqual(r, i) == r.epoch >= fence[i]
AnyEpoch(r, i)        == TRUE

Advances(r, i) == r.epoch > fence[i]

(* accept, first transaction: the receipt is stored, i is fenced.          *)
AcceptReceipt(i, r) ==
    /\ pending[i] = {} /\ r.target = i /\ Advances(r, i)
    /\ takeover' = [takeover EXCEPT ![i] = "fenced_old"]
    /\ pending' = [pending EXCEPT ![i] = {r}]
    /\ UNCHANGED <<fence, active, receipts>>

(* Second transaction: the fence advances and i is released.               *)
AcceptAdvance(i) ==
    /\ pending[i] # {}
    /\ \E r \in pending[i] : fence' = [fence EXCEPT ![i] = r.epoch]
    /\ takeover' = [takeover EXCEPT ![i] = "released"]
    /\ pending' = [pending EXCEPT ![i] = {}]
    /\ UNCHANGED <<active, receipts>>

Crash(i) ==
    /\ pending[i] # {}
    /\ pending' = [pending EXCEPT ![i] = {}]
    /\ UNCHANGED <<fence, takeover, active, receipts>>

(* Control sends bundles to an installation that has taken over (external).*)
Activate(i) ==
    /\ takeover[i] = "released" /\ i \notin active
    /\ active' = active \cup {i}
    /\ UNCHANGED <<fence, takeover, receipts, pending>>

Init ==
    /\ fence = [i \in Installation |-> 1]
    /\ takeover = [i \in Installation |-> "none"]
    /\ active = {Origin}
    /\ receipts = {}
    /\ pending = [i \in Installation |-> {}]

Next ==
    \/ \E i, j \in Installation : FenceOld(i, j)
    \/ \E i \in Installation, r \in receipts : AcceptReceipt(i, r)
    \/ \E i \in Installation : AcceptAdvance(i) \/ Crash(i) \/ Activate(i)

Spec == Init /\ [][Next]_vars
-----------------------------------------------------------------------------
TypeOK ==
    /\ fence \in [Installation -> Nat]
    /\ takeover \in [Installation -> {"none", "fenced_old", "released"}]
    /\ active \subseteq Installation
    /\ receipts \subseteq Receipt
    /\ pending \in [Installation -> SUBSET receipts]

(* Not deny_all by the fence, and with a bundle to dispatch under.         *)
Dispatching(i) == i \in active /\ takeover[i] # "fenced_old"

(* A receipt its target may still accept keeps its signer out of dispatch: *)
(* an old installation that takes over again has a higher fence than any   *)
(* receipt it gave away (record_old_fence, the epoch check of accept).     *)
GiverStaysFenced ==
    \A r \in receipts : r.epoch > fence[r.target] => takeover[r.old] = "fenced_old"

(* Handing over back and forth, with receipts lost, late or presented      *)
(* twice and crashes in accept, never leaves two installations that        *)
(* dispatch (fence_epoch, record_old_fence, accept_takeover).              *)
OneDispatcher ==
    \A i, j \in Installation : Dispatching(i) /\ Dispatching(j) => i = j
=============================================================================
