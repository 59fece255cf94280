--------------------------- MODULE TakeoverProofs ---------------------------
(***************************************************************************)
(* Of two installations at most one dispatches, however often they hand    *)
(* over and whatever becomes of the receipts.                              *)
(***************************************************************************)
EXTENDS Takeover, TLAPS

(* The code has no bound on the number of installations; the protocol is   *)
(* safe between two of them.                                               *)
TwoInstallations ==
    \A i, j, k \in Installation : i = j \/ j = k \/ i = k

Unfenced(i) == takeover[i] # "fenced_old"

(* A receipt is no newer than the fence of the one who signed it.          *)
ReceiptsPast == \A r \in receipts : r.epoch <= fence[r.old]

(* What is being accepted is for i, advances its fence, and i is fenced.   *)
PendingSound ==
    \A i \in Installation : \A r \in pending[i] :
        /\ r.target = i /\ r.epoch > fence[i]
        /\ takeover[i] = "fenced_old"

(* Two unfenced installations have not taken part in a takeover yet.       *)
UnfencedAlone ==
    \A i, j \in Installation :
        i # j /\ Unfenced(i) /\ Unfenced(j) => takeover[i] = "none" /\ takeover[j] = "none"

(* Only Origin has a bundle before a takeover.                             *)
ActiveTookOver == \A i \in active : i = Origin \/ takeover[i] # "none"

InductiveInvariant ==
    /\ TypeOK /\ ReceiptsPast /\ PendingSound
    /\ GiverStaysFenced /\ UnfencedAlone /\ ActiveTookOver

(* The invariant is what makes the fence exclusive (fence_epoch).          *)
LEMMA InvariantExcludes == InductiveInvariant => OneDispatcher
  BY DEF InductiveInvariant, TypeOK, UnfencedAlone, Unfenced, ActiveTookOver,
         OneDispatcher, Dispatching

(* A new installation starts with fence 1 and no takeover (_load_identity).*)
LEMMA InitInvariant == Init => InductiveInvariant
  BY TakeoverAssumption
     DEF Init, InductiveInvariant, TypeOK, Receipt, ReceiptsPast, PendingSound,
         GiverStaysFenced, UnfencedAlone, Unfenced, ActiveTookOver

(* Signing a receipt raises the signer's fence and takes it out of         *)
(* dispatch (record_old_fence).                                            *)
LEMMA FenceOldKeeps ==
    ASSUME InductiveInvariant, NEW i \in Installation, NEW j \in Installation, FenceOld(i, j)
    PROVE  InductiveInvariant'
<1> USE DEF InductiveInvariant, FenceOld, NewReceipt
<1>1. TypeOK'
  BY DEF TypeOK, Receipt
<1>2. ReceiptsPast'
  BY DEF TypeOK, Receipt, ReceiptsPast
<1>3. PendingSound'
  BY DEF TypeOK, Receipt, PendingSound
<1>4. GiverStaysFenced'
  BY DEF TypeOK, Receipt, GiverStaysFenced
<1>5. UnfencedAlone' /\ ActiveTookOver'
  BY DEF TypeOK, UnfencedAlone, Unfenced, ActiveTookOver
<1> QED
  BY <1>1, <1>2, <1>3, <1>4, <1>5

(* Storing a receipt fences the target until the epoch is written          *)
(* (accept_takeover, first transaction).                                   *)
LEMMA AcceptReceiptKeeps ==
    ASSUME InductiveInvariant, NEW i \in Installation, NEW r \in receipts, AcceptReceipt(i, r)
    PROVE  InductiveInvariant'
  BY DEF InductiveInvariant, AcceptReceipt, Advances, TypeOK, Receipt, ReceiptsPast,
         PendingSound, GiverStaysFenced, UnfencedAlone, Unfenced, ActiveTookOver

(* The target is released above everything it ever signed, while the       *)
(* signer is still fenced (accept_takeover, second transaction).           *)
LEMMA AcceptAdvanceKeeps ==
    ASSUME TwoInstallations, InductiveInvariant,
           NEW i \in Installation, AcceptAdvance(i)
    PROVE  InductiveInvariant'
<1> USE DEF InductiveInvariant
<1>1. PICK r \in pending[i] : fence' = [fence EXCEPT ![i] = r.epoch]
  BY DEF AcceptAdvance
<1>2. r \in receipts /\ r.old \in Installation /\ r.target = i /\ r.epoch \in Nat
      /\ r.epoch > fence[i] /\ fence[i] \in Nat
  BY DEF TypeOK, Receipt, PendingSound
<1>3. r.old # i /\ takeover[r.old] = "fenced_old" /\ r.epoch <= fence[r.old]
  BY <1>2 DEF TypeOK, ReceiptsPast, GiverStaysFenced
<1>4. \A k \in Installation : k # i => k = r.old
  BY <1>2, <1>3 DEF TwoInstallations
<1>5. takeover' = [takeover EXCEPT ![i] = "released"]
      /\ pending' = [pending EXCEPT ![i] = {}] /\ active' = active /\ receipts' = receipts
  BY DEF AcceptAdvance
<1>6. TypeOK'
  BY <1>1, <1>2, <1>5 DEF TypeOK, Receipt
<1>7. ReceiptsPast'
  BY <1>1, <1>2, <1>5 DEF TypeOK, Receipt, ReceiptsPast
<1>8. PendingSound'
  BY <1>1, <1>5 DEF TypeOK, Receipt, PendingSound
<1>9. GiverStaysFenced'
  <2> SUFFICES ASSUME NEW s \in receipts, s.epoch > fence'[s.target], s.old = i
               PROVE  FALSE
    BY <1>3, <1>4, <1>5 DEF TypeOK, Receipt, GiverStaysFenced
  <2>1. s.epoch <= fence[i] /\ s.epoch \in Nat /\ s.target \in Installation
    BY DEF TypeOK, Receipt, ReceiptsPast
  <2>2. CASE s.target = i
    BY <2>1, <2>2, <1>1, <1>2 DEF TypeOK
  <2>3. CASE s.target = r.old
    BY <2>1, <2>3, <1>1, <1>2, <1>3 DEF TypeOK
  <2> QED
    BY <2>1, <2>2, <2>3, <1>4
<1>10. UnfencedAlone' /\ ActiveTookOver'
  BY <1>3, <1>4, <1>5 DEF TypeOK, UnfencedAlone, Unfenced, ActiveTookOver
<1> QED
  BY <1>6, <1>7, <1>8, <1>9, <1>10

(* A crash in accept forgets the receipt, and the target stays fenced.     *)
LEMMA CrashKeeps ==
    ASSUME InductiveInvariant, NEW i \in Installation, Crash(i)
    PROVE  InductiveInvariant'
  BY DEF InductiveInvariant, Crash, TypeOK, ReceiptsPast, PendingSound,
         GiverStaysFenced, UnfencedAlone, Unfenced, ActiveTookOver

(* Bundles reach an installation that has taken over (commit_staged).      *)
LEMMA ActivateKeeps ==
    ASSUME InductiveInvariant, NEW i \in Installation, Activate(i)
    PROVE  InductiveInvariant'
  BY DEF InductiveInvariant, Activate, TypeOK, ReceiptsPast, PendingSound,
         GiverStaysFenced, UnfencedAlone, Unfenced, ActiveTookOver

(* Every step of two installations keeps the invariant.                    *)
LEMMA NextInvariant ==
    ASSUME TwoInstallations, InductiveInvariant, [Next]_vars
    PROVE  InductiveInvariant'
<1>1. CASE UNCHANGED vars
  BY <1>1 DEF InductiveInvariant, vars, TypeOK, ReceiptsPast, PendingSound,
              GiverStaysFenced, UnfencedAlone, Unfenced, ActiveTookOver
<1>2. CASE Next
  BY <1>2, FenceOldKeeps, AcceptReceiptKeeps, AcceptAdvanceKeeps, CrashKeeps, ActivateKeeps
     DEF Next
<1> QED
  BY <1>1, <1>2

(* Between two installations the signer of a receipt that may still be     *)
(* accepted stays fenced, for every number of hand-overs.                  *)
THEOREM TakeoverGiverStaysFenced ==
    ASSUME TwoInstallations
    PROVE  Spec => []GiverStaysFenced
<1>1. InductiveInvariant /\ [Next]_vars => InductiveInvariant'
  BY NextInvariant
<1>2. InductiveInvariant => GiverStaysFenced
  BY DEF InductiveInvariant
<1> QED
  BY <1>1, <1>2, InitInvariant, PTL DEF Spec

(* Two installations never dispatch at the same time (DispatcherGate,      *)
(* record_old_fence, accept_takeover), for every number of hand-overs.     *)
THEOREM TakeoverOneDispatcher ==
    ASSUME TwoInstallations
    PROVE  Spec => []OneDispatcher
<1>1. InductiveInvariant /\ [Next]_vars => InductiveInvariant'
  BY NextInvariant
<1> QED
  BY <1>1, InvariantExcludes, InitInvariant, PTL DEF Spec
=============================================================================
