------------------------------ MODULE WDRRQueue ------------------------------
(***************************************************************************)
(* The fair queue of the Gateway (WDRRQueue in gateway/scheduler.py):      *)
(* tier, then scarce or flexible class, then key by weighted deficit round *)
(* robin, then first come first served.                                    *)
(*                                                                         *)
(* The queue is the sequence of its entries in order of their sequence     *)
(* numbers, so a position stands for a number and request ids may be used  *)
(* again once granted.  A queue version is compared for equality only: a   *)
(* selection is fresh until the next change of the queue.  Which entries   *)
(* are eligible, and which the pump excludes, is the caller's: a proposal  *)
(* sees an arbitrary set of them.  The authorized legs of an entry are     *)
(* its accounts; the class is fixed when it is queued.                     *)
(***************************************************************************)
EXTENDS Integers, Sequences, FiniteSets, FiniteSetsExt, SequencesExt

CONSTANTS
    Request,      \* request ids
    Key,          \* client keys, numbered
    Tier,         \* queue tiers, 0 the highest
    Weight,       \* weights a policy may give
    Offer,        \* entries callers may queue: [key, tier, weight, class]
    MaxStreak,    \* max_consecutive_higher_grants
    Cap,          \* a deficit is worth at most Cap quanta (8 in the code)
    MaxTurns      \* bound: how far the history counts

Class == {"scarce", "flexible"}
NoKey == 0

ASSUME QueueAssumption ==
    /\ Tier \subseteq Nat /\ IsFiniteSet(Tier) /\ IsFiniteSet(Request) /\ IsFiniteSet(Key)
    /\ Weight \subseteq Nat \ {0} /\ IsFiniteSet(Weight) /\ Weight # {}
    /\ Key \subseteq Nat \ {NoKey}
    /\ Offer \subseteq [key : Key, tier : Tier, weight : Weight, class : Class]
    /\ MaxStreak \in Nat \ {0} /\ Cap \in Nat \ {0}
    /\ MaxTurns \in Nat

VARIABLES
    queue,     \* entries, oldest first
    fair,      \* _fairness
    sel,       \* the outstanding selection, in a sequence of its own
    turns      \* history: how often in a row each tier, class and key was passed over

vars == <<queue, fair, sel, turns>>

Entry == [id : Request, key : Key, tier : Tier, weight : Weight, class : Class]

Lane == Tier \X Class

FairnessState ==
    [classDeficit : [Lane -> Nat], classCursor : [Tier -> Class],
     keyDeficit : [Lane \X Key -> Nat], keyCursor : [Lane -> Key \cup {NoKey}],
     streak : 0..MaxStreak]

Start ==
    [classDeficit |-> [l \in Lane |-> 0], classCursor |-> [t \in Tier |-> "scarce"],
     keyDeficit |-> [k \in Lane \X Key |-> 0], keyCursor |-> [l \in Lane |-> NoKey],
     streak |-> 0]

Quantum(c) == IF c = "scarce" THEN 2 ELSE 1
Other(c)   == IF c = "scarce" THEN "flexible" ELSE "scarce"

Queued == {queue[i].id : i \in DOMAIN queue}

-----------------------------------------------------------------------------
(* propose, for the available positions A (eligible and not excluded).     *)

TopTier(A) == Min({queue[i].tier : i \in A})
Lower(A)   == {i \in A : queue[i].tier > TopTier(A)}

(* Mutant of ChosenTier: strict priority.                                  *)
AlwaysTop(A) == TopTier(A)

(* After enough grants past a lower tier, the tier of its oldest entry.    *)
ChosenTier(A) ==
    IF Lower(A) # {} /\ fair.streak >= MaxStreak
    THEN queue[Min(Lower(A))].tier
    ELSE TopTier(A)

InTier(A, t) == {i \in A : queue[i].tier = t}

(* The class at the cursor, or the other one if it has no entry.           *)
ChosenClass(A, t) ==
    IF \E i \in InTier(A, t) : queue[i].class = fair.classCursor[t]
    THEN fair.classCursor[t] ELSE Other(fair.classCursor[t])

InLane(A, l) == {i \in InTier(A, l[1]) : queue[i].class = l[2]}

KeysOf(A, l) == {queue[i].key : i \in InLane(A, l)}
OfKey(A, l, k) == {i \in InLane(A, l) : queue[i].key = k}
First(A, l, k) == Min(OfKey(A, l, k))

(* keys, sorted by their oldest entry.                                     *)
EarliestKey(A, l, K) == CHOOSE k \in K : \A j \in K : First(A, l, k) <= First(A, l, j)

ChosenKey(A, l) ==
    IF fair.keyCursor[l] \in KeysOf(A, l) THEN fair.keyCursor[l]
    ELSE EarliestKey(A, l, KeysOf(A, l))

(* Mutant of NextKey: the cursor stays.                                    *)
SameKey(A, l, k) == k

NextKey(A, l, k) ==
    LET behind == {j \in KeysOf(A, l) : First(A, l, j) > First(A, l, k)}
    IN  EarliestKey(A, l, IF behind = {} THEN KeysOf(A, l) ELSE behind)

(* Mutant of Charged: the quantum is added at every grant, without a cap.  *)
ChargedUncapped(d, quantum) == d + quantum - 1

(* A deficit is clamped, refilled when used up, and pays for one grant.    *)
Charged(d, quantum) ==
    LET kept == Min({d, Cap * quantum})
    IN  (IF kept <= 0 THEN Min({kept + quantum, Cap * quantum}) ELSE kept) - 1

Selection(A, l, k) ==
    LET cd == Charged(fair.classDeficit[l], Quantum(l[2]))
        kd == Charged(fair.keyDeficit[<<l, k>>],
                      Min({queue[i].weight : i \in OfKey(A, l, k)}))
    IN  [entry |-> queue[First(A, l, k)],
         fair  |-> [fair EXCEPT
                      !.classDeficit[l] = cd,
                      !.keyDeficit[<<l, k>>] = kd,
                      !.classCursor[l[1]] = IF cd = 0 THEN Other(l[2]) ELSE l[2],
                      !.keyCursor[l] = IF kd = 0 THEN NextKey(A, l, k) ELSE k,
                      !.streak = IF Lower(A) # {} /\ l[1] = TopTier(A)
                                 THEN fair.streak + 1 ELSE 0],
         fresh |-> TRUE,
         basis |-> fair,
         avail |-> {queue[i] : i \in A}]

Picks(A, l, k) ==
    /\ l[1] = ChosenTier(A) /\ l[2] = ChosenClass(A, l[1])
    /\ k = ChosenKey(A, l)

(* The one selection that propose returns.                                 *)
Selections(A) ==
    {Selection(A, p[1], p[2]) : p \in {q \in Lane \X Key : Picks(A, q[1], q[2])}}

-----------------------------------------------------------------------------
(* Operations.  Each change of the queue moves its version.                *)

Stale == [i \in DOMAIN sel |-> [sel[i] EXCEPT !.fresh = FALSE]]

Enqueue(r, e) ==
    /\ r \notin Queued
    /\ queue' = Append(queue, [id |-> r, key |-> e.key, tier |-> e.tier,
                               weight |-> e.weight, class |-> e.class])
    /\ sel' = Stale
    /\ UNCHANGED <<fair, turns>>

(* The queue without the entry of a request.                               *)
PositionOf(r) == CHOOSE i \in DOMAIN queue : queue[i].id = r
Without(r) == RemoveAt(queue, PositionOf(r))

Cancel(r) ==
    /\ r \in Queued
    /\ queue' = Without(r)
    /\ sel' = Stale
    /\ UNCHANGED <<fair, turns>>

(* Mutant of Contract: the version stays.                                  *)
ContractUnnoticed(i, t, w) ==
    LET e == queue[i]
        k == <<<<e.tier, e.class>>, e.key>>
    IN  /\ t >= e.tier /\ w <= e.weight
        /\ queue' = [queue EXCEPT ![i].tier = t, ![i].weight = w]
        /\ fair' = [fair EXCEPT !.keyDeficit[k] = Min({@, Cap * w})]
        /\ UNCHANGED <<sel, turns>>

(* contract: a publication may only lower the tier and the weight.  The    *)
(* deficit is clamped to the new weight when the tier stays.               *)
Contract(i, t, w) ==
    LET e == queue[i]
        k == <<<<e.tier, e.class>>, e.key>>
    IN  /\ t >= e.tier /\ w <= e.weight
        /\ queue' = [queue EXCEPT ![i].tier = t, ![i].weight = w]
        /\ fair' = IF t = e.tier /\ w < e.weight
                   THEN [fair EXCEPT !.keyDeficit[k] = Min({@, Cap * w})]
                   ELSE fair
        /\ sel' = Stale
        /\ UNCHANGED turns

Propose(A) ==
    /\ A # {} /\ sel = <<>>
    /\ \E s \in Selections(A) : sel' = <<s>>
    /\ UNCHANGED <<queue, fair, turns>>

(* History: who was available and passed over by this grant.               *)
LaneOf(e) == <<e.tier, e.class>>

Count(n, here, passed) == IF ~here THEN n ELSE IF passed THEN Min({n + 1, MaxTurns}) ELSE 0

Turns(s) ==
    LET e == s.entry
        l == LaneOf(e)
    IN  [tier  |-> [t \in Tier |-> Count(turns.tier[t], t >= e.tier,
                       t > e.tier /\ \E a \in s.avail : a.tier = t)],
         class |-> [m \in Lane |-> Count(turns.class[m], m[1] = e.tier,
                       m # l /\ \E a \in s.avail : LaneOf(a) = m)],
         key   |-> [m \in Lane \X Key |-> Count(turns.key[m], m[1] = l,
                       m[2] # e.key /\ \E a \in s.avail : LaneOf(a) = l /\ a.key = m[2])]]

Committed(s) ==
    /\ fair' = s.fair
    /\ queue' = Without(s.entry.id)
    /\ turns' = Turns(s)
    /\ sel' = <<>>

Commit ==
    /\ sel # <<>> /\ sel[1].fresh
    /\ Committed(sel[1])

(* commit raises on a stale selection; or the pump gives the selection up. *)
Drop ==
    /\ sel # <<>>
    /\ sel' = <<>>
    /\ UNCHANGED <<queue, fair, turns>>

Init ==
    /\ queue = <<>> /\ fair = Start /\ sel = <<>>
    /\ turns = [tier |-> [t \in Tier |-> 0], class |-> [l \in Lane |-> 0], key |-> [k \in Lane \X Key |-> 0]]

Next ==
    \/ \E r \in Request, e \in Offer : Enqueue(r, e)
    \/ \E r \in Request : Cancel(r)
    \/ \E i \in DOMAIN queue, t \in Tier, w \in Weight : Contract(i, t, w)
    \/ \E A \in SUBSET DOMAIN queue : Propose(A)
    \/ Commit
    \/ Drop

Spec == Init /\ [][Next]_vars

(* Under the pump's lock nothing comes between propose and commit.         *)
Grant(A) ==
    /\ A # {} /\ sel = <<>>
    /\ \E s \in Selections(A) : Committed(s)

Pump ==
    \/ \E r \in Request, e \in Offer : Enqueue(r, e)
    \/ \E r \in Request : Cancel(r)
    \/ \E i \in DOMAIN queue, t \in Tier, w \in Weight : Contract(i, t, w)
    \/ \E A \in SUBSET DOMAIN queue : Grant(A)

PumpSpec == Init /\ [][Pump]_vars

(* A busy queue: every entry is eligible, and capacity keeps coming back.  *)
Serve == Grant(DOMAIN queue) \/ \E r \in Request, e \in Offer : Enqueue(r, e)

ServeSpec == Init /\ [][Serve]_vars /\ WF_vars(Grant(DOMAIN queue))
-----------------------------------------------------------------------------
TypeOK ==
    /\ queue \in Seq(Entry) /\ fair \in FairnessState
    /\ sel # <<>> => sel[1].entry \in Entry /\ sel[1].fair \in FairnessState
    /\ \A l \in Lane : fair.classDeficit[l] <= Cap * Quantum(l[2])
    /\ turns.tier \in [Tier -> 0..MaxTurns] /\ turns.class \in [Lane -> 0..MaxTurns]
    /\ turns.key \in [Lane \X Key -> 0..MaxTurns]

(* A selection that commit accepts was computed from the queue and the     *)
(* deficits as they are now: no publication, cancellation or arrival came  *)
(* between and no charge is lost (commit checks the queue version).        *)
SelectionCurrent ==
    sel # <<>> /\ sel[1].fresh =>
        /\ sel[1].basis = fair
        /\ sel[1].avail \subseteq ToSet(queue) /\ sel[1].entry \in sel[1].avail

(* Aging: the next tier is passed over at most MaxStreak times in a row    *)
(* (max_consecutive_higher_grants), whatever is eligible when.             *)
AgingBound == \A t \in Tier : turns.tier[t] <= MaxStreak

(* No waiting class or key is passed over longer than its share: a         *)
(* flexible class sees at most two scarce grants in a row, a scarce class  *)
(* one flexible grant, and of two keys in a lane neither is passed over    *)
(* more often than the other's weight allows, contractions of that weight  *)
(* included (propose).                                                     *)
FairShares ==
    /\ \A l \in Lane : turns.class[l] <= Quantum(Other(l[2]))
    /\ Cardinality(Key) = 2 => \A k \in Lane \X Key : turns.key[k] <= Max(Weight)

(* No starvation: a request that stays eligible is granted, however many   *)
(* others keep arriving (propose serves the key at the cursor, then moves  *)
(* it along the keys sorted by their oldest entry).                        *)
NoStarvation == \A r \in Request : r \in Queued ~> r \notin Queued
=============================================================================
