-------------------------- MODULE WDRRQueueProofs ---------------------------
(***************************************************************************)
(* Proofs about WDRRQueue: whatever is queued, cancelled, contracted and   *)
(* eligible, a selection that commits is current, no class or key waits    *)
(* longer than its share and aging bounds the wait of a lower tier.        *)
(***************************************************************************)
EXTENDS WDRRQueue, FiniteSetTheorems, SequenceTheorems, TLAPS

(* A step of any of the three specifications.                              *)
Step == Next \/ \E A \in SUBSET DOMAIN queue : Grant(A)

Ticket ==
    [entry : Entry, fair : FairnessState, fresh : BOOLEAN, basis : FairnessState,
     avail : SUBSET Entry]

History ==
    [tier : [Tier -> 0..MaxTurns], class : [Lane -> 0..MaxTurns],
     key : [Lane \X Key -> 0..MaxTurns]]

Typed ==
    /\ queue \in Seq(Entry) /\ fair \in FairnessState /\ turns \in History
    /\ sel \in Seq(Ticket) /\ Len(sel) <= 1

(* A selection that commit would accept is what propose would return now,  *)
(* for some set of available entries.                                      *)
Proposed ==
    sel # <<>> /\ sel[1].fresh =>
        \E A \in SUBSET DOMAIN queue : A # {} /\ sel[1] \in Selections(A)

(* The class at the cursor has this much left of its quantum, and used the *)
(* rest while the other class was passed over.                             *)
ClassShare(f, u) ==
    \A t \in Tier : \A c \in Class :
        /\ f.classDeficit[<<t, c>>] < Quantum(c)
        /\ u.class[<<t, c>>] <= Quantum(Other(c))
        /\ f.classCursor[t] = c =>
               /\ u.class[<<t, Other(c)>>] + f.classDeficit[<<t, c>>] <= Quantum(c)
               /\ f.classDeficit[<<t, c>>] = 0 => u.class[<<t, Other(c)>>] = 0

(* The same of two keys of a lane, with the greatest weight as quantum.    *)
KeyShare(f, u) ==
    \A l \in Lane : \A k, j \in Key : k # j =>
        /\ f.keyDeficit[<<l, k>>] < Max(Weight)
        /\ u.key[<<l, k>>] <= Max(Weight)
        /\ f.keyCursor[l] = k =>
               /\ u.key[<<l, j>>] + f.keyDeficit[<<l, k>>] <= Max(Weight)
               /\ f.keyDeficit[<<l, k>>] = 0 => u.key[<<l, j>>] = 0
        /\ f.keyCursor[l] = NoKey =>
               f.keyDeficit[<<l, k>>] = 0 /\ u.key[<<l, k>>] = 0

(* Only the lower of two tiers is passed over, and no more often than the  *)
(* streak of grants says.                                                  *)
Aged(f, u) ==
    \A t \in Tier :
        /\ u.tier[t] <= f.streak
        /\ (\A v \in Tier : t <= v) => u.tier[t] = 0

TwoTiers == \A a, b, c \in Tier : ~(a < b /\ b < c)
TwoKeys  == \A a, b, c \in Key : a = b \/ b = c \/ a = c

-----------------------------------------------------------------------------
(* The least and the greatest of a set of numbers.                         *)

(* Of the sets of numbers below a member, one has no smaller one.          *)
LEMMA Least ==
    ASSUME NEW S \in SUBSET Nat, S # {}
    PROVE  \E n \in S : \A m \in S : n <= m
<1> DEFINE D(n) == {m \in S : m < n}
           T == {D(n) : n \in S}
<1>1. T \subseteq FiniteSubsetsOf(Nat)
  <2> SUFFICES ASSUME NEW n \in S PROVE D(n) \in FiniteSubsetsOf(Nat)
    OBVIOUS
  <2>1. IsFiniteSet(D(n))
    BY FS_BoundedSetOfNaturals
  <2> QED BY <2>1 DEF FiniteSubsetsOf
<1>2. PICK x \in T : \A y \in T : ~(<<y, x>> \in StrictSubsetOrdering(Nat))
  <2> DEFINE R == StrictSubsetOrdering(Nat)
             F == FiniteSubsetsOf(Nat)
  <2>1. IsWellFoundedOn(R, F)
    BY FS_StrictSubsetOrderingWellFounded
  <2>2. T # {} /\ T \subseteq F
    BY <1>1
  <2> HIDE DEF R, F, T
  <2>3. \E x \in T : \A y \in T : ~(<<y, x>> \in R)
    BY <2>1, <2>2, WFMin
  <2> QED BY <2>3 DEF R
<1>3. PICK n \in S : x = D(n)
  BY <1>2
<1>4. ASSUME NEW m \in S, m < n PROVE FALSE
  <2>1. D(m) \in T
    OBVIOUS
  <2>2. D(m) \subseteq D(n)
    <3> SUFFICES ASSUME NEW k \in S, k < m PROVE k < n
      OBVIOUS
    <3>1. k \in Nat /\ m \in Nat /\ n \in Nat
      OBVIOUS
    <3> QED BY <1>4, <3>1
  <2>3. m \in D(n) /\ m \notin D(m) /\ D(n) \subseteq Nat
    <3>1. m \in Nat /\ ~(m < m)
      OBVIOUS
    <3> QED BY <1>4, <3>1
  <2>4. <<D(m), x>> \in StrictSubsetOrdering(Nat)
    <3>1. D(m) \subseteq x /\ D(m) # x /\ x \subseteq Nat
      BY <1>3, <2>2, <2>3
    <3> HIDE DEF D
    <3> QED BY <3>1 DEF StrictSubsetOrdering
  <2> QED BY <1>2, <2>1, <2>4
<1> QED BY <1>4

LEMMA Lowest ==
    ASSUME NEW S \in SUBSET Nat, S # {}
    PROVE  Min(S) \in S /\ \A m \in S : Min(S) <= m
  BY Least DEF Min

(* The lesser of two numbers.                                              *)
LEMMA Lesser ==
    ASSUME NEW a \in Nat, NEW b \in Nat
    PROVE  /\ Min({a, b}) \in Nat /\ Min({a, b}) <= a /\ Min({a, b}) <= b
           /\ Min({a, b}) = a \/ Min({a, b}) = b
<1>1. {a, b} \in SUBSET Nat /\ {a, b} # {}
  OBVIOUS
<1>2. Min({a, b}) \in {a, b} /\ \A m \in {a, b} : Min({a, b}) <= m
  BY <1>1, Lowest
<1> QED BY <1>2

(* A finite set of numbers has a greatest one.                             *)
LEMMA Greatest ==
    ASSUME NEW S \in SUBSET Nat, S # {}, IsFiniteSet(S)
    PROVE  Max(S) \in S /\ \A m \in S : m <= Max(S)
<1> DEFINE D(n) == {m \in S : m > n}
           T == {D(n) : n \in S}
<1>1. T \subseteq FiniteSubsetsOf(Nat)
  <2> SUFFICES ASSUME NEW n \in S PROVE D(n) \in FiniteSubsetsOf(Nat)
    OBVIOUS
  <2>1. IsFiniteSet(D(n))
    BY FS_Subset
  <2> QED BY <2>1 DEF FiniteSubsetsOf
<1>2. PICK x \in T : \A y \in T : ~(<<y, x>> \in StrictSubsetOrdering(Nat))
  <2> DEFINE R == StrictSubsetOrdering(Nat)
             F == FiniteSubsetsOf(Nat)
  <2>1. IsWellFoundedOn(R, F)
    BY FS_StrictSubsetOrderingWellFounded
  <2>2. T # {} /\ T \subseteq F
    BY <1>1
  <2> HIDE DEF R, F, T
  <2>3. \E x \in T : \A y \in T : ~(<<y, x>> \in R)
    BY <2>1, <2>2, WFMin
  <2> QED BY <2>3 DEF R
<1>3. PICK n \in S : x = D(n)
  BY <1>2
<1>4. ASSUME NEW m \in S, m > n PROVE FALSE
  <2>1. D(m) \in T
    OBVIOUS
  <2>2. D(m) \subseteq D(n)
    <3> SUFFICES ASSUME NEW k \in S, k > m PROVE k > n
      OBVIOUS
    <3>1. k \in Nat /\ m \in Nat /\ n \in Nat
      OBVIOUS
    <3> QED BY <1>4, <3>1
  <2>3. m \in D(n) /\ m \notin D(m) /\ D(n) \subseteq Nat
    <3>1. m \in Nat /\ ~(m > m)
      OBVIOUS
    <3> QED BY <1>4, <3>1
  <2>4. <<D(m), x>> \in StrictSubsetOrdering(Nat)
    BY <1>3, <2>2, <2>3 DEF StrictSubsetOrdering
  <2> QED BY <1>2, <2>1, <2>4
<1>5. n \in S /\ \A m \in S : n >= m
  <2> SUFFICES ASSUME NEW m \in S PROVE n >= m
    OBVIOUS
  <2>1. n \in Nat /\ m \in Nat
    OBVIOUS
  <2> QED BY <1>4, <2>1
<1>6. Max(S) \in S /\ \A y \in S : Max(S) >= y
  BY <1>5 DEF Max
<1> QED BY <1>6

-----------------------------------------------------------------------------
(* What one grant costs.                                                   *)

(* A used-up deficit is refilled to the quantum; one is paid.              *)
Paid(d, e, quantum) ==
    /\ e \in Nat
    /\ d = 0 => e = quantum - 1
    /\ d > 0 => e <= d - 1

LEMMA Quanta ==
    ASSUME NEW q \in Nat \ {0}
    PROVE  Cap * q \in Nat /\ q <= Cap * q
<1>1. Cap \in Nat /\ Cap >= 1 /\ q \in Nat
  BY QueueAssumption
<1>2. PICK c \in Nat : Cap = c + 1
  <2>1. Cap - 1 \in Nat /\ Cap = (Cap - 1) + 1
    BY <1>1
  <2> QED BY <2>1
<1>3. (c + 1) * q = c * q + q /\ c * q \in Nat
  BY <1>1
<1> QED BY <1>1, <1>2, <1>3

LEMMA ChargedPays ==
    ASSUME NEW d \in Nat, NEW q \in Nat \ {0}
    PROVE  Paid(d, Charged(d, q), q)
<1> DEFINE x == Cap * q
           kept == Min({d, x})
<1>1. x \in Nat /\ q <= x /\ q \in Nat /\ q >= 1
  BY Quanta
<1>2. kept \in Nat /\ kept <= d /\ (kept = d \/ kept = x)
  BY <1>1, Lesser
<1>3. kept = 0 => kept + q = q
  BY <1>1
<1>4. Min({q, x}) = q
  BY <1>1, Lesser
<1>5. Charged(d, q) = (IF kept <= 0 THEN Min({kept + q, x}) ELSE kept) - 1
  BY DEF Charged
<1> HIDE DEF x, kept
<1>6. CASE kept = 0
  <2>1. d = 0 /\ Charged(d, q) = q - 1
    BY <1>1, <1>2, <1>3, <1>4, <1>5, <1>6
  <2> QED BY <1>1, <2>1 DEF Paid
<1>7. CASE kept # 0
  <2>1. kept > 0 /\ ~(kept <= 0) /\ d > 0
    BY <1>2, <1>7
  <2>2. Charged(d, q) = kept - 1
    BY <1>5, <2>1
  <2> QED BY <1>2, <2>1, <2>2 DEF Paid
<1> QED BY <1>6, <1>7

-----------------------------------------------------------------------------
(* Whom propose serves.                                                    *)

LEMMA Positions ==
    ASSUME queue \in Seq(Entry), NEW A \in SUBSET DOMAIN queue
    PROVE  A \subseteq Nat /\ \A i \in A : queue[i] \in Entry
  OBVIOUS

(* The tier of an available entry; past the highest one only by aging.     *)
TierServed(A, t) ==
    /\ \E i \in A : queue[i].tier = t
    /\ \A i \in A : TopTier(A) <= queue[i].tier
    /\ Lower(A) = {} => t = TopTier(A)
    /\ Lower(A) # {} /\ fair.streak >= MaxStreak => t > TopTier(A)

LEMMA TierChosen ==
    ASSUME queue \in Seq(Entry), NEW A \in SUBSET DOMAIN queue, A # {}
    PROVE  TierServed(A, ChosenTier(A))
<1> DEFINE T == {queue[i].tier : i \in A}
<1>1. A \subseteq Nat /\ \A i \in A : queue[i].tier \in Nat
  BY Positions, QueueAssumption DEF Entry
<1>2. TopTier(A) \in T /\ \A n \in T : TopTier(A) <= n
  <2>1. T \in SUBSET Nat /\ T # {}
    BY <1>1
  <2> QED BY <2>1, Lowest DEF TopTier
<1>3. CASE Lower(A) # {}
  <2>1. Min(Lower(A)) \in Lower(A)
    <3>1. Lower(A) \in SUBSET Nat
      BY <1>1 DEF Lower
    <3> QED BY <1>3, <3>1, Lowest
  <2>2. Min(Lower(A)) \in A /\ queue[Min(Lower(A))].tier > TopTier(A)
    BY <2>1 DEF Lower
  <2> QED BY <1>1, <1>2, <1>3, <2>2 DEF ChosenTier, TierServed
<1>4. CASE Lower(A) = {}
  BY <1>1, <1>2, <1>4 DEF ChosenTier, TierServed
<1> QED BY <1>3, <1>4

(* The class at the cursor, unless nobody of it is there.                  *)
ClassServed(A, t, c) ==
    /\ InLane(A, <<t, c>>) # {}
    /\ c # fair.classCursor[t] => InLane(A, <<t, fair.classCursor[t]>>) = {}

LEMMA ClassChosen ==
    ASSUME queue \in Seq(Entry), fair \in FairnessState, NEW A \in SUBSET DOMAIN queue,
           NEW t \in Tier, \E i \in A : queue[i].tier = t
    PROVE  ClassServed(A, t, ChosenClass(A, t))
<1> DEFINE c == fair.classCursor[t]
<1>1. c \in Class
  BY DEF FairnessState
<1>2. \A x : InLane(A, <<t, x>>) = {i \in InTier(A, t) : queue[i].class = x}
  BY DEF InLane
<1>3. CASE \E i \in InTier(A, t) : queue[i].class = c
  <2>1. ChosenClass(A, t) = c
    BY <1>3 DEF ChosenClass
  <2> QED BY <1>2, <1>3, <2>1 DEF ClassServed
<1>4. CASE ~ \E i \in InTier(A, t) : queue[i].class = c
  <2>1. ChosenClass(A, t) = Other(c)
    BY <1>4 DEF ChosenClass
  <2>2. PICK i \in A : queue[i].tier = t
    OBVIOUS
  <2>3. queue[i].class \in Class /\ i \in InTier(A, t)
    BY <2>2, Positions DEF Entry, InTier
  <2>4. queue[i].class = Other(c)
    BY <1>1, <1>4, <2>3 DEF Class, Other
  <2> QED BY <1>2, <1>4, <2>1, <2>3, <2>4 DEF ClassServed
<1> QED BY <1>3, <1>4

LEMMA FirstIs ==
    ASSUME queue \in Seq(Entry), NEW A \in SUBSET DOMAIN queue, NEW l,
           NEW k \in KeysOf(A, l)
    PROVE  /\ First(A, l, k) \in OfKey(A, l, k) /\ First(A, l, k) \in Nat
           /\ First(A, l, k) \in InLane(A, l) /\ queue[First(A, l, k)].key = k
<1>1. OfKey(A, l, k) # {}
  BY DEF KeysOf, OfKey
<1>2. OfKey(A, l, k) \in SUBSET Nat
  BY Positions DEF OfKey, InLane, InTier
<1>3. First(A, l, k) \in OfKey(A, l, k)
  BY <1>1, <1>2, Lowest DEF First
<1> QED BY <1>2, <1>3 DEF OfKey

LEMMA EarliestIs ==
    ASSUME queue \in Seq(Entry), NEW A \in SUBSET DOMAIN queue, NEW l,
           NEW K \in SUBSET KeysOf(A, l), K # {}
    PROVE  /\ EarliestKey(A, l, K) \in K
           /\ \A j \in K : First(A, l, EarliestKey(A, l, K)) <= First(A, l, j)
<1> DEFINE F(j) == First(A, l, j)
           T == {F(j) : j \in K}
<1>1. T \in SUBSET Nat /\ T # {}
  BY FirstIs
<1>2. PICK n \in T : \A m \in T : n <= m
  BY <1>1, Least
<1>3. PICK k \in K : n = F(k)
  BY <1>2
<1>4. \A j \in K : F(k) <= F(j)
  BY <1>2, <1>3
<1> QED BY <1>4 DEF EarliestKey

(* The key at the cursor, unless it has nothing there.                     *)
KeyServed(A, l, k) ==
    /\ k \in KeysOf(A, l)
    /\ fair.keyCursor[l] \in KeysOf(A, l) => k = fair.keyCursor[l]

LEMMA KeyChosen ==
    ASSUME queue \in Seq(Entry), NEW A \in SUBSET DOMAIN queue, NEW l, InLane(A, l) # {}
    PROVE  KeyServed(A, l, ChosenKey(A, l))
<1>1. KeysOf(A, l) # {}
  BY DEF KeysOf
<1>2. EarliestKey(A, l, KeysOf(A, l)) \in KeysOf(A, l)
  BY <1>1, EarliestIs
<1> QED BY <1>2 DEF ChosenKey, KeyServed

(* The cursor moves on: only a key that is alone follows itself.           *)
KeyFollows(A, l, k, n) ==
    /\ n \in KeysOf(A, l)
    /\ n = k => KeysOf(A, l) = {k}

LEMMA NextKeyFollows ==
    ASSUME queue \in Seq(Entry), NEW A \in SUBSET DOMAIN queue, NEW l,
           NEW k \in KeysOf(A, l)
    PROVE  KeyFollows(A, l, k, NextKey(A, l, k))
<1> DEFINE behind == {j \in KeysOf(A, l) : First(A, l, j) > First(A, l, k)}
           K == IF behind = {} THEN KeysOf(A, l) ELSE behind
<1>1. K \in SUBSET KeysOf(A, l) /\ K # {} /\ NextKey(A, l, k) = EarliestKey(A, l, K)
  BY DEF NextKey
<1> HIDE DEF K
<1>2. /\ NextKey(A, l, k) \in K
      /\ \A j \in K : First(A, l, NextKey(A, l, k)) <= First(A, l, j)
  BY <1>1, EarliestIs
<1>3. ASSUME NextKey(A, l, k) = k, NEW j \in KeysOf(A, l), j # k PROVE FALSE
  <2>1. /\ First(A, l, k) \in Nat /\ queue[First(A, l, k)].key = k
        /\ First(A, l, j) \in Nat /\ queue[First(A, l, j)].key = j
    BY FirstIs
  <2>2. First(A, l, k) # First(A, l, j)
    BY <1>3, <2>1
  <2>3. CASE behind = {}
    <3>1. ~(First(A, l, j) > First(A, l, k))
      BY <2>3
    <3>2. First(A, l, k) <= First(A, l, j)
      BY <1>2, <1>3, <2>3 DEF K
    <3> QED BY <2>1, <2>2, <3>1, <3>2
  <2>4. CASE behind # {}
    <3>1. First(A, l, k) > First(A, l, k)
      BY <1>2, <1>3, <2>4 DEF K
    <3> QED BY <2>1, <3>1
  <2> QED BY <2>3, <2>4
<1> QED BY <1>1, <1>2, <1>3 DEF KeyFollows

-----------------------------------------------------------------------------
(* What propose returns.                                                   *)

Advance(f, l, k, cd, kd, cc, kc, st) ==
    [f EXCEPT !.classDeficit[l] = cd, !.keyDeficit[<<l, k>>] = kd,
              !.classCursor[l[1]] = cc, !.keyCursor[l] = kc, !.streak = st]

(* The state a grant leaves: one class, one key and their cursors moved.   *)
Advanced(f, g, t, c, k, cd, kd, cc, kc, st) ==
    /\ g \in FairnessState
    /\ g.classDeficit = [f.classDeficit EXCEPT ![<<t, c>>] = cd]
    /\ g.keyDeficit = [f.keyDeficit EXCEPT ![<<<<t, c>>, k>>] = kd]
    /\ g.classCursor = [f.classCursor EXCEPT ![t] = cc]
    /\ g.keyCursor = [f.keyCursor EXCEPT ![<<t, c>>] = kc]
    /\ g.streak = st

LEMMA AdvanceIs ==
    ASSUME NEW f \in FairnessState, NEW t \in Tier, NEW c \in Class, NEW k \in Key,
           NEW cd \in Nat, NEW kd \in Nat, NEW cc \in Class, NEW kc \in Key,
           NEW st \in 0..MaxStreak
    PROVE  Advanced(f, Advance(f, <<t, c>>, k, cd, kd, cc, kc, st), t, c, k, cd, kd, cc, kc, st)
<1> DEFINE l == <<t, c>>
           g == Advance(f, l, k, cd, kd, cc, kc, st)
           cds == [f.classDeficit EXCEPT ![l] = cd]
           kds == [f.keyDeficit EXCEPT ![<<l, k>>] = kd]
           ccs == [f.classCursor EXCEPT ![t] = cc]
           kcs == [f.keyCursor EXCEPT ![l] = kc]
<1>1. l \in Lane /\ <<l, k>> \in Lane \X Key /\ l[1] = t
  BY DEF Lane
<1>2. /\ f.classDeficit \in [Lane -> Nat] /\ f.keyDeficit \in [Lane \X Key -> Nat]
      /\ f.classCursor \in [Tier -> Class] /\ f.keyCursor \in [Lane -> Key \cup {NoKey}]
  BY DEF FairnessState
<1>3. /\ cds \in [Lane -> Nat] /\ kds \in [Lane \X Key -> Nat]
      /\ ccs \in [Tier -> Class] /\ kcs \in [Lane -> Key \cup {NoKey}]
  BY <1>1, <1>2
<1>4. g = [classDeficit |-> cds, classCursor |-> ccs, keyDeficit |-> kds, keyCursor |-> kcs,
           streak |-> st]
  <2> DEFINE R(a, b, x, d, e) == [classDeficit |-> a, classCursor |-> b, keyDeficit |-> x,
                                  keyCursor |-> d, streak |-> e]
             f1 == [f EXCEPT !.classDeficit[l] = cd]
             f2 == [f1 EXCEPT !.keyDeficit[<<l, k>>] = kd]
             f3 == [f2 EXCEPT !.classCursor[l[1]] = cc]
             f4 == [f3 EXCEPT !.keyCursor[l] = kc]
             f5 == [f4 EXCEPT !.streak = st]
  <2>1. f = R(f.classDeficit, f.classCursor, f.keyDeficit, f.keyCursor, f.streak)
    BY DEF FairnessState
  <2>2. g = f5
    BY DEF Advance
  <2> HIDE DEF l
  <2>3. f1 = R(cds, f.classCursor, f.keyDeficit, f.keyCursor, f.streak)
    BY <2>1
  <2> HIDE DEF f1, cds
  <2>4. f2 = R(cds, f.classCursor, kds, f.keyCursor, f.streak)
    BY <2>3
  <2> HIDE DEF f2, kds
  <2>5. f3 = R(cds, ccs, kds, f.keyCursor, f.streak)
    BY <2>4, <1>1
  <2> HIDE DEF f3, ccs
  <2>6. f4 = R(cds, ccs, kds, kcs, f.streak)
    BY <2>5
  <2> HIDE DEF f4, kcs, g
  <2> QED BY <2>2, <2>6
<1> HIDE DEF l, g, cds, kds, ccs, kcs
<1>5. g \in FairnessState
  BY <1>3, <1>4 DEF FairnessState
<1>6. /\ g.classDeficit = cds /\ g.keyDeficit = kds /\ g.classCursor = ccs
      /\ g.keyCursor = kcs /\ g.streak = st
  BY <1>4
<1> QED BY <1>5, <1>6 DEF Advanced, l, g, cds, kds, ccs, kcs

(* The selection from the available positions A: whom it serves, what they *)
(* pay, and where the cursors go.                                          *)
Streak(A, t) == IF Lower(A) # {} /\ t = TopTier(A) THEN fair.streak + 1 ELSE 0

Facts(s, A, t, c, k) ==
    /\ s.entry \in s.avail /\ s.fresh = TRUE /\ s.basis = fair /\ s.avail = {queue[i] : i \in A}
    /\ s.entry.tier = t /\ s.entry.class = c /\ s.entry.key = k

Served(A, t, c, k) ==
    TierServed(A, t) /\ ClassServed(A, t, c) /\ KeyServed(A, <<t, c>>, k)

Charges(t, c, k, cd, kd, q) ==
    /\ Paid(fair.classDeficit[<<t, c>>], cd, Quantum(c))
    /\ Paid(fair.keyDeficit[<<<<t, c>>, k>>], kd, q)

Outcome(s, A, t, c, k, cd, kd, q, n) ==
    /\ Facts(s, A, t, c, k) /\ Served(A, t, c, k) /\ Charges(t, c, k, cd, kd, q)
    /\ KeyFollows(A, <<t, c>>, k, n)
    /\ Advanced(fair, s.fair, t, c, k, cd, kd, IF cd = 0 THEN Other(c) ELSE c,
                IF kd = 0 THEN n ELSE k, Streak(A, t))

LEMMA Selected ==
    ASSUME queue \in Seq(Entry), fair \in FairnessState, NEW A \in SUBSET DOMAIN queue,
           A # {}, NEW s \in Selections(A)
    PROVE  /\ \E t \in Tier, c \in Class, k \in Key, cd \in Nat, kd \in Nat, q \in Weight, n \in Key :
                  Outcome(s, A, t, c, k, cd, kd, q, n)
           /\ s \in Ticket
<1>1. PICK p \in Lane \X Key : Picks(A, p[1], p[2]) /\ s = Selection(A, p[1], p[2])
  BY DEF Selections
<1>2. PICK t \in Tier, c \in Class, k \in Key : p = <<<<t, c>>, k>>
  BY DEF Lane
<1> DEFINE l == <<t, c>>
           f == First(A, l, k)
           q == Min({queue[i].weight : i \in OfKey(A, l, k)})
           cd == Charged(fair.classDeficit[l], Quantum(c))
           kd == Charged(fair.keyDeficit[<<l, k>>], q)
           n == NextKey(A, l, k)
           cc == IF cd = 0 THEN Other(c) ELSE c
           kc == IF kd = 0 THEN n ELSE k
           st == Streak(A, t)
<1>3. t = ChosenTier(A) /\ c = ChosenClass(A, t) /\ k = ChosenKey(A, l) /\ s = Selection(A, l, k)
  BY <1>1, <1>2 DEF Picks
<1>4. Served(A, t, c, k)
  <2>1. TierServed(A, t)
    BY <1>3, TierChosen
  <2>2. ClassServed(A, t, c)
    BY <1>3, <2>1, ClassChosen DEF TierServed
  <2>3. KeyServed(A, l, k)
    BY <1>3, <2>2, KeyChosen DEF ClassServed
  <2> QED BY <2>1, <2>2, <2>3 DEF Served
<1>5. k \in KeysOf(A, l)
  BY <1>4 DEF Served, KeyServed
<1>6. f \in OfKey(A, l, k) /\ f \in A /\ queue[f] \in Entry
      /\ queue[f].tier = t /\ queue[f].class = c /\ queue[f].key = k
  <2>1. f \in OfKey(A, l, k)
    BY <1>5, FirstIs
  <2> QED BY <2>1, Positions DEF OfKey, InLane, InTier
<1>7. q \in Weight
  <2> DEFINE W == {queue[i].weight : i \in OfKey(A, l, k)}
  <2>1. W # {} /\ W \subseteq Weight
    BY <1>6, Positions, ZenonT(60) DEF OfKey, InLane, InTier, Entry
  <2> HIDE DEF W
  <2>2. W \in SUBSET Nat
    BY <2>1, QueueAssumption
  <2>3. Min(W) \in W
    BY <2>1, <2>2, Lowest
  <2> QED BY <2>1, <2>3 DEF W
<1>8. Charges(t, c, k, cd, kd, q) /\ cd \in Nat /\ kd \in Nat
  <2>1. fair.classDeficit[l] \in Nat /\ fair.keyDeficit[<<l, k>>] \in Nat
    BY DEF FairnessState, Lane
  <2>2. Quantum(c) \in Nat \ {0} /\ q \in Nat \ {0}
    <3>1. q \in Nat \ {0}
      BY <1>7, QueueAssumption
    <3> QED BY <3>1 DEF Quantum
  <2>3. Paid(fair.classDeficit[l], cd, Quantum(c)) /\ Paid(fair.keyDeficit[<<l, k>>], kd, q)
    BY <2>1, <2>2, ChargedPays
  <2> QED BY <2>3 DEF Charges, Paid
<1>9. KeyFollows(A, l, k, n) /\ n \in Key
  <2>1. KeyFollows(A, l, k, n)
    BY <1>5, NextKeyFollows
  <2>2. KeysOf(A, l) \subseteq Key
    BY Positions DEF KeysOf, InLane, InTier, Entry
  <2> QED BY <2>1, <2>2 DEF KeyFollows
<1>10. st \in 0..MaxStreak
  <2>1. fair.streak \in 0..MaxStreak /\ MaxStreak \in Nat
    BY QueueAssumption DEF FairnessState
  <2>2. TopTier(A) \in Nat
    <3> DEFINE T == {queue[i].tier : i \in A}
    <3>1. \A i \in A : queue[i].tier \in Nat
      BY Positions, QueueAssumption DEF Entry
    <3>2. T \in SUBSET Nat /\ T # {}
      BY <3>1
    <3> QED BY <3>2, Lowest DEF TopTier
  <2>3. Lower(A) # {} /\ t = TopTier(A) => fair.streak < MaxStreak
    <3>1. TierServed(A, t)
      BY <1>4 DEF Served
    <3> QED BY <2>1, <2>2, <3>1 DEF TierServed
  <2> QED BY <2>1, <2>3 DEF Streak
<1>11. s = [entry |-> queue[f], fair |-> Advance(fair, l, k, cd, kd, cc, kc, st), fresh |-> TRUE,
            basis |-> fair, avail |-> {queue[i] : i \in A}]
  BY <1>3 DEF Selection, Advance, Streak
<1> HIDE DEF l, f, q, cd, kd, n, cc, kc, st
<1>12. cc \in Class /\ kc \in Key
  BY <1>9 DEF cc, kc, Other, Class
<1>13. Advanced(fair, s.fair, t, c, k, cd, kd, cc, kc, st)
  <2>1. s.fair = Advance(fair, l, k, cd, kd, cc, kc, st)
    BY <1>11
  <2> QED BY <1>8, <1>10, <1>12, <2>1, AdvanceIs DEF l
<1>14. Facts(s, A, t, c, k)
  BY <1>6, <1>11 DEF Facts
<1>15. s \in Ticket
  <2>1. s.fair \in FairnessState
    BY <1>13 DEF Advanced
  <2>2. {queue[i] : i \in A} \in SUBSET Entry
    BY Positions
  <2> QED BY <1>6, <1>11, <2>1, <2>2 DEF Ticket
<1>16. Outcome(s, A, t, c, k, cd, kd, q, n)
  BY <1>4, <1>8, <1>9, <1>13, <1>14 DEF Outcome, cc, kc, st, l
<1> QED BY <1>7, <1>8, <1>9, <1>15, <1>16

-----------------------------------------------------------------------------
(* What a grant does to the history.                                       *)

(* n becomes m: counted on at most once, and forgotten unless passed over. *)
Tallied(n, m, here, passed) ==
    /\ m \in 0..MaxTurns /\ m <= n + 1
    /\ ~here => m = n
    /\ here /\ ~passed => m = 0

LEMMA CountTallies ==
    ASSUME NEW n \in 0..MaxTurns, NEW here \in BOOLEAN, NEW passed \in BOOLEAN
    PROVE  Tallied(n, Count(n, here, passed), here, passed)
<1>1. MaxTurns \in Nat /\ n + 1 \in Nat
  BY QueueAssumption
<1>2. Min({n + 1, MaxTurns}) \in 0..MaxTurns /\ Min({n + 1, MaxTurns}) <= n + 1
  BY <1>1, Lesser
<1> QED BY <1>1, <1>2 DEF Count, Tallied

PassedTier(s, x)   == x > s.entry.tier /\ \E a \in s.avail : a.tier = x
PassedClass(s, m)  == m # LaneOf(s.entry) /\ \E a \in s.avail : LaneOf(a) = m
PassedKey(s, l, k) == k # s.entry.key /\ \E a \in s.avail : LaneOf(a) = l /\ a.key = k

Remembers(s, u) ==
    /\ u \in History
    /\ \A x \in Tier : Tallied(turns.tier[x], u.tier[x], x >= s.entry.tier, PassedTier(s, x))
    /\ \A m \in Lane : Tallied(turns.class[m], u.class[m], m[1] = s.entry.tier, PassedClass(s, m))
    /\ \A m \in Lane, k \in Key :
           Tallied(turns.key[<<m, k>>], u.key[<<m, k>>], m = LaneOf(s.entry), PassedKey(s, m, k))

LEMMA TurnsRemember ==
    ASSUME turns \in History, NEW s \in Ticket
    PROVE  Remembers(s, Turns(s))
<1> DEFINE e == s.entry
           l == LaneOf(e)
           ut == [t \in Tier |-> Count(turns.tier[t], t >= e.tier,
                     t > e.tier /\ \E a \in s.avail : a.tier = t)]
           uc == [m \in Lane |-> Count(turns.class[m], m[1] = e.tier,
                     m # l /\ \E a \in s.avail : LaneOf(a) = m)]
           uk == [m \in Lane \X Key |-> Count(turns.key[m], m[1] = l,
                     m[2] # e.key /\ \E a \in s.avail : LaneOf(a) = l /\ a.key = m[2])]
<1>1. Turns(s) = [tier |-> ut, class |-> uc, key |-> uk]
  BY DEF Turns
<1>2. /\ turns.tier \in [Tier -> 0..MaxTurns] /\ turns.class \in [Lane -> 0..MaxTurns]
      /\ turns.key \in [Lane \X Key -> 0..MaxTurns]
  BY DEF History
<1>3. ASSUME NEW x \in Tier
      PROVE  Tallied(turns.tier[x], ut[x], x >= e.tier, PassedTier(s, x))
  <2>1. turns.tier[x] \in 0..MaxTurns /\ (x >= e.tier) \in BOOLEAN /\ PassedTier(s, x) \in BOOLEAN
    BY <1>2 DEF PassedTier
  <2>2. ut[x] = Count(turns.tier[x], x >= e.tier, PassedTier(s, x))
    BY DEF PassedTier
  <2> QED BY <2>1, <2>2, CountTallies
<1>4. ASSUME NEW m \in Lane
      PROVE  Tallied(turns.class[m], uc[m], m[1] = e.tier, PassedClass(s, m))
  <2>1. turns.class[m] \in 0..MaxTurns /\ (m[1] = e.tier) \in BOOLEAN /\ PassedClass(s, m) \in BOOLEAN
    BY <1>2 DEF PassedClass
  <2>2. uc[m] = Count(turns.class[m], m[1] = e.tier, PassedClass(s, m))
    BY DEF PassedClass
  <2> QED BY <2>1, <2>2, CountTallies
<1>5. ASSUME NEW m \in Lane, NEW k \in Key
      PROVE  Tallied(turns.key[<<m, k>>], uk[<<m, k>>], m = l, PassedKey(s, m, k))
  <2> DEFINE x == <<m, k>>
             P == k # e.key /\ \E a \in s.avail : LaneOf(a) = l /\ a.key = k
  <2>1. x \in Lane \X Key /\ x[1] = m /\ x[2] = k
    OBVIOUS
  <2>2. turns.key[x] \in 0..MaxTurns /\ (m = l) \in BOOLEAN /\ P \in BOOLEAN
    BY <1>2, <2>1
  <2>3. uk[x] = Count(turns.key[x], m = l, P)
    BY <2>1
  <2>4. Tallied(turns.key[x], uk[x], m = l, P)
    BY <2>2, <2>3, CountTallies
  <2>5. m = l => (P <=> PassedKey(s, m, k))
    BY DEF PassedKey
  <2> HIDE DEF P, x, uk, l
  <2> QED BY <2>4, <2>5 DEF Tallied, x
<1> HIDE DEF ut, uc, uk
<1>6. ut \in [Tier -> 0..MaxTurns] /\ uc \in [Lane -> 0..MaxTurns]
  BY <1>3, <1>4 DEF Tallied, ut, uc
<1>7. uk \in [Lane \X Key -> 0..MaxTurns]
  <2>1. \A x \in Lane \X Key : uk[x] \in 0..MaxTurns
    BY <1>5 DEF Tallied
  <2> QED BY <2>1 DEF uk
<1> HIDE DEF l
<1>8. Turns(s).tier = ut /\ Turns(s).class = uc /\ Turns(s).key = uk /\ Turns(s) \in History
  BY <1>1, <1>6, <1>7 DEF History
<1> QED BY <1>3, <1>4, <1>5, <1>8 DEF Remembers, l

-----------------------------------------------------------------------------
(* A grant keeps the shares.                                               *)

LEMMA Classes ==
    ASSUME NEW c \in Class
    PROVE  /\ Other(c) \in Class /\ Other(c) # c /\ Other(Other(c)) = c
           /\ \A y \in Class : y = c \/ y = Other(c)
           /\ Quantum(c) \in {1, 2}
  BY DEF Class, Other, Quantum

LEMMA ClassStep ==
    ASSUME queue \in Seq(Entry), fair \in FairnessState, turns \in History, ClassShare(fair, turns),
           NEW A \in SUBSET DOMAIN queue, NEW s, NEW u,
           NEW t \in Tier, NEW c \in Class, NEW k \in Key, NEW cd \in Nat, NEW kd \in Nat,
           NEW q \in Weight, NEW n \in Key,
           Outcome(s, A, t, c, k, cd, kd, q, n), Remembers(s, u)
    PROVE  ClassShare(s.fair, u)
<1> DEFINE o == Other(c)
           g == s.fair
           Fine(h, v, x, y) ==
               /\ h.classDeficit[<<x, y>>] < Quantum(y)
               /\ v.class[<<x, y>>] <= Quantum(Other(y))
               /\ h.classCursor[x] = y =>
                      /\ v.class[<<x, Other(y)>>] + h.classDeficit[<<x, y>>] <= Quantum(y)
                      /\ h.classDeficit[<<x, y>>] = 0 => v.class[<<x, Other(y)>>] = 0
<1> SUFFICES ASSUME NEW x \in Tier, NEW y \in Class PROVE Fine(g, u, x, y)
  BY DEF ClassShare
<1>1. \A v \in Tier, w \in Class : Fine(fair, turns, v, w)
  BY DEF ClassShare
<1>2. /\ fair.classDeficit \in [Lane -> Nat] /\ fair.classCursor \in [Tier -> Class]
      /\ turns.class \in [Lane -> 0..MaxTurns] /\ u.class \in [Lane -> 0..MaxTurns]
  BY DEF FairnessState, Remembers, History
<1>3. /\ g.classDeficit = [fair.classDeficit EXCEPT ![<<t, c>>] = cd]
      /\ g.classCursor = [fair.classCursor EXCEPT ![t] = IF cd = 0 THEN Other(c) ELSE c]
  BY DEF Outcome, Advanced
<1>4. s.entry.tier = t /\ LaneOf(s.entry) = <<t, c>>
  BY DEF Outcome, Facts, LaneOf
<1>5. ASSUME NEW v \in Tier, NEW w \in Class
      PROVE  Tallied(turns.class[<<v, w>>], u.class[<<v, w>>], v = t, PassedClass(s, <<v, w>>))
  <2>1. <<v, w>> \in Lane /\ <<v, w>>[1] = v
    BY DEF Lane
  <2> QED BY <1>4, <2>1 DEF Remembers
<1>6. CASE x # t
  <2>1. <<x, y>> \in Lane /\ <<x, Other(y)>> \in Lane /\ <<x, y>> # <<t, c>>
    BY <1>6, Classes DEF Lane
  <2>2. g.classDeficit[<<x, y>>] = fair.classDeficit[<<x, y>>] /\ g.classCursor[x] = fair.classCursor[x]
    BY <1>2, <1>3, <1>6, <2>1
  <2>3. u.class[<<x, y>>] = turns.class[<<x, y>>] /\ u.class[<<x, Other(y)>>] = turns.class[<<x, Other(y)>>]
    BY <1>5, <1>6, Classes DEF Tallied
  <2>4. Fine(fair, turns, x, y)
    BY <1>1
  <2> QED BY <2>2, <2>3, <2>4
<1>7. CASE x = t
  <2> DEFINE dc == fair.classDeficit[<<t, c>>]
             do == fair.classDeficit[<<t, o>>]
             to == turns.class[<<t, o>>]
             uo == u.class[<<t, o>>]
  <2>1. /\ o \in Class /\ o # c /\ Other(o) = c /\ (y = c \/ y = o)
        /\ Quantum(c) \in {1, 2} /\ Quantum(o) \in {1, 2}
    BY Classes
  <2>2. <<t, c>> \in Lane /\ <<t, o>> \in Lane /\ <<t, o>> # <<t, c>>
    BY <2>1 DEF Lane
  <2>3. u.class[<<t, c>>] = 0
    <3>1. ~ PassedClass(s, <<t, c>>)
      BY <1>4 DEF PassedClass
    <3> QED BY <1>5, <3>1 DEF Tallied
  <2>4. uo \in Nat /\ to \in Nat /\ uo <= to + 1
    BY <1>2, <1>5, <2>1, <2>2 DEF Tallied
  <2>5. fair.classCursor[t] = c \/ uo = 0
    <3> SUFFICES ASSUME fair.classCursor[t] # c PROVE uo = 0
      OBVIOUS
    <3>1. fair.classCursor[t] = o
      BY <1>2, Classes
    <3>2. InLane(A, <<t, o>>) = {}
      BY <3>1 DEF Outcome, Served, ClassServed
    <3>3. ~ \E a \in s.avail : LaneOf(a) = <<t, o>>
      BY <3>2 DEF Outcome, Facts, InLane, InTier, LaneOf
    <3> QED BY <1>5, <2>1, <3>3 DEF PassedClass, Tallied
  <2>6. /\ dc \in Nat /\ do \in Nat /\ (dc = 0 => cd = Quantum(c) - 1) /\ (dc > 0 => cd <= dc - 1)
    BY <1>2, <2>2 DEF Outcome, Charges, Paid
  <2>7. Fine(fair, turns, t, c) /\ Fine(fair, turns, t, o)
    BY <1>1, <2>1
  <2>8. /\ dc < Quantum(c) /\ do < Quantum(o)
        /\ fair.classCursor[t] = c => to + dc <= Quantum(c) /\ (dc = 0 => to = 0)
    BY <2>7
  <2>9. /\ g.classDeficit[<<t, c>>] = cd /\ g.classDeficit[<<t, o>>] = do
        /\ g.classCursor[t] = IF cd = 0 THEN o ELSE c
    BY <1>2, <1>3, <2>2
  <2>10. Fine(g, u, t, c)
    <3> HIDE DEF dc, do, to, g
    <3>1. cd < Quantum(c) /\ 0 <= Quantum(o)
      BY <2>1, <2>6, <2>8
    <3>2. cd # 0 => uo + cd <= Quantum(c)
      <4> HIDE DEF uo, o
      <4> QED BY <2>1, <2>4, <2>5, <2>6, <2>8
    <3>3. g.classCursor[t] = c => cd # 0
      BY <2>1, <2>9
    <3> HIDE DEF uo
    <3> QED BY <2>3, <2>9, <3>1, <3>2, <3>3 DEF uo
  <2>11. Fine(g, u, t, o)
    <3>1. uo <= Quantum(c)
      <4> HIDE DEF uo, o, dc, do, to, g
      <4> QED BY <2>1, <2>4, <2>5, <2>6, <2>8
    <3>2. 0 + do <= Quantum(o)
      BY <2>1, <2>6, <2>8
    <3> QED BY <2>1, <2>3, <2>8, <2>9, <3>1, <3>2
  <2> QED BY <1>7, <2>1, <2>10, <2>11
<1> QED BY <1>6, <1>7

LEMMA KeyStep ==
    ASSUME TwoKeys,
           queue \in Seq(Entry), fair \in FairnessState, turns \in History, KeyShare(fair, turns),
           NEW A \in SUBSET DOMAIN queue, NEW s, NEW u,
           NEW t \in Tier, NEW c \in Class, NEW k \in Key, NEW cd \in Nat, NEW kd \in Nat,
           NEW q \in Weight, NEW n \in Key,
           Outcome(s, A, t, c, k, cd, kd, q, n), Remembers(s, u)
    PROVE  KeyShare(s.fair, u)
<1> DEFINE g == s.fair
           W == Max(Weight)
           l == <<t, c>>
           Fine(h, v, m, x, y) ==
               /\ h.keyDeficit[<<m, x>>] < W
               /\ v.key[<<m, x>>] <= W
               /\ h.keyCursor[m] = x =>
                      /\ v.key[<<m, y>>] + h.keyDeficit[<<m, x>>] <= W
                      /\ h.keyDeficit[<<m, x>>] = 0 => v.key[<<m, y>>] = 0
               /\ h.keyCursor[m] = NoKey =>
                      h.keyDeficit[<<m, x>>] = 0 /\ v.key[<<m, x>>] = 0
<1> SUFFICES ASSUME NEW m \in Lane, NEW x \in Key, NEW y \in Key, x # y PROVE Fine(g, u, m, x, y)
  BY DEF KeyShare
<1>1. \A p \in Lane : \A a, b \in Key : a # b => Fine(fair, turns, p, a, b)
  BY DEF KeyShare
<1>2. W \in Nat /\ q \in Nat /\ q >= 1 /\ q <= W /\ W >= 1 /\ NoKey \notin Key
  <2>1. Weight \subseteq Nat /\ q \in Nat \ {0} /\ NoKey \notin Key
    BY QueueAssumption
  <2>2. W \in Weight /\ q <= W
    BY <2>1, Greatest, QueueAssumption
  <2> HIDE DEF W
  <2> QED BY <2>1, <2>2
<1>3. /\ fair.keyDeficit \in [Lane \X Key -> Nat] /\ fair.keyCursor \in [Lane -> Key \cup {NoKey}]
      /\ turns.key \in [Lane \X Key -> 0..MaxTurns] /\ u.key \in [Lane \X Key -> 0..MaxTurns]
  BY DEF FairnessState, Remembers, History
<1>4. /\ g.keyDeficit = [fair.keyDeficit EXCEPT ![<<l, k>>] = kd]
      /\ g.keyCursor = [fair.keyCursor EXCEPT ![l] = IF kd = 0 THEN n ELSE k]
  BY DEF Outcome, Advanced
<1>5. s.entry.key = k /\ LaneOf(s.entry) = l /\ l \in Lane
  BY DEF Outcome, Facts, LaneOf, Lane
<1>6. ASSUME NEW p \in Lane, NEW b \in Key
      PROVE  Tallied(turns.key[<<p, b>>], u.key[<<p, b>>], p = l, PassedKey(s, p, b))
  BY <1>5 DEF Remembers
<1> HIDE DEF l, g, W
<1>7. CASE m # l
  <2>1. \A b \in Key : <<m, b>> \in Lane \X Key /\ <<m, b>> # <<l, k>>
    BY <1>7
  <2>2. /\ \A b \in Key : g.keyDeficit[<<m, b>>] = fair.keyDeficit[<<m, b>>]
        /\ g.keyCursor[m] = fair.keyCursor[m]
    BY <1>3, <1>4, <1>7, <2>1
  <2>3. \A b \in Key : u.key[<<m, b>>] = turns.key[<<m, b>>]
    BY <1>6, <1>7 DEF Tallied
  <2>4. Fine(fair, turns, m, x, y)
    BY <1>1
  <2> QED BY <2>2, <2>3, <2>4
<1>8. CASE m = l
  <2>1. PICK j \in Key : j # k /\ ((x = k /\ y = j) \/ (x = j /\ y = k))
    BY DEF TwoKeys
  <2> DEFINE dk == fair.keyDeficit[<<l, k>>]
             dj == fair.keyDeficit[<<l, j>>]
             tj == turns.key[<<l, j>>]
             uj == u.key[<<l, j>>]
             cur == fair.keyCursor[l]
             next == IF kd = 0 THEN n ELSE k
  <2>2. <<l, k>> \in Lane \X Key /\ <<l, j>> \in Lane \X Key /\ <<l, j>> # <<l, k>>
    BY <1>5, <2>1
  <2>3. u.key[<<l, k>>] = 0
    <3>1. ~ PassedKey(s, l, k)
      BY <1>5 DEF PassedKey
    <3> QED BY <1>5, <1>6, <3>1 DEF Tallied
  <2>4. uj \in Nat /\ tj \in Nat /\ uj <= tj + 1
    BY <1>3, <1>5, <1>6, <2>2 DEF Tallied
  <2>5. ASSUME j \notin KeysOf(A, l) PROVE uj = 0
    <3>1. ~ \E a \in s.avail : LaneOf(a) = l /\ a.key = j
      <4>1. s.avail = {queue[i] : i \in A}
        BY DEF Outcome, Facts
      <4>2. ASSUME NEW i \in A, LaneOf(queue[i]) = l, queue[i].key = j PROVE FALSE
        <5>1. i \in InLane(A, l)
          BY <4>2 DEF InLane, InTier, LaneOf, l
        <5> QED BY <2>5, <4>2, <5>1 DEF KeysOf
      <4> QED BY <4>1, <4>2
    <3>2. ~ PassedKey(s, l, j)
      BY <3>1 DEF PassedKey
    <3> QED BY <1>5, <1>6, <3>2 DEF Tallied
  <2>6. cur = k \/ cur = NoKey \/ (cur = j /\ uj = 0)
    <3>1. cur \in Key \cup {NoKey}
      BY <1>3, <1>5
    <3>2. cur = k \/ cur = NoKey \/ cur = j
      BY <2>1, <3>1 DEF TwoKeys
    <3>3. cur = j => j \notin KeysOf(A, l)
      BY <2>1 DEF Outcome, Served, KeyServed, l
    <3> QED BY <2>5, <3>2, <3>3
  <2>7. n = k \/ n = j
    BY <2>1 DEF TwoKeys
  <2>8. n = k => uj = 0
    <3>1. n = k => KeysOf(A, l) = {k}
      BY DEF Outcome, KeyFollows, l
    <3> QED BY <2>1, <2>5, <3>1
  <2>9. dk \in Nat /\ dj \in Nat /\ (dk = 0 => kd = q - 1) /\ (dk > 0 => kd <= dk - 1)
    BY <1>3, <2>2 DEF Outcome, Charges, Paid, l
  <2>10. Fine(fair, turns, l, k, j) /\ Fine(fair, turns, l, j, k)
    BY <1>1, <1>5, <2>1
  <2>11. /\ dk < W /\ dj < W
         /\ cur = k => tj + dk <= W /\ (dk = 0 => tj = 0)
         /\ cur = NoKey => dk = 0 /\ tj = 0
    BY <2>10
  <2>12. g.keyDeficit[<<l, k>>] = kd /\ g.keyDeficit[<<l, j>>] = dj /\ g.keyCursor[l] = next
    BY <1>3, <1>4, <1>5, <2>2
  <2>13. next \in Key /\ next # NoKey
    BY <1>2
  <2> HIDE DEF dk, dj, tj, uj, cur
  <2>14. kd < W /\ uj <= W /\ (kd # 0 => uj + kd <= W)
    BY <1>2, <2>4, <2>6, <2>9, <2>11
  <2>15. Fine(g, u, l, k, j)
    <3>1. next = k => uj + kd <= W /\ (kd = 0 => uj = 0)
      BY <1>2, <2>8, <2>14
    <3> HIDE DEF next
    <3> QED BY <1>2, <2>3, <2>12, <2>13, <2>14, <3>1 DEF uj
  <2>16. Fine(g, u, l, j, k)
    <3>1. 0 + dj <= W
      BY <1>2, <2>9, <2>11
    <3> HIDE DEF next
    <3> QED BY <1>2, <2>3, <2>11, <2>12, <2>13, <2>14, <3>1 DEF uj
  <2> QED BY <1>8, <2>1, <2>15, <2>16
<1> QED BY <1>7, <1>8

LEMMA AgeStep ==
    ASSUME TwoTiers,
           queue \in Seq(Entry), fair \in FairnessState, turns \in History, Aged(fair, turns),
           NEW A \in SUBSET DOMAIN queue, NEW s, NEW u,
           NEW t \in Tier, NEW c \in Class, NEW k \in Key, NEW cd \in Nat, NEW kd \in Nat,
           NEW q \in Weight, NEW n \in Key,
           Outcome(s, A, t, c, k, cd, kd, q, n), Remembers(s, u)
    PROVE  Aged(s.fair, u)
<1> SUFFICES ASSUME NEW x \in Tier
             PROVE  /\ u.tier[x] <= s.fair.streak
                    /\ (\A v \in Tier : x <= v) => u.tier[x] = 0
  BY DEF Aged
<1> DEFINE top == TopTier(A)
<1>1. /\ turns.tier[x] <= fair.streak /\ turns.tier[x] \in Nat /\ fair.streak \in Nat
      /\ (\A v \in Tier : x <= v) => turns.tier[x] = 0
  BY DEF Aged, History, FairnessState
<1>2. s.fair.streak = Streak(A, t) /\ s.entry.tier = t /\ s.avail = {queue[i] : i \in A}
  BY DEF Outcome, Advanced, Facts
<1>3. Tallied(turns.tier[x], u.tier[x], x >= t, PassedTier(s, x)) /\ u.tier[x] \in Nat
  BY <1>2 DEF Remembers, History
<1>4. \A a \in Tier : a \in Nat
  BY QueueAssumption
<1>5. \A i \in A : queue[i].tier \in Tier
  BY Positions DEF Entry
<1>6. /\ \E i \in A : queue[i].tier = t
      /\ \A i \in A : top <= queue[i].tier
      /\ Lower(A) = {} => t = top
  BY DEF Outcome, Served, TierServed
<1>7. top \in Tier
  <2> DEFINE T == {queue[i].tier : i \in A}
  <2>1. T \in SUBSET Nat /\ T # {} /\ T \subseteq Tier
    BY <1>4, <1>5, <1>6
  <2> HIDE DEF T
  <2>2. Min(T) \in T
    BY <2>1, Lowest
  <2> QED BY <2>1, <2>2 DEF TopTier, T
<1>8. top <= t
  BY <1>6
<1> HIDE DEF top
<1>9. x <= t => u.tier[x] = IF x = t THEN 0 ELSE turns.tier[x]
  BY <1>2, <1>3, <1>4 DEF Tallied, PassedTier
<1>10. (\A v \in Tier : x <= v) => u.tier[x] = 0
  BY <1>1, <1>4, <1>9
<1>11. u.tier[x] <= Streak(A, t)
  <2>1. CASE Lower(A) # {} /\ t = top
    <3>1. Streak(A, t) = fair.streak + 1
      BY <2>1 DEF Streak, top
    <3> QED BY <1>1, <1>3, <3>1 DEF Tallied
  <2>2. CASE ~(Lower(A) # {} /\ t = top)
    <3>1. Streak(A, t) = 0
      BY <2>2 DEF Streak, top
    <3>2. CASE x > t
      <4>1. ~ PassedTier(s, x)
        <5>1. CASE t # top
          BY <1>4, <1>7, <1>8, <3>2, <5>1 DEF TwoTiers
        <5>2. CASE Lower(A) = {}
          <6>1. \A i \in A : ~(queue[i].tier > top)
            BY <5>2 DEF Lower, top
          <6> QED BY <1>2, <1>6, <3>2, <5>2, <6>1 DEF PassedTier
        <5> QED BY <2>2, <5>1, <5>2
      <4> QED BY <1>3, <1>4, <3>1, <3>2, <4>1 DEF Tallied
    <3>3. CASE x = t
      BY <1>4, <1>9, <3>1, <3>3
    <3>4. CASE x < t
      <4>1. \A v \in Tier : x <= v
        BY <1>4, <3>4 DEF TwoTiers
      <4> QED BY <1>3, <1>10, <3>1, <4>1
    <3> QED BY <1>4, <3>2, <3>3, <3>4
  <2> QED BY <2>1, <2>2
<1> QED BY <1>2, <1>10, <1>11

-----------------------------------------------------------------------------
(* The inductive invariant.                                                *)

Shares(f, u) ==
    /\ ClassShare(f, u)
    /\ TwoKeys => KeyShare(f, u)
    /\ TwoTiers => Aged(f, u)

IInv == Typed /\ Proposed /\ Shares(fair, turns)

LEMMA WithoutTyped ==
    ASSUME queue \in Seq(Entry), NEW r \in Queued
    PROVE  Without(r) \in Seq(Entry)
<1>1. PositionOf(r) \in DOMAIN queue
  BY DEF PositionOf, Queued
<1>2. PositionOf(r) \in 1..Len(queue)
  BY <1>1
<1> QED BY <1>2 DEF Without, RemoveAt

(* After a change of the queue no selection commits.                       *)
LEMMA StaleTyped ==
    ASSUME sel \in Seq(Ticket), Len(sel) <= 1
    PROVE  /\ Stale \in Seq(Ticket) /\ Len(Stale) <= 1
           /\ Stale # <<>> => ~ Stale[1].fresh
<1> DEFINE n == Len(sel)
           G(i) == [sel[i] EXCEPT !.fresh = FALSE]
<1>1. n \in Nat /\ DOMAIN sel = 1..n /\ \A i \in 1..n : sel[i] \in Ticket
  OBVIOUS
<1>2. \A i \in 1..n : G(i) \in Ticket /\ ~ G(i).fresh
  BY <1>1 DEF Ticket
<1>3. Stale = [i \in 1..n |-> G(i)]
  BY <1>1 DEF Stale
<1> HIDE DEF G, n
<1>4. Stale \in Seq(Ticket) /\ Len(Stale) = n
  BY <1>1, <1>2, <1>3
<1>5. Stale # <<>> => 1 \in 1..n
  BY <1>1, <1>4
<1> QED BY <1>2, <1>3, <1>4, <1>5 DEF n

(* What every change of the queue but a grant does.                        *)
Quiet ==
    /\ queue' \in Seq(Entry) /\ fair' \in FairnessState /\ Shares(fair', turns)
    /\ sel' = Stale /\ turns' = turns

LEMMA QuietMoves ==
    ASSUME IInv, Quiet
    PROVE  IInv'
<1>1. Stale \in Seq(Ticket) /\ Len(Stale) <= 1 /\ (Stale # <<>> => ~ Stale[1].fresh)
  BY StaleTyped DEF IInv, Typed
<1>2. Typed'
  BY <1>1 DEF IInv, Typed, Quiet
<1>3. Proposed'
  BY <1>1 DEF Proposed, Quiet
<1>4. Shares(fair', turns')
  BY DEF Quiet
<1> QED BY <1>2, <1>3, <1>4 DEF IInv

LEMMA EnqueueMoves ==
    ASSUME IInv, NEW r \in Request, NEW e \in Offer, Enqueue(r, e)
    PROVE  IInv'
<1>1. e \in [key : Key, tier : Tier, weight : Weight, class : Class]
  BY QueueAssumption
<1>2. [id |-> r, key |-> e.key, tier |-> e.tier, weight |-> e.weight, class |-> e.class] \in Entry
  BY <1>1 DEF Entry
<1>3. queue' \in Seq(Entry)
  BY <1>2 DEF Enqueue, IInv, Typed
<1> QED BY <1>3, QuietMoves DEF Quiet, Enqueue, IInv, Typed

LEMMA CancelMoves ==
    ASSUME IInv, NEW r \in Request, Cancel(r)
    PROVE  IInv'
<1>1. queue' \in Seq(Entry)
  BY WithoutTyped DEF Cancel, IInv, Typed
<1> QED BY <1>1, QuietMoves DEF Quiet, Cancel, IInv, Typed

(* A clamped deficit is not greater, and zero only if it was.              *)
Clamp(f, k, w) == [f EXCEPT !.keyDeficit[k] = Min({@, Cap * w})]

NoMore(f, g) ==
    /\ g \in FairnessState /\ g.classDeficit = f.classDeficit /\ g.classCursor = f.classCursor
    /\ g.keyCursor = f.keyCursor /\ g.streak = f.streak
    /\ \A k \in Lane \X Key : /\ g.keyDeficit[k] <= f.keyDeficit[k]
                              /\ g.keyDeficit[k] = 0 => f.keyDeficit[k] = 0

LEMMA ClampLowers ==
    ASSUME NEW f \in FairnessState, NEW k \in Lane \X Key, NEW w \in Weight
    PROVE  NoMore(f, Clamp(f, k, w))
<1> DEFINE d == f.keyDeficit[k]
           x == Min({d, Cap * w})
           kds == [f.keyDeficit EXCEPT ![k] = x]
           g == Clamp(f, k, w)
<1>1. w \in Nat \ {0} /\ f.keyDeficit \in [Lane \X Key -> Nat] /\ d \in Nat
  BY QueueAssumption DEF FairnessState
<1>2. Cap * w \in Nat /\ w <= Cap * w
  BY <1>1, Quanta
<1>3. x \in Nat /\ x <= d /\ (x = d \/ x = Cap * w)
  BY <1>1, <1>2, Lesser
<1>4. x = 0 => d = 0
  <2> DEFINE y == Cap * w
  <2>1. y \in Nat /\ w <= y /\ (x = d \/ x = y)
    BY <1>2, <1>3
  <2> HIDE DEF x, y, d
  <2> QED BY <1>1, <2>1
<1>5. f = [classDeficit |-> f.classDeficit, classCursor |-> f.classCursor,
           keyDeficit |-> f.keyDeficit, keyCursor |-> f.keyCursor, streak |-> f.streak]
  BY DEF FairnessState
<1>6. g = [f EXCEPT !.keyDeficit[k] = x]
  BY DEF Clamp
<1> HIDE DEF g, x
<1>7. g = [classDeficit |-> f.classDeficit, classCursor |-> f.classCursor,
           keyDeficit |-> kds, keyCursor |-> f.keyCursor, streak |-> f.streak]
  BY <1>5, <1>6
<1>8. kds \in [Lane \X Key -> Nat]
  BY <1>1, <1>3
<1>9. g \in FairnessState
  <2> HIDE DEF kds
  <2> QED BY <1>7, <1>8 DEF FairnessState
<1>10. \A y \in Lane \X Key : kds[y] <= f.keyDeficit[y] /\ (kds[y] = 0 => f.keyDeficit[y] = 0)
  BY <1>1, <1>3, <1>4
<1> HIDE DEF kds
<1> QED BY <1>7, <1>9, <1>10 DEF NoMore, g

LEMMA LesserShares ==
    ASSUME NEW f \in FairnessState, NEW u \in History, NEW g, NoMore(f, g), Shares(f, u)
    PROVE  Shares(g, u)
<1>1. ClassShare(g, u)
  BY DEF Shares, ClassShare, NoMore
<1>2. ASSUME TwoKeys PROVE KeyShare(g, u)
  <2> SUFFICES ASSUME NEW l \in Lane, NEW k \in Key, NEW j \in Key, k # j
               PROVE  /\ g.keyDeficit[<<l, k>>] < Max(Weight)
                      /\ u.key[<<l, k>>] <= Max(Weight)
                      /\ g.keyCursor[l] = k =>
                             /\ u.key[<<l, j>>] + g.keyDeficit[<<l, k>>] <= Max(Weight)
                             /\ g.keyDeficit[<<l, k>>] = 0 => u.key[<<l, j>>] = 0
                      /\ g.keyCursor[l] = NoKey =>
                             g.keyDeficit[<<l, k>>] = 0 /\ u.key[<<l, k>>] = 0
    BY DEF KeyShare
  <2> DEFINE W == Max(Weight)
             d == f.keyDeficit[<<l, k>>]
             e == g.keyDeficit[<<l, k>>]
             n == u.key[<<l, j>>]
             m == u.key[<<l, k>>]
             cur == f.keyCursor[l]
  <2>1. W \in Nat
    BY Greatest, QueueAssumption
  <2>2. d \in Nat /\ e \in Nat /\ e <= d /\ (e = 0 => d = 0) /\ g.keyCursor[l] = cur
    BY DEF NoMore, FairnessState
  <2>3. n \in Nat /\ m \in Nat
    BY DEF History
  <2>4. /\ d < W /\ m <= W /\ (cur = k => n + d <= W /\ (d = 0 => n = 0))
        /\ cur = NoKey => d = 0 /\ m = 0
    BY <1>2 DEF Shares, KeyShare
  <2> HIDE DEF W, d, e, n, m, cur
  <2>5. e < W /\ (cur = k => n + e <= W /\ (e = 0 => n = 0)) /\ (cur = NoKey => e = 0)
    BY <2>1, <2>2, <2>3, <2>4
  <2> QED BY <2>2, <2>4, <2>5 DEF W, d, e, n, m, cur
<1>3. TwoTiers => Aged(g, u)
  BY DEF Shares, Aged, NoMore
<1> QED BY <1>1, <1>2, <1>3 DEF Shares

LEMMA ContractMoves ==
    ASSUME IInv, NEW i \in DOMAIN queue, NEW t \in Tier, NEW w \in Weight, Contract(i, t, w)
    PROVE  IInv'
<1> DEFINE e == queue[i]
           k == <<<<e.tier, e.class>>, e.key>>
<1>1. queue \in Seq(Entry) /\ fair \in FairnessState /\ turns \in History
      /\ Shares(fair, turns) /\ e \in Entry
  BY DEF IInv, Typed
<1>2. k \in Lane \X Key
  BY <1>1 DEF Entry, Lane
<1>3. queue' \in Seq(Entry)
  <2>1. queue' = [[queue EXCEPT ![i].tier = t] EXCEPT ![i].weight = w]
    BY DEF Contract
  <2> DEFINE q1 == [queue EXCEPT ![i].tier = t]
  <2>2. [e EXCEPT !.tier = t] \in Entry
    BY <1>1 DEF Entry
  <2>3. q1 \in Seq(Entry) /\ DOMAIN q1 = DOMAIN queue
    BY <1>1, <2>2
  <2> HIDE DEF q1
  <2>4. [q1[i] EXCEPT !.weight = w] \in Entry
    <3>1. q1[i] \in Entry
      BY <2>3
    <3> QED BY <3>1 DEF Entry
  <2>5. [q1 EXCEPT ![i].weight = w] \in Seq(Entry)
    BY <2>3, <2>4
  <2> QED BY <2>1, <2>5 DEF q1
<1>4. fair' \in FairnessState /\ Shares(fair', turns)
  <2>1. fair' = Clamp(fair, k, w) \/ fair' = fair
    BY DEF Contract, Clamp
  <2>2. CASE fair' = Clamp(fair, k, w)
    <3>1. NoMore(fair, fair')
      BY <1>1, <1>2, <2>2, ClampLowers
    <3> QED BY <1>1, <3>1, LesserShares DEF NoMore
  <2>3. CASE fair' = fair
    BY <1>1, <2>3
  <2> QED BY <2>1, <2>2, <2>3
<1>5. sel' = Stale /\ turns' = turns
  BY DEF Contract
<1> QED BY <1>3, <1>4, <1>5, QuietMoves DEF Quiet

(* A selection from its parts.                                            *)
Made(f, l, k, e, w, b, a, n) ==
    LET cd == Charged(f.classDeficit[l], Quantum(l[2]))
        kd == Charged(f.keyDeficit[<<l, k>>], w)
    IN  [entry |-> e,
         fair  |-> Advance(f, l, k, cd, kd, IF cd = 0 THEN Other(l[2]) ELSE l[2],
                           IF kd = 0 THEN n ELSE k, IF b THEN f.streak + 1 ELSE 0),
         fresh |-> TRUE, basis |-> f, avail |-> a]

(* What propose returns depends on the queue and the deficits alone.       *)
LEMMA SameSelections ==
    ASSUME NEW A, queue' = queue, fair' = fair
    PROVE  Selections(A)' = Selections(A)
<1>1. TopTier(A)' = TopTier(A) /\ Lower(A)' = Lower(A)
  BY DEF TopTier, Lower
<1>2. ChosenTier(A)' = ChosenTier(A)
  BY <1>1 DEF ChosenTier
<1>3. \A t : ChosenClass(A, t)' = ChosenClass(A, t)
  BY DEF ChosenClass, InTier
<1>4. \A l : KeysOf(A, l)' = KeysOf(A, l)
  BY DEF KeysOf, InLane, InTier
<1>5. \A l, k : OfKey(A, l, k)' = OfKey(A, l, k) /\ First(A, l, k)' = First(A, l, k)
  BY DEF First, OfKey, InLane, InTier
<1>6. \A l, K : EarliestKey(A, l, K)' = EarliestKey(A, l, K)
  BY <1>5 DEF EarliestKey
<1>7. \A l : ChosenKey(A, l)' = ChosenKey(A, l)
  BY <1>4, <1>6 DEF ChosenKey
<1>8. \A l, k : NextKey(A, l, k)' = NextKey(A, l, k)
  BY <1>4, <1>5, <1>6 DEF NextKey
<1>9. \A l, k : Picks(A, l, k)' <=> Picks(A, l, k)
  BY <1>2, <1>3, <1>7 DEF Picks
<1>10. \A l, k : Selection(A, l, k)' = Selection(A, l, k)
  <2> SUFFICES ASSUME NEW l, NEW k PROVE Selection(A, l, k)' = Selection(A, l, k)
    OBVIOUS
  <2> DEFINE w == Min({queue[i].weight : i \in OfKey(A, l, k)})
             b == Lower(A) # {} /\ l[1] = TopTier(A)
             a == {queue[i] : i \in A}
             e == queue[First(A, l, k)]
             n == NextKey(A, l, k)
  <2>1. Selection(A, l, k) = Made(fair, l, k, e, w, b, a, n)
    BY DEF Selection, Made, Advance
  <2>2. Selection(A, l, k)' = Made(fair', l, k, e', w', b', a', n')
    BY DEF Selection, Made, Advance
  <2>3. w' = w /\ e' = e /\ n' = n /\ a' = a
    BY <1>5, <1>8
  <2>4. b' = b
    BY <1>1
  <2> HIDE DEF w, b, a, e, n
  <2> QED BY <2>1, <2>2, <2>3, <2>4
<1> QED BY <1>9, <1>10 DEF Selections

LEMMA ProposeMoves ==
    ASSUME IInv, NEW A \in SUBSET DOMAIN queue, Propose(A)
    PROVE  IInv'
<1>1. PICK s \in Selections(A) : sel' = <<s>>
  BY DEF Propose
<1>2. A # {} /\ queue' = queue /\ fair' = fair /\ turns' = turns
  BY DEF Propose
<1>3. s \in Ticket
  BY <1>2, Selected DEF IInv, Typed
<1>4. Typed'
  BY <1>1, <1>2, <1>3 DEF IInv, Typed
<1>5. Selections(A)' = Selections(A)
  BY <1>2, SameSelections
<1>6. Proposed'
  BY <1>1, <1>2, <1>5 DEF Proposed
<1> QED BY <1>2, <1>4, <1>6 DEF IInv

LEMMA CommittedMoves ==
    ASSUME IInv, NEW A \in SUBSET DOMAIN queue, A # {}, NEW s \in Selections(A), Committed(s)
    PROVE  IInv'
<1>1. queue \in Seq(Entry) /\ fair \in FairnessState /\ turns \in History /\ Shares(fair, turns)
  BY DEF IInv, Typed
<1>2. s \in Ticket
  BY <1>1, Selected
<1>3. PICK t \in Tier, c \in Class, k \in Key, cd \in Nat, kd \in Nat, q \in Weight, n \in Key :
          Outcome(s, A, t, c, k, cd, kd, q, n)
  BY <1>1, Selected
<1>4. fair' = s.fair /\ turns' = Turns(s) /\ sel' = <<>> /\ queue' = Without(s.entry.id)
  BY DEF Committed
<1>5. Remembers(s, turns')
  BY <1>1, <1>2, <1>4, TurnsRemember
<1>6. queue' \in Seq(Entry)
  <2>1. s.entry \in {queue[i] : i \in A}
    BY <1>3 DEF Outcome, Facts
  <2>2. s.entry.id \in Queued
    BY <2>1 DEF Queued
  <2> QED BY <1>1, <1>4, <2>2, WithoutTyped
<1>7. Typed'
  BY <1>2, <1>4, <1>5, <1>6 DEF Typed, Remembers, Ticket
<1>8. Proposed'
  BY <1>4 DEF Proposed
<1>9. Shares(fair', turns')
  <2>1. ClassShare(s.fair, turns')
    BY <1>1, <1>3, <1>5, ClassStep DEF Shares
  <2>2. TwoKeys => KeyShare(s.fair, turns')
    BY <1>1, <1>3, <1>5, KeyStep DEF Shares
  <2>3. TwoTiers => Aged(s.fair, turns')
    BY <1>1, <1>3, <1>5, AgeStep DEF Shares
  <2> QED BY <1>4, <2>1, <2>2, <2>3 DEF Shares
<1> QED BY <1>7, <1>8, <1>9 DEF IInv

LEMMA CommitMoves ==
    ASSUME IInv, Commit
    PROVE  IInv'
<1>1. sel # <<>> /\ sel[1].fresh /\ Committed(sel[1])
  BY DEF Commit
<1>2. PICK A \in SUBSET DOMAIN queue : A # {} /\ sel[1] \in Selections(A)
  BY <1>1 DEF IInv, Proposed
<1> QED BY <1>1, <1>2, CommittedMoves

LEMMA GrantMoves ==
    ASSUME IInv, NEW A \in SUBSET DOMAIN queue, Grant(A)
    PROVE  IInv'
<1>1. PICK s \in Selections(A) : Committed(s)
  BY DEF Grant
<1>2. A # {}
  BY DEF Grant
<1> QED BY <1>1, <1>2, CommittedMoves

LEMMA DropMoves ==
    ASSUME IInv, Drop
    PROVE  IInv'
<1>1. sel' = <<>> /\ queue' = queue /\ fair' = fair /\ turns' = turns
  BY DEF Drop
<1>2. Typed'
  BY <1>1 DEF IInv, Typed
<1>3. Proposed'
  BY <1>1 DEF Proposed
<1> QED BY <1>1, <1>2, <1>3 DEF IInv

LEMMA InitHolds == Init => IInv
<1> SUFFICES ASSUME Init PROVE IInv
  OBVIOUS
<1>1. MaxStreak \in Nat /\ MaxTurns \in Nat /\ NoKey \notin Key
  BY QueueAssumption
<1>2. queue = <<>> /\ fair = Start /\ sel = <<>>
      /\ turns = [tier |-> [t \in Tier |-> 0], class |-> [l \in Lane |-> 0],
                  key |-> [k \in Lane \X Key |-> 0]]
  BY DEF Init
<1>3. Start \in FairnessState
  BY <1>1 DEF Start, FairnessState, Class
<1>4. turns \in History
  BY <1>1, <1>2 DEF History
<1>5. Typed
  BY <1>2, <1>3, <1>4 DEF Typed
<1>6. Proposed
  BY <1>2 DEF Proposed
<1>7. ClassShare(fair, turns)
  <2>1. ASSUME NEW t \in Tier, NEW c \in Class
        PROVE  /\ fair.classDeficit[<<t, c>>] = 0 /\ turns.class[<<t, c>>] = 0
               /\ turns.class[<<t, Other(c)>>] = 0
               /\ Quantum(c) \in {1, 2} /\ Quantum(Other(c)) \in {1, 2}
    <3>1. <<t, c>> \in Lane /\ <<t, Other(c)>> \in Lane
      BY Classes DEF Lane
    <3> QED BY <1>2, <3>1, Classes DEF Start
  <2>2. \A t \in Tier, c \in Class :
            /\ fair.classDeficit[<<t, c>>] < Quantum(c)
            /\ turns.class[<<t, c>>] <= Quantum(Other(c))
            /\ turns.class[<<t, Other(c)>>] + fair.classDeficit[<<t, c>>] <= Quantum(c)
            /\ turns.class[<<t, Other(c)>>] = 0
    <3> SUFFICES ASSUME NEW t \in Tier, NEW c \in Class
                 PROVE  /\ fair.classDeficit[<<t, c>>] < Quantum(c)
                        /\ turns.class[<<t, c>>] <= Quantum(Other(c))
                        /\ turns.class[<<t, Other(c)>>] + fair.classDeficit[<<t, c>>] <= Quantum(c)
                        /\ turns.class[<<t, Other(c)>>] = 0
      OBVIOUS
    <3> QED BY <2>1
  <2> QED BY <2>2 DEF ClassShare
<1>8. KeyShare(fair, turns)
  <2>1. Max(Weight) \in Nat /\ Max(Weight) >= 1
    <3> DEFINE W == Max(Weight)
    <3>1. Weight \subseteq Nat \ {0}
      BY QueueAssumption
    <3>2. W \in Weight
      BY <3>1, Greatest, QueueAssumption
    <3> HIDE DEF W
    <3>3. W \in Nat /\ W >= 1
      BY <3>1, <3>2
    <3> QED BY <3>3 DEF W
  <2>2. \A l \in Lane, k \in Key : fair.keyDeficit[<<l, k>>] = 0 /\ turns.key[<<l, k>>] = 0
    BY <1>2 DEF Start
  <2> QED BY <2>1, <2>2 DEF KeyShare
<1>9. Aged(fair, turns)
  BY <1>2 DEF Start, Aged
<1> QED BY <1>5, <1>6, <1>7, <1>8, <1>9 DEF IInv, Shares

LEMMA StepHolds == IInv /\ [Step]_vars => IInv'
<1> SUFFICES ASSUME IInv, [Step]_vars PROVE IInv'
  OBVIOUS
<1>1. ASSUME NEW r \in Request, NEW e \in Offer, Enqueue(r, e) PROVE IInv'
  BY <1>1, EnqueueMoves
<1>2. ASSUME NEW r \in Request, Cancel(r) PROVE IInv'
  BY <1>2, CancelMoves
<1>3. ASSUME NEW i \in DOMAIN queue, NEW t \in Tier, NEW w \in Weight, Contract(i, t, w) PROVE IInv'
  BY <1>3, ContractMoves
<1>4. ASSUME NEW A \in SUBSET DOMAIN queue, Propose(A) PROVE IInv'
  BY <1>4, ProposeMoves
<1>5. ASSUME Commit PROVE IInv'
  BY <1>5, CommitMoves
<1>6. ASSUME Drop PROVE IInv'
  BY <1>6, DropMoves
<1>7. ASSUME NEW A \in SUBSET DOMAIN queue, Grant(A) PROVE IInv'
  BY <1>7, GrantMoves
<1>8. CASE UNCHANGED vars
  <2>1. queue' = queue /\ fair' = fair /\ sel' = sel /\ turns' = turns
    BY <1>8 DEF vars
  <2>2. Typed'
    BY <2>1 DEF IInv, Typed
  <2>3. Proposed'
    <3>1. \A A : Selections(A)' = Selections(A)
      BY <2>1, SameSelections
    <3> QED BY <2>1, <3>1 DEF IInv, Proposed
  <2> QED BY <2>1, <2>2, <2>3 DEF IInv
<1> QED BY <1>1, <1>2, <1>3, <1>4, <1>5, <1>6, <1>7, <1>8 DEF Step, Next

(* The three specifications take the same steps.                           *)
LEMMA Invariance == Spec \/ PumpSpec \/ ServeSpec => []IInv
<1>1. [Next]_vars => [Step]_vars
  BY DEF Step
<1>2. [Pump]_vars => [Step]_vars
  BY DEF Step, Pump, Next
<1>3. [Serve]_vars => [Step]_vars
  BY DEF Step, Serve, Next
<1> QED BY <1>1, <1>2, <1>3, InitHolds, StepHolds, PTL DEF Spec, PumpSpec, ServeSpec

-----------------------------------------------------------------------------

(* Every entry, selection and deficit keeps its type; a class deficit      *)
(* stays within its cap.                                                   *)
THEOREM QueueTyped == Spec \/ PumpSpec \/ ServeSpec => []TypeOK
<1>1. IInv => TypeOK
  <2> SUFFICES ASSUME IInv PROVE TypeOK
    OBVIOUS
  <2>1. queue \in Seq(Entry) /\ fair \in FairnessState /\ turns \in History /\ sel \in Seq(Ticket)
    BY DEF IInv, Typed
  <2>2. sel # <<>> => sel[1].entry \in Entry /\ sel[1].fair \in FairnessState
    <3> SUFFICES ASSUME sel # <<>> PROVE sel[1] \in Ticket
      BY DEF Ticket
    <3> QED BY <2>1
  <2>3. ASSUME NEW l \in Lane PROVE fair.classDeficit[l] <= Cap * Quantum(l[2])
    <3>1. PICK t \in Tier, c \in Class : l = <<t, c>>
      BY DEF Lane
    <3>2. fair.classDeficit[l] < Quantum(c) /\ fair.classDeficit[l] \in Nat /\ Quantum(c) \in Nat \ {0}
      <4>1. fair.classDeficit[l] < Quantum(c)
        BY <3>1 DEF IInv, Shares, ClassShare
      <4>2. fair.classDeficit[l] \in Nat
        BY <2>1 DEF FairnessState
      <4> QED BY <4>1, <4>2, Classes
    <3>3. Cap * Quantum(c) \in Nat /\ Quantum(c) <= Cap * Quantum(c)
      BY <3>2, Quanta
    <3> DEFINE a == Cap * Quantum(c)
    <3>4. a \in Nat /\ Quantum(c) <= a
      BY <3>3
    <3>5. fair.classDeficit[l] <= a
      <4> HIDE DEF a
      <4> QED BY <3>2, <3>4
    <3> QED BY <3>1, <3>5
  <2> QED BY <2>1, <2>2, <2>3 DEF TypeOK, History
<1> QED BY <1>1, Invariance, PTL

(* A selection that commit accepts was computed from the queue and the     *)
(* deficits as they are: the version check of commit is enough, however    *)
(* arrivals, cancellations and contractions come between.                  *)
THEOREM QueueSelectionCurrent == Spec \/ PumpSpec \/ ServeSpec => []SelectionCurrent
<1>1. IInv => SelectionCurrent
  <2> SUFFICES ASSUME IInv, sel # <<>>, sel[1].fresh
               PROVE  /\ sel[1].basis = fair
                      /\ sel[1].avail \subseteq ToSet(queue) /\ sel[1].entry \in sel[1].avail
    BY DEF SelectionCurrent
  <2>1. PICK A \in SUBSET DOMAIN queue : A # {} /\ sel[1] \in Selections(A)
    BY DEF IInv, Proposed
  <2>2. PICK t \in Tier, c \in Class, k \in Key, cd \in Nat, kd \in Nat, q \in Weight, n \in Key :
            Outcome(sel[1], A, t, c, k, cd, kd, q, n)
    BY <2>1, Selected DEF IInv, Typed
  <2>3. Facts(sel[1], A, t, c, k)
    BY <2>2 DEF Outcome
  <2> QED BY <2>3 DEF Facts, ToSet
<1> QED BY <1>1, Invariance, PTL

(* A waiting class is passed over at most as often in a row as the other's *)
(* quantum says, and of two keys of a lane neither more often than the     *)
(* greatest weight: for every offer, weight, eligibility and contraction.  *)
THEOREM QueueFairShares == Spec \/ PumpSpec \/ ServeSpec => []FairShares
<1>1. ASSUME Cardinality(Key) = 2 PROVE TwoKeys
  <2> SUFFICES ASSUME NEW a \in Key, NEW b \in Key, NEW c \in Key, a # b, b # c, a # c PROVE FALSE
    BY DEF TwoKeys
  <2>1. IsFiniteSet(Key)
    BY QueueAssumption
  <2>2. IsFiniteSet(Key \ {a}) /\ Cardinality(Key \ {a}) = 1
    BY <1>1, <2>1, FS_RemoveElement
  <2>3. IsFiniteSet((Key \ {a}) \ {b}) /\ Cardinality((Key \ {a}) \ {b}) = 0
    BY <2>2, FS_RemoveElement
  <2>4. (Key \ {a}) \ {b} = {}
    BY <2>3, FS_EmptySet
  <2> QED BY <2>4
<1>2. IInv => FairShares
  <2> SUFFICES ASSUME IInv PROVE FairShares
    OBVIOUS
  <2>1. ASSUME NEW l \in Lane PROVE turns.class[l] <= Quantum(Other(l[2]))
    <3>1. PICK t \in Tier, c \in Class : l = <<t, c>>
      BY DEF Lane
    <3> QED BY <3>1 DEF IInv, Shares, ClassShare
  <2>2. ASSUME Cardinality(Key) = 2, NEW x \in Lane \X Key PROVE turns.key[x] <= Max(Weight)
    <3>1. PICK l \in Lane, k \in Key : x = <<l, k>>
      OBVIOUS
    <3>2. PICK j \in Key : j # k
      <4> SUFFICES ASSUME Key = {k} PROVE FALSE
        OBVIOUS
      <4> QED BY <2>2, FS_Singleton
    <3>3. KeyShare(fair, turns)
      BY <1>1, <2>2 DEF IInv, Shares
    <3> QED BY <3>1, <3>2, <3>3 DEF KeyShare
  <2> QED BY <2>1, <2>2 DEF FairShares
<1> QED BY <1>2, Invariance, PTL

(* With two tiers the lower one is passed over at most MaxStreak times in  *)
(* a row, whatever is eligible when.                                       *)
THEOREM QueueAging ==
    ASSUME TwoTiers
    PROVE  Spec \/ PumpSpec \/ ServeSpec => []AgingBound
<1>1. IInv => AgingBound
  <2> SUFFICES ASSUME IInv, NEW t \in Tier PROVE turns.tier[t] <= MaxStreak
    BY DEF AgingBound
  <2>1. turns.tier[t] <= fair.streak /\ turns.tier[t] \in Nat
    BY DEF IInv, Typed, History, Shares, Aged
  <2>2. fair.streak \in 0..MaxStreak /\ MaxStreak \in Nat
    BY QueueAssumption DEF IInv, Typed, FairnessState
  <2> QED BY <2>1, <2>2
<1> QED BY <1>1, Invariance, PTL

=============================================================================
