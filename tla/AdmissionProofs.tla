-------------------------- MODULE AdmissionProofs ---------------------------
(***************************************************************************)
(* Proofs about Admission: however tasks, the pump, cancellations, shadows *)
(* and publications interleave, permits and slots are counted exactly, no  *)
(* lease goes to a request whose authorization is gone, and the pump does  *)
(* not sleep on a waiter it could serve.                                   *)
(***************************************************************************)
EXTENDS Admission, FiniteSetTheorems, SequenceTheorems, TLAPS

-----------------------------------------------------------------------------
(* The least of a set of numbers.                                          *)

(* Of the sets of numbers below a member, one has no smaller one.          *)
LEMMA Least ==
    ASSUME NEW S \in SUBSET Nat, S # {}
    PROVE  \E n \in S : \A m \in S : n <= m
<1> DEFINE D(n) == {m \in S : m < n}
           T == {D(n) : n \in S}
<1>1. T \subseteq FiniteSubsetsOf(Nat)
  <2> SUFFICES ASSUME NEW n \in S PROVE D(n) \in FiniteSubsetsOf(Nat)
    OBVIOUS
  <2>1. IsFiniteSet(D(n))
    BY FS_BoundedSetOfNaturals
  <2> QED BY <2>1 DEF FiniteSubsetsOf
<1>2. PICK x \in T : \A y \in T : ~(<<y, x>> \in StrictSubsetOrdering(Nat))
  <2> DEFINE R == StrictSubsetOrdering(Nat)
             F == FiniteSubsetsOf(Nat)
  <2>1. IsWellFoundedOn(R, F)
    BY FS_StrictSubsetOrderingWellFounded
  <2>2. T # {} /\ T \subseteq F
    BY <1>1
  <2> HIDE DEF R, F, T
  <2>3. \E x \in T : \A y \in T : ~(<<y, x>> \in R)
    BY <2>1, <2>2, WFMin
  <2> QED BY <2>3 DEF R
<1>3. PICK n \in S : x = D(n)
  BY <1>2
<1>4. ASSUME NEW m \in S, m < n PROVE FALSE
  <2>1. D(m) \in T
    OBVIOUS
  <2>2. D(m) \subseteq D(n)
    <3> SUFFICES ASSUME NEW k \in S, k < m PROVE k < n
      OBVIOUS
    <3>1. k \in Nat /\ m \in Nat /\ n \in Nat
      OBVIOUS
    <3> QED BY <1>4, <3>1
  <2>3. m \in D(n) /\ m \notin D(m) /\ D(n) \subseteq Nat
    <3>1. m \in Nat /\ ~(m < m)
      OBVIOUS
    <3> QED BY <1>4, <3>1
  <2>4. <<D(m), x>> \in StrictSubsetOrdering(Nat)
    <3>1. D(m) \subseteq x /\ D(m) # x /\ x \subseteq Nat
      BY <1>3, <2>2, <2>3
    <3> HIDE DEF D
    <3> QED BY <3>1 DEF StrictSubsetOrdering
  <2> QED BY <1>2, <2>1, <2>4
<1> QED BY <1>4

LEMMA Lowest ==
    ASSUME NEW S \in SUBSET Nat, S # {}
    PROVE  Min(S) \in S /\ \A m \in S : Min(S) <= m
  BY Least DEF Min

-----------------------------------------------------------------------------
(* The queue without some requests.                                        *)

Kept(q, R, f, i) ==
    IF i = 0 THEN <<>>
    ELSE IF q[i].id \in R THEN f[i - 1] ELSE Append(f[i - 1], q[i])

Keeps(q, R, f, n) == f = [i \in 0..n |-> Kept(q, R, f, i)]

(* The recursion of Outside defines a function, by a least counterexample. *)
LEMMA Recursion ==
    ASSUME NEW q, NEW R, NEW n \in Nat
    PROVE  \E f : Keeps(q, R, f, n)
<1> DEFINE Bad == {m \in Nat : ~ \E f : Keeps(q, R, f, m)}
<1>1. CASE Bad = {}
  BY <1>1
<1>2. CASE Bad # {}
  <2>1. PICK m \in Bad : \A k \in Bad : m <= k
    BY <1>2, Least
  <2>2. m \in Nat /\ ~ \E f : Keeps(q, R, f, m)
    BY <2>1
  <2>3. CASE m = 0
    <3> DEFINE g == [i \in 0..0 |-> <<>>]
    <3>1. g = [i \in 0..0 |-> Kept(q, R, g, i)]
      <4>1. \A i \in 0..0 : Kept(q, R, g, i) = <<>>
        BY DEF Kept
      <4> QED BY <4>1
    <3> QED BY <2>2, <2>3, <3>1 DEF Keeps
  <2>4. CASE m # 0
    <3>1. m - 1 \in Nat /\ ~(m <= m - 1)
      BY <2>2, <2>4
    <3>2. PICK f : Keeps(q, R, f, m - 1)
      BY <2>1, <3>1
    <3> DEFINE g == [i \in 0..m |-> IF i = m THEN Kept(q, R, f, m) ELSE f[i]]
    <3>3. ASSUME NEW i \in 0..m PROVE g[i] = Kept(q, R, g, i)
      <4>1. i # 0 => i - 1 \in 0..m /\ i - 1 # m /\ g[i - 1] = f[i - 1]
        BY <2>2
      <4>2. Kept(q, R, g, i) = Kept(q, R, f, i)
        BY <4>1 DEF Kept
      <4>3. i # m => i \in 0..(m - 1)
        BY <2>2
      <4>4. i # m => f[i] = Kept(q, R, f, i)
        BY <3>2, <4>3 DEF Keeps
      <4> QED BY <4>2, <4>4
    <3>4. Keeps(q, R, g, m)
      BY <3>3 DEF Keeps
    <3> QED BY <2>2, <3>4
  <2> QED BY <2>3, <2>4
<1> QED BY <1>1, <1>2

Item == [id : Request, key : Key, tier : Tier, weight : Weight, class : {"scarce", "flexible"}]

(* What is left: no more entries, and those of the other requests.         *)
Left(q, R, s, n) ==
    /\ s \in Seq(Item) /\ Len(s) <= n
    /\ Members(s) = {q[j].id : j \in 1..n} \ R

LEMMA AppendMembers ==
    ASSUME NEW s \in Seq(Item), NEW e \in Item
    PROVE  Members(Append(s, e)) = Members(s) \cup {e.id}
<1> DEFINE t == Append(s, e)
           n == Len(s)
<1>1. /\ n \in Nat /\ DOMAIN s = 1..n /\ DOMAIN t = 1..(n + 1)
      /\ \A i \in 1..n : t[i] = s[i]
      /\ t[n + 1] = e
  OBVIOUS
<1> HIDE DEF t, n
<1>2. ASSUME NEW x \in Members(t) PROVE x \in Members(s) \cup {e.id}
  <2>1. PICK i \in 1..(n + 1) : x = t[i].id
    BY <1>1 DEF Members
  <2>2. i \in 1..n \/ i = n + 1
    BY <1>1
  <2> QED BY <1>1, <2>1, <2>2 DEF Members
<1>3. Members(s) \subseteq Members(t)
  <2> SUFFICES ASSUME NEW i \in 1..n PROVE s[i].id \in Members(t)
    BY <1>1 DEF Members
  <2>1. i \in 1..(n + 1)
    BY <1>1
  <2> QED BY <1>1, <2>1 DEF Members
<1>4. e.id \in Members(t)
  <2>1. n + 1 \in 1..(n + 1)
    BY <1>1
  <2> QED BY <1>1, <2>1 DEF Members
<1> QED BY <1>2, <1>3, <1>4 DEF t

LEMMA KeepsLeft ==
    ASSUME NEW q \in Seq(Item), NEW R, NEW f, Keeps(q, R, f, Len(q)), NEW n \in 0..Len(q)
    PROVE  Left(q, R, f[n], n)
<1> DEFINE Bad == {m \in 0..Len(q) : ~ Left(q, R, f[m], m)}
<1>1. CASE Bad = {}
  BY <1>1
<1>2. CASE Bad # {}
  <2>1. Bad \in SUBSET Nat
    OBVIOUS
  <2>2. PICK m \in Bad : \A k \in Bad : m <= k
    BY <1>2, <2>1, Least
  <2>3. m \in 0..Len(q) /\ m \in Nat /\ ~ Left(q, R, f[m], m) /\ Len(q) \in Nat
    BY <2>2
  <2>4. f[m] = Kept(q, R, f, m)
    BY <2>3 DEF Keeps
  <2>5. CASE m = 0
    <3>1. f[m] = <<>>
      BY <2>4, <2>5 DEF Kept
    <3>2. Members(<<>>) = {} /\ {q[j].id : j \in 1..0} = {}
      BY DEF Members
    <3>3. Left(q, R, <<>>, 0)
      BY <3>2 DEF Left
    <3> QED BY <2>3, <2>5, <3>1, <3>3
  <2>6. CASE m # 0
    <3> DEFINE s == f[m - 1]
               P(k) == {q[j].id : j \in 1..k}
    <3>1. m - 1 \in 0..Len(q) /\ ~(m <= m - 1) /\ m \in 1..Len(q)
      BY <2>3, <2>6
    <3>2. Left(q, R, s, m - 1)
      BY <2>2, <3>1
    <3>3. q[m] \in Item
      BY <3>1
    <3>4. P(m) = P(m - 1) \cup {q[m].id}
      <4>1. \A j : j \in 1..m <=> j \in 1..(m - 1) \/ j = m
        BY <2>3, <2>6
      <4> QED BY <4>1
    <3>5. s \in Seq(Item) /\ Len(s) <= m - 1 /\ Members(s) = P(m - 1) \ R /\ Len(s) \in Nat
      BY <3>2 DEF Left
    <3> HIDE DEF P
    <3>6. CASE q[m].id \in R
      <4>1. f[m] = s
        BY <2>4, <2>6, <3>6 DEF Kept
      <4>2. Len(s) <= m
        BY <2>3, <3>5
      <4>3. Members(s) = P(m) \ R
        BY <3>4, <3>5, <3>6
      <4> QED BY <2>3, <3>5, <4>1, <4>2, <4>3 DEF Left, P
    <3>7. CASE q[m].id \notin R
      <4>1. f[m] = Append(s, q[m])
        BY <2>4, <2>6, <3>7 DEF Kept
      <4> HIDE DEF s
      <4>2. Append(s, q[m]) \in Seq(Item) /\ Len(Append(s, q[m])) <= m
        BY <2>3, <3>3, <3>5
      <4>3. Members(Append(s, q[m])) = P(m) \ R
        BY <3>3, <3>4, <3>5, <3>7, AppendMembers
      <4> QED BY <2>3, <4>1, <4>2, <4>3 DEF Left, P
    <3> QED BY <3>6, <3>7
  <2> QED BY <2>5, <2>6
<1> QED BY <1>1, <1>2

LEMMA OutsideIs ==
    ASSUME NEW q \in Seq(Item), NEW R
    PROVE  /\ Outside(q, R) \in Seq(Item) /\ Len(Outside(q, R)) <= Len(q)
           /\ Members(Outside(q, R)) = Members(q) \ R
<1> DEFINE f == CHOOSE f : Keeps(q, R, f, Len(q))
           n == Len(q)
<1>1. n \in Nat /\ n \in 0..n /\ DOMAIN q = 1..n
  OBVIOUS
<1>2. Keeps(q, R, f, n)
  BY <1>1, Recursion
<1>3. Outside(q, R) = f[n]
  BY DEF Outside, Keeps, Kept
<1> HIDE DEF f
<1>4. Left(q, R, f[n], n)
  BY <1>1, <1>2, KeepsLeft
<1> QED BY <1>1, <1>3, <1>4 DEF Left, Members

-----------------------------------------------------------------------------
(* The entry that the fair queue proposes is one of those offered to it.   *)

LEMMA SomeKey ==
    ASSUME queue \in Seq(Item), NEW A \in SUBSET DOMAIN queue, NEW l,
           Fairness!InLane(A, l) # {}
    PROVE  Fairness!ChosenKey(A, l) \in Fairness!KeysOf(A, l)
<1> DEFINE K == Fairness!KeysOf(A, l)
           F(k) == Fairness!First(A, l, k)
           T == {F(k) : k \in K}
<1>1. A \subseteq Nat
  OBVIOUS
<1>2. K # {}
  BY DEF Fairness!KeysOf
<1>3. ASSUME NEW k \in K PROVE F(k) \in Nat
  <2>1. Fairness!OfKey(A, l, k) \in SUBSET Nat /\ Fairness!OfKey(A, l, k) # {}
    BY <1>1 DEF Fairness!KeysOf, Fairness!OfKey, Fairness!InLane, Fairness!InTier
  <2> QED BY <2>1, Lowest DEF Fairness!First, Fairness!Min, Min
<1>4. T \in SUBSET Nat /\ T # {}
  BY <1>2, <1>3
<1>5. PICK n \in T : \A m \in T : n <= m
  BY <1>4, Least
<1>6. \E k \in K : \A j \in K : F(k) <= F(j)
  BY <1>5
<1>7. Fairness!EarliestKey(A, l, K) \in K
  BY <1>6 DEF Fairness!EarliestKey
<1> QED BY <1>7 DEF Fairness!ChosenKey

LEMMA SomeEntry ==
    ASSUME queue \in Seq(Item), NEW A \in SUBSET DOMAIN queue, A # {}
    PROVE  Fairness!InTier(A, Fairness!ChosenTier(A)) # {}
<1> DEFINE T == {queue[i].tier : i \in A}
           B == Fairness!Lower(A)
<1>1. A \subseteq Nat /\ \A i \in A : queue[i].tier \in Nat
  <2>1. A \subseteq Nat /\ \A i \in A : queue[i] \in Item
    OBVIOUS
  <2>2. Tier \subseteq Nat
    BY AdmissionAssumption
  <2> QED BY <2>1, <2>2 DEF Item
<1>2. PICK i \in A : queue[i].tier = Fairness!TopTier(A)
  <2>1. T \in SUBSET Nat /\ T # {}
    BY <1>1
  <2>2. Min(T) \in T
    BY <2>1, Lowest
  <2> QED BY <2>2 DEF Fairness!TopTier, Fairness!Min, Min
<1>3. B # {} => Min(B) \in A
  <2>1. B \in SUBSET Nat /\ B \subseteq A
    BY <1>1 DEF Fairness!Lower
  <2> QED BY <2>1, Lowest
<1>4. Fairness!Min(B) = Min(B)
  BY DEF Fairness!Min, Min
<1> QED BY <1>2, <1>3, <1>4 DEF Fairness!ChosenTier, Fairness!InTier

LEMMA SelectedEntry ==
    ASSUME queue \in Seq(Item), NEW A \in SUBSET DOMAIN queue, A # {},
           fair.classCursor \in [Tier -> Fairness!Class], NEW s \in Fairness!Selections(A)
    PROVE  \E i \in A : s.entry = queue[i]
<1>1. PICK p \in Fairness!Lane \X Key :
          Fairness!Picks(A, p[1], p[2]) /\ s = Fairness!Selection(A, p[1], p[2])
  BY DEF Fairness!Selections
<1> DEFINE l == p[1]
           k == p[2]
           t == l[1]
<1>2. l \in Fairness!Lane /\ t \in Tier /\ l = <<t, l[2]>>
  BY DEF Fairness!Lane
<1>3. t = Fairness!ChosenTier(A) /\ l[2] = Fairness!ChosenClass(A, t) /\ k = Fairness!ChosenKey(A, l)
  BY <1>1 DEF Fairness!Picks
<1>4. Fairness!InTier(A, t) # {}
  BY <1>3, SomeEntry
<1>5. Fairness!InLane(A, l) # {}
  <2> DEFINE c == fair.classCursor[t]
  <2>1. c \in Fairness!Class
    BY <1>2
  <2>2. Fairness!InLane(A, l) = {i \in Fairness!InTier(A, t) : queue[i].class = l[2]}
    BY DEF Fairness!InLane
  <2>3. CASE \E i \in Fairness!InTier(A, t) : queue[i].class = c
    BY <1>3, <2>2, <2>3 DEF Fairness!ChosenClass
  <2>4. CASE ~ \E i \in Fairness!InTier(A, t) : queue[i].class = c
    <3>1. l[2] = Fairness!Other(c)
      BY <1>3, <2>4 DEF Fairness!ChosenClass
    <3>2. PICK i \in Fairness!InTier(A, t) : TRUE
      BY <1>4
    <3>3. queue[i].class \in {"scarce", "flexible"}
      <4>1. i \in A /\ queue[i] \in Item
        BY <3>2 DEF Fairness!InTier
      <4> QED BY <4>1 DEF Item
    <3>4. queue[i].class = Fairness!Other(c)
      BY <2>1, <2>4, <3>2, <3>3 DEF Fairness!Class, Fairness!Other
    <3> QED BY <2>2, <3>1, <3>2, <3>4
  <2> QED BY <2>3, <2>4
<1>6. k \in Fairness!KeysOf(A, l)
  BY <1>3, <1>5, SomeKey
<1>7. Fairness!First(A, l, k) \in A
  <2>1. Fairness!OfKey(A, l, k) \in SUBSET Nat /\ Fairness!OfKey(A, l, k) # {}
        /\ Fairness!OfKey(A, l, k) \subseteq A
    BY <1>6 DEF Fairness!KeysOf, Fairness!OfKey, Fairness!InLane, Fairness!InTier
  <2> QED BY <2>1, Lowest DEF Fairness!First, Fairness!Min, Min
<1>8. s.entry = queue[Fairness!First(A, l, k)]
  BY <1>1 DEF Fairness!Selection
<1> QED BY <1>7, <1>8

-----------------------------------------------------------------------------
(* The inductive invariant, part by part.                                  *)

Places == {"enter", "pump", "wait", "leased", "done", "failed", "cleanup", "cancelled"}
Futures == {"none", "pending", "lease", "error", "released", "cancelled"}

(* An entry is in the queue only while its future is pending.              *)
Lists(q, fu) ==
    /\ q \in Seq(Item) /\ Len(q) <= MaxGlobal
    /\ \A r \in Members(q) : fu[r] = "pending"

(* A task has a lease until it gives it back, and asks for one only then.  *)
Owns(ta, fu) ==
    /\ ta \in [Request -> Places] /\ fu \in [Request -> Futures]
    /\ \A r \in Request : /\ ta[r] = "leased" => fu[r] = "lease"
                          /\ ta[r] = "enter" => fu[r] \in {"none", "released"}

(* The cursors of a fairness state name classes.                           *)
Shape(f) ==
    /\ f = [classDeficit |-> f.classDeficit, classCursor |-> f.classCursor,
            keyDeficit |-> f.keyDeficit, keyCursor |-> f.keyCursor, streak |-> f.streak]
    /\ f.classCursor \in [Tier -> Fairness!Class]

Choice(x) ==
    /\ x = [id |-> x.id, fair |-> x.fair, cause |-> x.cause, legs |-> x.legs, leg |-> x.leg,
            avoid |-> x.avoid]
    /\ Shape(x.fair)

(* While the pump awaits, its pick stays in the queue; once inside the     *)
(* activation gate it was authorized, and no publication comes between.    *)
Pumps(p, q, rev) ==
    /\ p = [owner |-> p.owner, pc |-> p.pc, excluded |-> p.excluded, once |-> p.once,
            pick |-> p.pick]
    /\ p.pc \in {"idle", "scan", "gate", "reserve", "mark"}
    /\ p.pc \in {"gate", "reserve", "mark"} =>
           /\ p.pick = <<p.pick[1]>> /\ Choice(p.pick[1])
           /\ p.pick[1].id \in Members(q)
    /\ p.pc \in {"reserve", "mark"} => p.pick[1].id \notin rev /\ p.pick[1].leg \in Nat

(* Who holds a permit, and how many of them a key has.                     *)
Holding(fu, p) ==
    {r \in Request : fu[r] = "lease" \/ (p.pc \in {"reserve", "mark"} /\ p.pick[1].id = r)}

OfKey(H, k) == {r \in H : KeyOf(r) = k}

Tally(H, ac) ==
    /\ ac \in [Key -> Int]
    /\ \A k \in Key : ac[k] = Cardinality(OfKey(H, k)) /\ ac[k] <= MaxConcurrency

(* The slots of an account.                                                *)
Using(sl, a) == {r \in Request : sl[r] # 0 /\ AccountOf(r, sl[r]) = a}

Fits(sl, sh) ==
    /\ sl \in [Request -> Nat] /\ sh \in [Account -> Nat]
    /\ \A a \in Account : sh[a] + Cardinality(Using(sl, a)) <= Parallel[a]

Good ==
    /\ Lists(queue, future) /\ Owns(task, future) /\ Pumps(pump, queue, revoked) /\ Shape(fair)
    /\ Tally(Holding(future, pump), active) /\ Fits(slot, shadows) /\ revoked \subseteq Request

-----------------------------------------------------------------------------
(* Permits and slots.                                                      *)

LEMMA Finite ==
    ASSUME NEW S \in SUBSET Request
    PROVE  IsFiniteSet(S) /\ Cardinality(S) \in Nat
<1>1. IsFiniteSet(Request)
  BY AdmissionAssumption
<1>2. IsFiniteSet(S)
  BY <1>1, FS_Subset
<1> QED BY <1>2, FS_CardinalityType

LEMMA KeyIsKey == \A r \in Request : KeyOf(r) \in Key
  BY AdmissionAssumption DEF KeyOf

LEMMA PermitTaken ==
    ASSUME NEW H \in SUBSET Request, NEW r \in Request, r \notin H, Tally(H, active),
           active[KeyOf(r)] < MaxConcurrency
    PROVE  Tally(H \cup {r}, [active EXCEPT ![KeyOf(r)] = @ + 1])
<1> DEFINE b == KeyOf(r)
           ac == [active EXCEPT ![b] = @ + 1]
<1>1. b \in Key /\ MaxConcurrency \in Nat
  BY KeyIsKey, AdmissionAssumption
<1>2. active \in [Key -> Int] /\ ac \in [Key -> Int]
  BY <1>1 DEF Tally
<1>3. ASSUME NEW k \in Key
      PROVE  ac[k] = Cardinality(OfKey(H \cup {r}, k)) /\ ac[k] <= MaxConcurrency
  <2>1. active[k] = Cardinality(OfKey(H, k)) /\ active[k] <= MaxConcurrency
    BY DEF Tally
  <2>2. CASE k = b
    <3>1. OfKey(H \cup {r}, k) = OfKey(H, k) \cup {r} /\ r \notin OfKey(H, k)
      BY <2>2 DEF OfKey
    <3>2. IsFiniteSet(OfKey(H, k))
      BY Finite DEF OfKey
    <3>3. Cardinality(OfKey(H, k) \cup {r}) = Cardinality(OfKey(H, k)) + 1
      BY <3>1, <3>2, FS_AddElement
    <3>4. ac[k] = active[k] + 1 /\ active[k] < MaxConcurrency /\ active[k] \in Int
      BY <1>2, <2>2
    <3> HIDE DEF ac, b
    <3>5. ac[k] = Cardinality(OfKey(H \cup {r}, k))
      BY <2>1, <3>1, <3>3, <3>4
    <3>6. ac[k] <= MaxConcurrency
      BY <1>1, <3>4
    <3> QED BY <3>5, <3>6
  <2>3. CASE k # b
    <3>1. OfKey(H \cup {r}, k) = OfKey(H, k)
      BY <2>3 DEF OfKey
    <3>2. ac[k] = active[k]
      BY <1>2, <2>3
    <3> QED BY <2>1, <3>1, <3>2
  <2> QED BY <2>2, <2>3
<1> QED BY <1>2, <1>3 DEF Tally

LEMMA PermitReturned ==
    ASSUME NEW H \in SUBSET Request, NEW r \in H, Tally(H, active)
    PROVE  Tally(H \ {r}, PermitBack(r))
<1> DEFINE b == KeyOf(r)
           ac == PermitBack(r)
<1>1. b \in Key /\ MaxConcurrency \in Nat
  BY KeyIsKey, AdmissionAssumption
<1>2. active \in [Key -> Int] /\ ac = [active EXCEPT ![b] = @ - 1] /\ ac \in [Key -> Int]
  BY <1>1 DEF Tally, PermitBack
<1>3. ASSUME NEW k \in Key
      PROVE  ac[k] = Cardinality(OfKey(H \ {r}, k)) /\ ac[k] <= MaxConcurrency
  <2>1. active[k] = Cardinality(OfKey(H, k)) /\ active[k] <= MaxConcurrency
    BY DEF Tally
  <2>2. CASE k = b
    <3>1. OfKey(H \ {r}, k) = OfKey(H, k) \ {r} /\ r \in OfKey(H, k)
      BY <2>2 DEF OfKey
    <3>2. IsFiniteSet(OfKey(H, k))
      BY Finite DEF OfKey
    <3>3. Cardinality(OfKey(H, k) \ {r}) = Cardinality(OfKey(H, k)) - 1
      BY <3>1, <3>2, FS_RemoveElement
    <3>4. ac[k] = active[k] - 1 /\ active[k] \in Int
      BY <1>2, <2>2
    <3> HIDE DEF ac, b
    <3>5. ac[k] = Cardinality(OfKey(H \ {r}, k))
      BY <2>1, <3>1, <3>3, <3>4
    <3>6. ac[k] <= MaxConcurrency
      BY <1>1, <2>1, <3>4
    <3> QED BY <3>5, <3>6
  <2>3. CASE k # b
    <3>1. OfKey(H \ {r}, k) = OfKey(H, k)
      BY <2>3 DEF OfKey
    <3>2. ac[k] = active[k]
      BY <1>2, <2>3
    <3> QED BY <2>1, <3>1, <3>2
  <2> QED BY <2>2, <2>3
<1> QED BY <1>2, <1>3 DEF Tally

(* Attempts that use no account they did not use before fit.               *)
LEMMA FewerFit ==
    ASSUME Fits(slot, shadows), NEW sl \in [Request -> Nat], NEW sh \in [Account -> Nat],
           \A a \in Account : sh[a] <= shadows[a] /\ Using(sl, a) \subseteq Using(slot, a)
    PROVE  Fits(sl, sh)
<1> SUFFICES ASSUME NEW a \in Account PROVE sh[a] + Cardinality(Using(sl, a)) <= Parallel[a]
  BY DEF Fits
<1> DEFINE x == Cardinality(Using(slot, a))
           y == Cardinality(Using(sl, a))
<1>1. y <= x /\ x \in Nat /\ y \in Nat
  <2>1. Using(slot, a) \in SUBSET Request /\ Using(sl, a) \in SUBSET Request
    BY DEF Using
  <2> QED BY <2>1, Finite, FS_Subset
<1>2. shadows[a] + x <= Parallel[a] /\ shadows[a] \in Nat /\ sh[a] \in Nat /\ Parallel[a] \in Nat
  BY AdmissionAssumption DEF Fits
<1>3. sh[a] <= shadows[a]
  OBVIOUS
<1> HIDE DEF x, y
<1>4. sh[a] + y <= Parallel[a]
  BY <1>1, <1>2, <1>3
<1> QED BY <1>4 DEF y

LEMMA SlotFreed ==
    ASSUME Fits(slot, shadows), NEW r \in Request
    PROVE  Fits([slot EXCEPT ![r] = 0], shadows)
<1> DEFINE sl == [slot EXCEPT ![r] = 0]
<1>1. slot \in [Request -> Nat] /\ sl \in [Request -> Nat] /\ shadows \in [Account -> Nat]
  BY DEF Fits
<1>2. \A a \in Account : Using(sl, a) \subseteq Using(slot, a)
  BY <1>1 DEF Using
<1>3. \A a \in Account : shadows[a] <= shadows[a]
  BY <1>1
<1> HIDE DEF sl
<1> QED BY <1>1, <1>2, <1>3, FewerFit DEF sl

LEMMA InUseIs == \A a \in Account : InUse(a) = shadows[a] + Cardinality(Using(slot, a))
  BY DEF InUse, Using

LEMMA SlotTaken ==
    ASSUME Fits(slot, shadows), NEW r \in Request, NEW i \in Nat,
           Reservation(r, i) = "granted"
    PROVE  Fits([slot EXCEPT ![r] = i], shadows)
<1> DEFINE sl == [slot EXCEPT ![r] = i]
           b == AccountOf(r, i)
<1>1. slot \in [Request -> Nat] /\ sl \in [Request -> Nat] /\ shadows \in [Account -> Nat]
  BY DEF Fits
<1>2. ~ Full(b)
  BY DEF Reservation
<1>3. ASSUME NEW a \in Account PROVE shadows[a] + Cardinality(Using(sl, a)) <= Parallel[a]
  <2> DEFINE x == Cardinality(Using(slot, a))
             y == Cardinality(Using(sl, a))
  <2>1. /\ Using(slot, a) \in SUBSET Request /\ Using(sl, a) \in SUBSET Request
        /\ Using(slot, a) \cup {r} \in SUBSET Request
    BY DEF Using
  <2>2. /\ x \in Nat /\ y \in Nat /\ shadows[a] \in Nat /\ Parallel[a] \in Nat
        /\ shadows[a] + x <= Parallel[a]
    BY <1>1, <2>1, Finite, AdmissionAssumption DEF Fits
  <2>3. CASE a = b
    <3>1. Using(sl, a) \subseteq Using(slot, a) \cup {r}
      BY <1>1 DEF Using
    <3>2. y <= Cardinality(Using(slot, a) \cup {r})
      BY <2>1, <3>1, Finite, FS_Subset
    <3>3. Cardinality(Using(slot, a) \cup {r}) <= x + 1
      BY <2>1, <2>2, Finite, FS_AddElement
    <3>4. Cardinality(Using(slot, a) \cup {r}) \in Nat
      BY <2>1, Finite
    <3>5. ~(shadows[a] + x >= Parallel[a])
      BY <1>2, <2>3, InUseIs DEF Full
    <3> DEFINE z == Cardinality(Using(slot, a) \cup {r})
    <3>6. y <= z /\ z <= x + 1 /\ z \in Nat
      BY <3>2, <3>3, <3>4
    <3> HIDE DEF x, y, z
    <3>7. shadows[a] + y <= Parallel[a]
      BY <2>2, <3>5, <3>6
    <3> QED BY <3>7 DEF y
  <2>4. CASE a # b
    <3>1. Using(sl, a) \subseteq Using(slot, a)
      BY <1>1, <2>4 DEF Using
    <3>2. y <= x
      BY <2>1, <3>1, Finite, FS_Subset
    <3> HIDE DEF x, y
    <3>3. shadows[a] + y <= Parallel[a]
      BY <2>2, <3>2
    <3> QED BY <3>3 DEF y
  <2> QED BY <2>3, <2>4
<1> QED BY <1>1, <1>3 DEF Fits

-----------------------------------------------------------------------------
(* The fairness state and the pump's record.                               *)

Advance(f, l, k, cd, kd, cc, kc, st) ==
    [f EXCEPT !.classDeficit[l] = cd, !.keyDeficit[<<l, k>>] = kd,
              !.classCursor[l[1]] = cc, !.keyCursor[l] = kc, !.streak = st]

LEMMA AdvanceShape ==
    ASSUME NEW f, Shape(f), NEW l, NEW k, NEW cd, NEW kd, NEW cc \in Fairness!Class, NEW kc, NEW st
    PROVE  Shape(Advance(f, l, k, cd, kd, cc, kc, st))
<1> DEFINE R(a, b, x, d, e) == [classDeficit |-> a, classCursor |-> b, keyDeficit |-> x,
                                keyCursor |-> d, streak |-> e]
           cds == [f.classDeficit EXCEPT ![l] = cd]
           kds == [f.keyDeficit EXCEPT ![<<l, k>>] = kd]
           ccs == [f.classCursor EXCEPT ![l[1]] = cc]
           kcs == [f.keyCursor EXCEPT ![l] = kc]
           f1 == [f EXCEPT !.classDeficit[l] = cd]
           f2 == [f1 EXCEPT !.keyDeficit[<<l, k>>] = kd]
           f3 == [f2 EXCEPT !.classCursor[l[1]] = cc]
           f4 == [f3 EXCEPT !.keyCursor[l] = kc]
           f5 == [f4 EXCEPT !.streak = st]
           g == Advance(f, l, k, cd, kd, cc, kc, st)
<1>1. f = R(f.classDeficit, f.classCursor, f.keyDeficit, f.keyCursor, f.streak)
      /\ f.classCursor \in [Tier -> Fairness!Class]
  BY DEF Shape
<1>2. g = f5
  BY DEF Advance
<1>3. f1 = R(cds, f.classCursor, f.keyDeficit, f.keyCursor, f.streak)
  BY <1>1
<1>4. ccs \in [Tier -> Fairness!Class]
  BY <1>1
<1> HIDE DEF f1, cds
<1>5. f2 = R(cds, f.classCursor, kds, f.keyCursor, f.streak)
  BY <1>3
<1> HIDE DEF f2, kds
<1>6. f3 = R(cds, ccs, kds, f.keyCursor, f.streak)
  BY <1>5
<1> HIDE DEF f3, ccs
<1>7. f4 = R(cds, ccs, kds, kcs, f.streak)
  BY <1>6
<1> HIDE DEF f4, kcs, g
<1>8. g = R(cds, ccs, kds, kcs, st)
  BY <1>2, <1>7
<1> QED BY <1>4, <1>8 DEF Shape, g

LEMMA SelectedShape ==
    ASSUME Shape(fair), NEW A, NEW s \in Fairness!Selections(A)
    PROVE  Shape(s.fair)
<1>1. PICK p \in Fairness!Lane \X Key : s = Fairness!Selection(A, p[1], p[2])
  BY DEF Fairness!Selections
<1> DEFINE l == p[1]
           k == p[2]
           cd == Fairness!Charged(fair.classDeficit[l], Fairness!Quantum(l[2]))
           kd == Fairness!Charged(fair.keyDeficit[<<l, k>>],
                     Fairness!Min({queue[i].weight : i \in Fairness!OfKey(A, l, k)}))
           cc == IF cd = 0 THEN Fairness!Other(l[2]) ELSE l[2]
           kc == IF kd = 0 THEN Fairness!NextKey(A, l, k) ELSE k
           st == IF Fairness!Lower(A) # {} /\ l[1] = Fairness!TopTier(A) THEN fair.streak + 1 ELSE 0
<1>2. s.fair = Advance(fair, l, k, cd, kd, cc, kc, st)
  BY <1>1 DEF Fairness!Selection, Advance
<1>3. l[2] \in Fairness!Class
  BY DEF Fairness!Lane
<1>4. cc \in Fairness!Class
  BY <1>3 DEF Fairness!Other, Fairness!Class
<1> HIDE DEF l, k, cd, kd, cc, kc, st
<1> QED BY <1>2, <1>4, AdvanceShape

(* A pump that does not await, or is not there.                            *)
Rests(p) ==
    /\ p = [owner |-> p.owner, pc |-> p.pc, excluded |-> p.excluded, once |-> p.once,
            pick |-> p.pick]
    /\ p.pc \in {"idle", "scan"}

LEMMA RestsIs ==
    ASSUME NEW p, Rests(p), NEW q, NEW rev, NEW fu
    PROVE  Pumps(p, q, rev) /\ Holding(fu, p) = {r \in Request : fu[r] = "lease"}
<1>1. p.pc \notin {"gate", "reserve", "mark"} /\ p.pc \in {"idle", "scan"}
  BY DEF Rests
<1> QED BY <1>1 DEF Pumps, Holding, Rests

LEMMA IdleRests == Rests(Idle) /\ \A o : Rests([Idle EXCEPT !.owner = o, !.pc = "scan"])
<1>1. Rests(Idle)
  BY DEF Rests, Idle
<1>2. ASSUME NEW o PROVE Rests([Idle EXCEPT !.owner = o, !.pc = "scan"])
  <2> DEFINE p1 == [Idle EXCEPT !.owner = o]
             p2 == [p1 EXCEPT !.pc = "scan"]
  <2>1. [Idle EXCEPT !.owner = o, !.pc = "scan"] = p2
    OBVIOUS
  <2>2. p1 = [owner |-> o, pc |-> Idle.pc, excluded |-> Idle.excluded, once |-> Idle.once, pick |-> Idle.pick]
    BY <1>1 DEF Rests
  <2> HIDE DEF p1
  <2>3. p2 = [owner |-> o, pc |-> "scan", excluded |-> Idle.excluded, once |-> Idle.once, pick |-> Idle.pick]
    BY <2>2
  <2> HIDE DEF p2
  <2>4. Rests(p2)
    BY <2>3 DEF Rests
  <2> QED BY <2>1, <2>4
<1> QED BY <1>1, <1>2

(* The pump drops its pick and scans again.                                *)
LEMMA ScanRests ==
    ASSUME Pumps(pump, queue, revoked)
    PROVE  /\ \A k : Rests([pump EXCEPT !.pc = "scan", !.pick = k])
           /\ \A x, k : Rests([pump EXCEPT !.pc = "scan", !.excluded = x, !.pick = k])
           /\ \A x, n, k : Rests([pump EXCEPT !.pc = "scan", !.excluded = x, !.once = n, !.pick = k])
           /\ \A r, a, k : Rests([pump EXCEPT !.pc = "scan", !.once[r] = a, !.pick = k])
<1>1. pump = [owner |-> pump.owner, pc |-> pump.pc, excluded |-> pump.excluded, once |-> pump.once,
              pick |-> pump.pick]
  BY DEF Pumps
<1>2. ASSUME NEW k PROVE Rests([pump EXCEPT !.pc = "scan", !.pick = k])
  <2> DEFINE p1 == [pump EXCEPT !.pc = "scan"]
             p2 == [p1 EXCEPT !.pick = k]
  <2>1. [pump EXCEPT !.pc = "scan", !.pick = k] = p2
    OBVIOUS
  <2>2. p1 = [owner |-> pump.owner, pc |-> "scan", excluded |-> pump.excluded, once |-> pump.once, pick |-> pump.pick]
    BY <1>1
  <2> HIDE DEF p1
  <2>3. p2 = [owner |-> pump.owner, pc |-> "scan", excluded |-> pump.excluded, once |-> pump.once, pick |-> k]
    BY <2>2
  <2> HIDE DEF p2
  <2>4. Rests(p2)
    BY <2>3 DEF Rests
  <2> QED BY <2>1, <2>4
<1>3. ASSUME NEW x, NEW k PROVE Rests([pump EXCEPT !.pc = "scan", !.excluded = x, !.pick = k])
  <2> DEFINE p1 == [pump EXCEPT !.pc = "scan"]
             p2 == [p1 EXCEPT !.excluded = x]
             p3 == [p2 EXCEPT !.pick = k]
  <2>1. [pump EXCEPT !.pc = "scan", !.excluded = x, !.pick = k] = p3
    OBVIOUS
  <2>2. p1 = [owner |-> pump.owner, pc |-> "scan", excluded |-> pump.excluded, once |-> pump.once, pick |-> pump.pick]
    BY <1>1
  <2> HIDE DEF p1
  <2>3. p2 = [owner |-> pump.owner, pc |-> "scan", excluded |-> x, once |-> pump.once, pick |-> pump.pick]
    BY <2>2
  <2> HIDE DEF p2
  <2>4. p3 = [owner |-> pump.owner, pc |-> "scan", excluded |-> x, once |-> pump.once, pick |-> k]
    BY <2>3
  <2> HIDE DEF p3
  <2>5. Rests(p3)
    BY <2>4 DEF Rests
  <2> QED BY <2>1, <2>5
<1>4. ASSUME NEW x, NEW n, NEW k PROVE Rests([pump EXCEPT !.pc = "scan", !.excluded = x, !.once = n, !.pick = k])
  <2> DEFINE p1 == [pump EXCEPT !.pc = "scan"]
             p2 == [p1 EXCEPT !.excluded = x]
             p3 == [p2 EXCEPT !.once = n]
             p4 == [p3 EXCEPT !.pick = k]
  <2>1. [pump EXCEPT !.pc = "scan", !.excluded = x, !.once = n, !.pick = k] = p4
    OBVIOUS
  <2>2. p1 = [owner |-> pump.owner, pc |-> "scan", excluded |-> pump.excluded, once |-> pump.once, pick |-> pump.pick]
    BY <1>1
  <2> HIDE DEF p1
  <2>3. p2 = [owner |-> pump.owner, pc |-> "scan", excluded |-> x, once |-> pump.once, pick |-> pump.pick]
    BY <2>2
  <2> HIDE DEF p2
  <2>4. p3 = [owner |-> pump.owner, pc |-> "scan", excluded |-> x, once |-> n, pick |-> pump.pick]
    BY <2>3
  <2> HIDE DEF p3
  <2>5. p4 = [owner |-> pump.owner, pc |-> "scan", excluded |-> x, once |-> n, pick |-> k]
    BY <2>4
  <2> HIDE DEF p4
  <2>6. Rests(p4)
    BY <2>5 DEF Rests
  <2> QED BY <2>1, <2>6
<1>5. ASSUME NEW r, NEW a, NEW k PROVE Rests([pump EXCEPT !.pc = "scan", !.once[r] = a, !.pick = k])
  <2> DEFINE p1 == [pump EXCEPT !.pc = "scan"]
             p2 == [p1 EXCEPT !.once[r] = a]
             p3 == [p2 EXCEPT !.pick = k]
             on == [pump.once EXCEPT ![r] = a]
  <2>1. [pump EXCEPT !.pc = "scan", !.once[r] = a, !.pick = k] = p3
    OBVIOUS
  <2>2. p1 = [owner |-> pump.owner, pc |-> "scan", excluded |-> pump.excluded, once |-> pump.once,
              pick |-> pump.pick]
    BY <1>1
  <2> HIDE DEF p1
  <2>3. p2 = [owner |-> pump.owner, pc |-> "scan", excluded |-> pump.excluded, once |-> on,
              pick |-> pump.pick]
    BY <2>2
  <2> HIDE DEF p2, on
  <2>4. p3 = [owner |-> pump.owner, pc |-> "scan", excluded |-> pump.excluded, once |-> on,
              pick |-> k]
    BY <2>3
  <2> HIDE DEF p3
  <2>5. Rests(p3)
    BY <2>4 DEF Rests
  <2> QED BY <2>1, <2>5
<1> QED BY <1>2, <1>3, <1>4, <1>5

(* The pump takes a pick to the gate, through it, and on.                  *)
LEMMA ToGate ==
    ASSUME Pumps(pump, queue, revoked), NEW x, Choice(x), NEW q, x.id \in Members(q), NEW p,
           p = [pump EXCEPT !.pc = "gate", !.pick = <<x>>], NEW fu
    PROVE  Pumps(p, q, revoked) /\ Holding(fu, p) = {r \in Request : fu[r] = "lease"}
<1> DEFINE p1 == [pump EXCEPT !.pc = "gate"]
           p2 == [p1 EXCEPT !.pick = <<x>>]
<1>1. p = p2
  OBVIOUS
<1>2. p1 = [owner |-> pump.owner, pc |-> "gate", excluded |-> pump.excluded, once |-> pump.once,
            pick |-> pump.pick]
  BY DEF Pumps
<1> HIDE DEF p1
<1>3. p2 = [owner |-> pump.owner, pc |-> "gate", excluded |-> pump.excluded, once |-> pump.once,
            pick |-> <<x>>]
  BY <1>2
<1> HIDE DEF p2
<1>4. p2.pc = "gate" /\ p2.pick = <<x>>
      /\ p2 = [owner |-> p2.owner, pc |-> p2.pc, excluded |-> p2.excluded, once |-> p2.once,
               pick |-> p2.pick]
  BY <1>3
<1>5. p.pick[1] = x
  BY <1>1, <1>4
<1> QED BY <1>1, <1>4, <1>5 DEF Pumps, Holding

(* Who holds a permit while the pump is inside the gate.                   *)
LEMMA InsideHolds ==
    ASSUME NEW p, NEW fu, p.pc \in {"reserve", "mark"}, NEW x \in Request, p.pick[1].id = x
    PROVE  Holding(fu, p) = {r \in Request : fu[r] = "lease"} \cup {x}
  BY DEF Holding

Inside(p, x) == p.pc \in {"reserve", "mark"} /\ p.pick[1].id = x

LEMMA ToReserve ==
    ASSUME Pumps(pump, queue, revoked), pump.pc = "gate", Pick.id \notin revoked, NEW m \in Nat,
           NEW n, NEW p, p = [pump EXCEPT !.pc = "reserve", !.once = n, !.pick[1].leg = m]
    PROVE  Pumps(p, queue, revoked) /\ Inside(p, Pick.id)
<1> DEFINE p1 == [pump EXCEPT !.pc = "reserve"]
           p2 == [p1 EXCEPT !.once = n]
           p3 == [p2 EXCEPT !.pick[1].leg = m]
           x == pump.pick[1]
           y == [x EXCEPT !.leg = m]
<1>1. p = p3
  OBVIOUS
<1>2. Choice(x) /\ pump.pick = <<x>> /\ x.id \in Members(queue) /\ Pick = x
  BY DEF Pumps, Pick
<1>3. p1 = [owner |-> pump.owner, pc |-> "reserve", excluded |-> pump.excluded, once |-> pump.once,
            pick |-> pump.pick]
  BY DEF Pumps
<1> HIDE DEF p1, x
<1>4. p2 = [owner |-> pump.owner, pc |-> "reserve", excluded |-> pump.excluded, once |-> n,
            pick |-> <<x>>]
  BY <1>2, <1>3
<1> HIDE DEF p2
<1>5. p3 = [owner |-> pump.owner, pc |-> "reserve", excluded |-> pump.excluded, once |-> n,
            pick |-> <<y>>]
  BY <1>4
<1> HIDE DEF p3
<1>6. y = [id |-> x.id, fair |-> x.fair, cause |-> x.cause, legs |-> x.legs, leg |-> m,
           avoid |-> x.avoid] /\ Shape(x.fair)
  BY <1>2 DEF Choice
<1> HIDE DEF y
<1>7. Choice(y) /\ y.id = x.id /\ y.leg = m
  BY <1>6 DEF Choice
<1>8. p3.pc = "reserve" /\ p3.pick = <<y>>
      /\ p3 = [owner |-> p3.owner, pc |-> p3.pc, excluded |-> p3.excluded, once |-> p3.once,
               pick |-> p3.pick]
  BY <1>5
<1>9. p3.pick[1] = y
  BY <1>8
<1>10. Pumps(p3, queue, revoked) /\ Inside(p3, Pick.id)
  BY <1>2, <1>7, <1>8, <1>9 DEF Pumps, Inside
<1> QED BY <1>1, <1>10

LEMMA ToMark ==
    ASSUME Pumps(pump, queue, revoked), pump.pc = "reserve", NEW p, p = [pump EXCEPT !.pc = "mark"]
    PROVE  Pumps(p, queue, revoked) /\ Inside(p, Pick.id)
<1>1. p = [owner |-> pump.owner, pc |-> "mark", excluded |-> pump.excluded, once |-> pump.once,
            pick |-> pump.pick]
  BY DEF Pumps
<1>2. p.pc = "mark" /\ p.pick = pump.pick
      /\ p = [owner |-> p.owner, pc |-> p.pc, excluded |-> p.excluded, once |-> p.once, pick |-> p.pick]
  BY <1>1
<1> QED BY <1>2 DEF Pumps, Inside, Pick

-----------------------------------------------------------------------------
(* The pump's steps.                                                       *)

Leases(fu) == {r \in Request : fu[r] = "lease"}

LEMMA MembersIn ==
    ASSUME NEW q \in Seq(Item)
    PROVE  Members(q) \subseteq Request
<1>1. \A i \in DOMAIN q : q[i] \in Item
  OBVIOUS
<1> QED BY <1>1 DEF Members, Item

(* Removing requests whose futures are settled without a lease.            *)
LEMMA Settled ==
    ASSUME Good, NEW R, NEW fu \in [Request -> Futures],
           \A r \in Request : fu[r] = IF r \in Waiting \cap R THEN "error" ELSE future[r]
    PROVE  /\ Lists(Outside(queue, R), fu) /\ Owns(task, fu) /\ Leases(fu) = Leases(future)
           /\ Members(Outside(queue, R)) = Waiting \ R
<1> DEFINE q == Outside(queue, R)
<1>1. queue \in Seq(Item) /\ Len(queue) <= MaxGlobal /\ \A r \in Waiting : future[r] = "pending"
  BY DEF Good, Lists, Waiting
<1>2. q \in Seq(Item) /\ Len(q) <= Len(queue) /\ Members(q) = Waiting \ R
  BY <1>1, OutsideIs DEF Waiting
<1>3. Len(q) <= MaxGlobal
  <2>1. Len(q) \in Nat /\ Len(queue) \in Nat /\ MaxGlobal \in Nat
    BY <1>1, <1>2, AdmissionAssumption
  <2> HIDE DEF q
  <2> QED BY <1>1, <1>2, <2>1
<1>4. Waiting \subseteq Request
  BY <1>1, MembersIn DEF Waiting
<1> HIDE DEF q
<1>5. Lists(q, fu)
  BY <1>1, <1>2, <1>3, <1>4 DEF Lists
<1>6. Owns(task, fu)
  BY <1>1 DEF Good, Owns
<1>7. Leases(fu) = Leases(future)
  BY <1>1 DEF Leases
<1> QED BY <1>2, <1>5, <1>6, <1>7 DEF q

LEMMA ScanMoves ==
    ASSUME Good, Scan
    PROVE  Good'
<1> DEFINE ready == {r \in Waiting \ Dead : Preview(r) # {}}
           A == {i \in DOMAIN queue : queue[i].id \in ready \ pump.excluded}
<1>1. /\ pump.pc = "scan" /\ queue' = Outside(queue, Dead) /\ fair' = fair /\ revoked' = revoked
      /\ slot' = slot /\ shadows' = shadows /\ active' = active
      /\ future' = [r \in Request |-> IF r \in Waiting \cap Dead THEN "error" ELSE future[r]]
  BY DEF Scan, runtime
<1>2. future' \in [Request -> Futures]
  BY <1>1 DEF Good, Owns, Futures
<1>3. /\ Lists(queue', future') /\ Owns(task, future') /\ Leases(future') = Leases(future)
      /\ Members(queue') = Waiting \ Dead
  <2>1. \A r \in Request : future'[r] = IF r \in Waiting \cap Dead THEN "error" ELSE future[r]
    BY <1>1
  <2> QED BY <1>1, <1>2, <2>1, Settled
<1>4. Rests(pump) /\ Pumps(pump, queue, revoked)
  BY <1>1 DEF Good, Pumps, Rests
<1>5. Tally(Leases(future'), active)
  BY <1>3, <1>4, RestsIs DEF Good, Leases
<1>6. CASE A = {}
  <2>1. PumpDone
    BY <1>6 DEF Scan
  <2>2. Pumps(pump', queue', revoked) /\ Holding(future', pump') = Leases(future')
    BY <2>1, IdleRests, RestsIs DEF PumpDone, Leases
  <2>3. Owns(task', future')
    BY <1>3, <2>1 DEF PumpDone, Owns, Places
  <2> QED BY <1>1, <1>3, <1>5, <2>2, <2>3 DEF Good
<1>7. CASE A # {}
  <2>1. task' = task
    BY <1>7 DEF Scan
  <2>2. PICK s \in Fairness!Selections(A) :
            LET r == s.entry.id
                allowed == Allowed(r, ready)
            IN  IF allowed = {} THEN Exclude(r)
                ELSE pump' = [pump EXCEPT !.pc = "gate", !.pick =
                        <<[id |-> r, fair |-> s.fair, cause |-> PreviewCause(r),
                           legs |-> Preview(r), leg |-> 0,
                           avoid |-> PreviewAccounts(r) \ allowed]>>]
    BY <1>7 DEF Scan
  <2> DEFINE r == s.entry.id
             x == [id |-> r, fair |-> s.fair, cause |-> PreviewCause(r),
                   legs |-> Preview(r), leg |-> 0,
                   avoid |-> PreviewAccounts(r) \ Allowed(r, ready)]
  <2>3. queue \in Seq(Item) /\ Shape(fair)
    BY DEF Good, Lists
  <2>4. r \in Members(queue')
    <3>1. PICK i \in A : s.entry = queue[i]
      BY <1>7, <2>3, SelectedEntry DEF Shape
    <3> QED BY <1>3, <3>1
  <2>5. Shape(s.fair)
    BY <2>3, SelectedShape
  <2>6. Pumps(pump', queue', revoked) /\ Holding(future', pump') = Leases(future')
    <3>1. CASE Exclude(r)
      BY <1>4, <3>1, ScanRests, RestsIs DEF Exclude, Leases
    <3>2. CASE pump' = [pump EXCEPT !.pc = "gate", !.pick = <<x>>]
      <4>1. Choice(x) /\ x.id = r
        BY <2>5 DEF Choice
      <4> HIDE DEF x
      <4> QED BY <1>4, <2>4, <3>2, <4>1, ToGate DEF Leases
    <3> QED BY <2>2, <3>1, <3>2
  <2> QED BY <1>1, <1>3, <1>5, <2>1, <2>6 DEF Good
<1> QED BY <1>6, <1>7

(* What the pump's pick is while the pump awaits.                          *)
LEMMA PickIs ==
    ASSUME Good, pump.pc \in {"gate", "reserve", "mark"}
    PROVE  /\ Pick.id \in Waiting /\ Pick.id \in Request /\ future[Pick.id] = "pending"
           /\ Shape(Pick.fair) /\ Pick.id \notin Leases(future)
<1>1. Pick.id \in Waiting /\ Shape(Pick.fair)
  BY DEF Good, Pumps, Pick, Waiting, Choice
<1>2. Pick.id \in Request /\ future[Pick.id] = "pending"
  BY <1>1, MembersIn DEF Good, Lists, Waiting
<1> QED BY <1>1, <1>2 DEF Leases

LEMMA PermitsOutside ==
    ASSUME Good, pump.pc \notin {"reserve", "mark"}
    PROVE  Tally(Leases(future), active)
<1>1. Holding(future, pump) = Leases(future)
  BY DEF Holding, Leases
<1> QED BY <1>1 DEF Good

LEMMA PermitsInside ==
    ASSUME Good, pump.pc \in {"reserve", "mark"}
    PROVE  /\ Tally(Leases(future) \cup {Pick.id}, active)
           /\ Tally(Leases(future), PermitBack(Pick.id))
<1>1. Pick.id \in Request /\ Pick.id \notin Leases(future)
  BY PickIs
<1>2. Holding(future, pump) = Leases(future) \cup {Pick.id}
  BY <1>1 DEF Holding, Leases, Pick
<1>3. Tally(Leases(future) \cup {Pick.id}, active)
  BY <1>2 DEF Good
<1>4. Leases(future) \cup {Pick.id} \in SUBSET Request
  BY <1>1 DEF Leases
<1>5. (Leases(future) \cup {Pick.id}) \ {Pick.id} = Leases(future)
  BY <1>1
<1>6. Tally((Leases(future) \cup {Pick.id}) \ {Pick.id}, PermitBack(Pick.id))
  BY <1>3, <1>4, PermitReturned
<1> QED BY <1>3, <1>5, <1>6

(* The permits of a pump that rests, or is inside with its pick.           *)
LEMMA RestingPermits ==
    ASSUME NEW p, Rests(p), NEW fu, NEW ac, Tally(Leases(fu), ac)
    PROVE  Tally(Holding(fu, p), ac)
  BY RestsIs DEF Leases

LEMMA InsidePermits ==
    ASSUME NEW p, NEW x \in Request, Inside(p, x), NEW fu, NEW ac, Tally(Leases(fu) \cup {x}, ac)
    PROVE  Tally(Holding(fu, p), ac)
<1>1. Holding(fu, p) = Leases(fu) \cup {x}
  BY InsideHolds DEF Inside, Leases
<1> QED BY <1>1

LEMMA EnterGateMoves ==
    ASSUME Good, EnterGate
    PROVE  Good'
<1> DEFINE r == Pick.id
           once == [pump.once EXCEPT ![r] = IF @ = Pick.cause THEN "none" ELSE @]
           found == {i \in Filter(r, Pick.cause) : AccountOf(r, i) \notin Pick.avoid}
<1>1. /\ pump.pc = "gate" /\ fair' = fair /\ revoked' = revoked /\ task' = task
      /\ slot' = slot /\ shadows' = shadows
  BY DEF EnterGate, runtime
<1>2. r \in Waiting /\ r \in Request /\ r \notin Leases(future) /\ Tally(Leases(future), active)
      /\ Pumps(pump, queue, revoked)
  BY <1>1, PickIs, PermitsOutside DEF Good
<1>3. CASE ~ Reauthorized(r)
  <2>1. /\ queue' = Without(r) /\ future' = [future EXCEPT ![r] = "error"] /\ active' = active
        /\ pump' = [pump EXCEPT !.pc = "scan", !.pick = <<>>]
    BY <1>3 DEF EnterGate
  <2>2. future' \in [Request -> Futures]
        /\ \A x \in Request : future'[x] = IF x \in Waiting \cap {r} THEN "error" ELSE future[x]
    BY <1>2, <2>1 DEF Good, Owns, Futures
  <2>3. Lists(queue', future') /\ Owns(task, future') /\ Leases(future') = Leases(future)
    BY <2>1, <2>2, Settled DEF Without
  <2>4. Rests(pump')
    BY <1>2, <2>1, ScanRests
  <2>5. Pumps(pump', queue', revoked) /\ Tally(Holding(future', pump'), active)
    BY <1>2, <2>3, <2>4, RestsIs, RestingPermits
  <2> QED BY <1>1, <2>1, <2>3, <2>5 DEF Good
<1>4. CASE Reauthorized(r)
  <2>1. queue' = queue /\ future' = future
    BY <1>4 DEF EnterGate
  <2>2. \/ /\ pump' = [pump EXCEPT !.pc = "scan", !.excluded = @ \cup {r}, !.once = once,
                                   !.pick = <<>>]
           /\ active' = active
        \/ /\ found # {} /\ ~(active[KeyOf(r)] >= MaxConcurrency)
           /\ pump' = [pump EXCEPT !.pc = "reserve", !.once = once, !.pick[1].leg = Min(found)]
           /\ active' = [active EXCEPT ![KeyOf(r)] = @ + 1]
    BY <1>4 DEF EnterGate
  <2>3. Pumps(pump', queue, revoked) /\ Tally(Holding(future, pump'), active')
    <3>1. CASE /\ pump' = [pump EXCEPT !.pc = "scan", !.excluded = @ \cup {r}, !.once = once,
                                       !.pick = <<>>]
               /\ active' = active
      <4> HIDE DEF once
      <4>1. Rests(pump')
        BY <1>2, <3>1, ScanRests
      <4> QED BY <1>2, <3>1, <4>1, RestsIs, RestingPermits
    <3>2. CASE /\ found # {} /\ ~(active[KeyOf(r)] >= MaxConcurrency)
               /\ pump' = [pump EXCEPT !.pc = "reserve", !.once = once, !.pick[1].leg = Min(found)]
               /\ active' = [active EXCEPT ![KeyOf(r)] = @ + 1]
      <4> HIDE DEF once
      <4>1. Min(found) \in Nat
        <5>1. Route[r] \in Seq([account : Account, causes : SUBSET Cause])
          BY <1>2, AdmissionAssumption
        <5>2. found \in SUBSET Nat
          BY <5>1 DEF Filter
        <5> HIDE DEF found
        <5> QED BY <3>2, <5>2, Lowest
      <4>2. r \notin revoked
        BY <1>4 DEF Reauthorized, Dead
      <4> HIDE DEF found
      <4>3. Pumps(pump', queue, revoked) /\ Inside(pump', r)
        BY <1>1, <1>2, <3>2, <4>1, <4>2, ToReserve
      <4>4. active[KeyOf(r)] < MaxConcurrency
        <5>1. active \in [Key -> Int] /\ KeyOf(r) \in Key /\ MaxConcurrency \in Nat
          BY <1>2, KeyIsKey, AdmissionAssumption DEF Tally
        <5> QED BY <3>2, <5>1
      <4>5. Leases(future) \in SUBSET Request
        BY DEF Leases
      <4>6. Tally(Leases(future) \cup {r}, active')
        BY <1>2, <3>2, <4>4, <4>5, PermitTaken
      <4> QED BY <1>2, <4>3, <4>6, InsidePermits
    <3> QED BY <2>2, <3>1, <3>2
  <2> QED BY <1>1, <2>1, <2>3 DEF Good
<1> QED BY <1>3, <1>4

LEMMA ReserveMoves ==
    ASSUME Good, Reserve
    PROVE  Good'
<1> DEFINE r == Pick.id
           answer == IF r \in expired THEN "none" ELSE Reservation(r, Pick.leg)
<1>1. /\ pump.pc = "reserve" /\ fair' = fair /\ revoked' = revoked /\ task' = task
      /\ queue' = queue /\ future' = future /\ shadows' = shadows
  BY DEF Reserve
<1>2. r \in Request /\ Pumps(pump, queue, revoked) /\ Pick.leg \in Nat
      /\ Tally(Leases(future) \cup {r}, active) /\ Tally(Leases(future), PermitBack(r))
  BY <1>1, PickIs, PermitsInside DEF Good, Pumps, Pick
<1>3. CASE answer = "granted"
  <2>1. slot' = [slot EXCEPT ![r] = Pick.leg] /\ pump' = [pump EXCEPT !.pc = "mark"]
        /\ active' = active
    BY <1>3 DEF Reserve
  <2>2. Fits(slot', shadows)
    BY <1>2, <1>3, <2>1, SlotTaken DEF Good
  <2>3. Pumps(pump', queue, revoked) /\ Inside(pump', r)
    BY <1>1, <1>2, <2>1, ToMark
  <2>4. Tally(Holding(future, pump'), active)
    BY <1>2, <2>3, InsidePermits
  <2> QED BY <1>1, <2>1, <2>2, <2>3, <2>4 DEF Good
<1>4. CASE answer # "granted"
  <2>1. active' = PermitBack(r) /\ slot' = slot
    BY <1>4 DEF Reserve
  <2>2. \/ Exclude(r) \/ pump' = [pump EXCEPT !.pc = "scan", !.once[r] = answer, !.pick = <<>>]
    BY <1>4 DEF Reserve
  <2>3. Rests(pump')
    <3> HIDE DEF answer
    <3>1. CASE Exclude(r)
      BY <1>2, <3>1, ScanRests DEF Exclude
    <3>2. CASE pump' = [pump EXCEPT !.pc = "scan", !.once[r] = answer, !.pick = <<>>]
      BY <1>2, <3>2, ScanRests
    <3> QED BY <2>2, <3>1, <3>2
  <2>4. Pumps(pump', queue, revoked) /\ Tally(Holding(future, pump'), active')
    BY <1>2, <2>1, <2>3, RestsIs, RestingPermits
  <2> QED BY <1>1, <2>1, <2>4 DEF Good
<1> QED BY <1>3, <1>4

LEMMA MarkMoves ==
    ASSUME Good, Mark
    PROVE  Good'
<1> DEFINE r == Pick.id
<1>1. /\ pump.pc = "mark" /\ queue' = Without(r) /\ fair' = Pick.fair
      /\ future' = [future EXCEPT ![r] = "lease"]
      /\ pump' = [pump EXCEPT !.pc = "scan", !.excluded = {}, !.pick = <<>>]
      /\ slot' = slot /\ shadows' = shadows /\ task' = task /\ revoked' = revoked /\ active' = active
  BY DEF Mark
<1>2. r \in Waiting /\ r \in Request /\ future[r] = "pending" /\ Shape(Pick.fair)
      /\ Pumps(pump, queue, revoked) /\ Tally(Leases(future) \cup {r}, active)
  BY <1>1, PickIs, PermitsInside DEF Good
<1>3. queue \in Seq(Item) /\ Len(queue) <= MaxGlobal /\ \A x \in Waiting : future[x] = "pending"
  BY DEF Good, Lists, Waiting
<1>4. queue' \in Seq(Item) /\ Len(queue') <= Len(queue) /\ Members(queue') = Waiting \ {r}
  BY <1>1, <1>3, OutsideIs DEF Without, Waiting
<1>5. Len(queue') <= MaxGlobal
  <2>1. Len(queue') \in Nat /\ Len(queue) \in Nat /\ MaxGlobal \in Nat
    BY <1>3, <1>4, AdmissionAssumption
  <2> QED BY <1>3, <1>4, <2>1
<1>6. future \in [Request -> Futures] /\ Waiting \subseteq Request
  BY <1>3, MembersIn DEF Good, Owns, Waiting
<1>7. Lists(queue', future')
  BY <1>1, <1>3, <1>4, <1>5, <1>6 DEF Lists
<1>8. Owns(task, future')
  BY <1>1, <1>2, <1>6 DEF Good, Owns, Futures
<1>9. Leases(future') = Leases(future) \cup {r}
  BY <1>1, <1>2, <1>6 DEF Leases
<1>10. Rests(pump')
  BY <1>1, <1>2, ScanRests
<1>11. Tally(Leases(future'), active)
  BY <1>2, <1>9
<1>12. Tally(Holding(future', pump'), active)
  BY <1>10, <1>11, RestingPermits
<1>13. Pumps(pump', queue', revoked)
  BY <1>10, RestsIs
<1> QED BY <1>1, <1>2, <1>7, <1>8, <1>12, <1>13 DEF Good

LEMMA MarkRaisesMoves ==
    ASSUME Good, MarkRaises
    PROVE  Good'
<1> DEFINE r == Pick.id
<1>1. /\ pump.pc = "mark" /\ slot' = [slot EXCEPT ![r] = 0] /\ active' = PermitBack(r)
      /\ pump' = Idle /\ queue' = queue /\ future' = future /\ fair' = fair
      /\ revoked' = revoked /\ shadows' = shadows
      /\ task' = IF pump.owner = WAKE THEN task ELSE [task EXCEPT ![pump.owner] = "failed"]
  BY DEF MarkRaises
<1>2. r \in Request /\ Tally(Leases(future), active')
  BY <1>1, PickIs, PermitsInside
<1>3. Fits(slot', shadows)
  BY <1>1, <1>2, SlotFreed DEF Good
<1>4. Owns(task', future)
  BY <1>1 DEF Good, Owns, Places
<1>5. Pumps(pump', queue, revoked) /\ Tally(Holding(future, pump'), active')
  BY <1>1, <1>2, IdleRests, RestsIs, RestingPermits
<1> QED BY <1>1, <1>3, <1>4, <1>5 DEF Good

LEMMA CancelPumpMoves ==
    ASSUME Good, CancelPump
    PROVE  Good'
<1> DEFINE r == Pick.id
<1>1. /\ pump.pc \in {"gate", "reserve", "mark"} /\ slot' = [slot EXCEPT ![r] = 0]
      /\ pump' = Idle /\ queue' = queue /\ future' = future /\ fair' = fair
      /\ revoked' = revoked /\ shadows' = shadows /\ task' = [task EXCEPT ![pump.owner] = "cleanup"]
      /\ active' = IF pump.pc = "gate" THEN active ELSE PermitBack(r)
  BY DEF CancelPump, waiters
<1>2. r \in Request
  BY <1>1, PickIs
<1>3. Tally(Leases(future), active')
  BY <1>1, PermitsInside, PermitsOutside
<1>4. Fits(slot', shadows)
  BY <1>1, <1>2, SlotFreed DEF Good
<1>5. Owns(task', future)
  BY <1>1 DEF Good, Owns, Places
<1>6. Pumps(pump', queue, revoked) /\ Tally(Holding(future, pump'), active')
  BY <1>1, <1>3, IdleRests, RestsIs, RestingPermits
<1> QED BY <1>1, <1>4, <1>5, <1>6 DEF Good

(* A pump that begins.                                                     *)
LEMMA PumpBegins ==
    ASSUME Good, pump.pc = "idle", NEW o, PumpBy(o), active' = active,
           Leases(future') = Leases(future), revoked' = revoked
    PROVE  Pumps(pump', queue', revoked') /\ Tally(Holding(future', pump'), active')
<1>1. Tally(Leases(future'), active')
  BY PermitsOutside
<1>2. Rests(pump')
  BY IdleRests DEF PumpBy
<1>3. Tally(Holding(future', pump'), active')
  BY <1>1, <1>2, RestingPermits
<1>4. Pumps(pump', queue', revoked')
  BY <1>2, RestsIs
<1> QED BY <1>3, <1>4

LEMMA WakeMoves ==
    ASSUME Good, Wake
    PROVE  Good'
<1>1. /\ pump.pc = "idle" /\ PumpBy(WAKE) /\ task' = task /\ future' = future /\ revoked' = revoked
      /\ queue' = queue /\ fair' = fair /\ active' = active /\ slot' = slot /\ shadows' = shadows
  BY DEF Wake, runtime, waiters
<1>2. Pumps(pump', queue', revoked') /\ Tally(Holding(future', pump'), active')
  BY <1>1, PumpBegins
<1> QED BY <1>1, <1>2 DEF Good

-----------------------------------------------------------------------------
(* The steps of a request's task.                                          *)

(* Nothing that the pump knows changes.                                    *)
SamePump == pump' = pump /\ queue' = queue /\ revoked' = revoked

LEMMA ResumeMoves ==
    ASSUME Good, NEW r \in Request, Resume(r)
    PROVE  Good'
<1>1. /\ SamePump /\ fair' = fair /\ active' = active /\ slot' = slot /\ shadows' = shadows
      /\ future' = future
      /\ task' = [task EXCEPT ![r] = IF future[r] = "lease" THEN "leased" ELSE "failed"]
  BY DEF Resume, SamePump, runtime, waiters
<1>2. Owns(task', future)
  BY <1>1 DEF Good, Owns, Places
<1> QED BY <1>1, <1>2 DEF Good, SamePump

LEMMA CancelMoves ==
    ASSUME Good, NEW r \in Request, Cancel(r)
    PROVE  Good'
<1>1. /\ SamePump /\ fair' = fair /\ active' = active /\ slot' = slot /\ shadows' = shadows
      /\ future' = future
      /\ task' = [task EXCEPT ![r] = IF @ = "cleanup" THEN "cancelled" ELSE "cleanup"]
  BY DEF Cancel, SamePump, runtime, waiters
<1>2. Owns(task', future)
  BY <1>1 DEF Good, Owns, Places
<1> QED BY <1>1, <1>2 DEF Good, SamePump

(* Environment steps that leave permits and waiters alone.                 *)
LEMMA EnvironmentMoves ==
    ASSUME Good, UNCHANGED <<task, future, queue, fair, pump, active>>,
           revoked' = revoked \/ ~InGate, revoked' \subseteq Request, Fits(slot', shadows')
    PROVE  Good'
<1>1. Pumps(pump, queue, revoked')
  BY DEF Good, Pumps, InGate
<1> QED BY <1>1 DEF Good


(* A lease that is given back.                                             *)
LEMMA ReleasedBack ==
    ASSUME Good, NEW r \in Request, future[r] = "lease", Released(r)
    PROVE  /\ Tally(Holding(future', pump), active') /\ Lists(queue, future')
           /\ future' = [future EXCEPT ![r] = "released"] /\ future' \in [Request -> Futures]
<1>1. future' = [future EXCEPT ![r] = "released"] /\ active' = PermitBack(r)
  BY DEF Released
<1>2. future \in [Request -> Futures]
  BY DEF Good, Owns
<1>3. future' \in [Request -> Futures]
  BY <1>1, <1>2 DEF Futures
<1>4. queue \in Seq(Item) /\ Len(queue) <= MaxGlobal /\ \A x \in Waiting : future[x] = "pending"
  BY DEF Good, Lists, Waiting
<1>5. Lists(queue, future')
  <2>1. \A x \in Waiting : x # r /\ x \in Request
    BY <1>4, MembersIn DEF Waiting
  <2> QED BY <1>1, <1>2, <1>4, <2>1 DEF Lists, Waiting
<1> DEFINE H == Holding(future, pump)
<1>6. Holding(future', pump) = H \ {r}
  <2>1. pump.pc \in {"reserve", "mark"} => pump.pick[1].id # r
    BY PickIs DEF Pick
  <2> QED BY <1>1, <1>2, <2>1 DEF Holding
<1>7. H \in SUBSET Request /\ r \in H /\ Tally(H, active)
  BY DEF Holding, Good
<1> HIDE DEF H
<1>8. Tally(H \ {r}, PermitBack(r))
  BY <1>7, PermitReturned
<1> QED BY <1>1, <1>3, <1>5, <1>6, <1>8

LEMMA FinishMoves ==
    ASSUME Good, NEW r \in Request, Finish(r)
    PROVE  Good'
<1>1. /\ SamePump /\ fair' = fair /\ shadows' = shadows /\ task[r] = "leased" /\ Released(r)
      /\ slot' \in {slot, [slot EXCEPT ![r] = 0]} /\ task' = [task EXCEPT ![r] = "done"]
  BY DEF Finish, SamePump, waiters
<1>2. future[r] = "lease"
  BY <1>1 DEF Good, Owns
<1>3. /\ Tally(Holding(future', pump), active') /\ Lists(queue, future')
      /\ future' = [future EXCEPT ![r] = "released"] /\ future' \in [Request -> Futures]
  BY <1>1, <1>2, ReleasedBack
<1>4. Owns(task', future')
  BY <1>1, <1>3 DEF Good, Owns, Places
<1>5. Fits(slot', shadows)
  BY <1>1, SlotFreed DEF Good
<1> QED BY <1>1, <1>3, <1>4, <1>5 DEF Good, SamePump

LEMMA RetryMoves ==
    ASSUME Good, NEW r \in Request, Retry(r)
    PROVE  Good'
<1>1. /\ SamePump /\ fair' = fair /\ shadows' = shadows /\ task[r] = "leased" /\ Released(r)
      /\ slot' = [slot EXCEPT ![r] = 0] /\ task' = [task EXCEPT ![r] = "enter"]
  BY DEF Retry, SamePump, waiters
<1>2. future[r] = "lease"
  BY <1>1 DEF Good, Owns
<1>3. /\ Tally(Holding(future', pump), active') /\ Lists(queue, future')
      /\ future' = [future EXCEPT ![r] = "released"] /\ future' \in [Request -> Futures]
  BY <1>1, <1>2, ReleasedBack
<1>4. Owns(task', future')
  BY <1>1, <1>3 DEF Good, Owns, Places
<1>5. Fits(slot', shadows)
  BY <1>1, SlotFreed DEF Good
<1> QED BY <1>1, <1>3, <1>4, <1>5 DEF Good, SamePump

LEMMA EnterMoves ==
    ASSUME Good, NEW r \in Request, Enter(r)
    PROVE  Good'
<1>1. /\ task[r] = "enter" /\ pump.pc = "idle" /\ slot' = slot /\ shadows' = shadows
      /\ revoked' = revoked /\ fair' = fair /\ active' = active
  BY DEF Enter, runtime
<1>2. CASE Refused(r)
  <2>1. /\ task' = [task EXCEPT ![r] = "failed"] /\ future' = future /\ queue' = queue
        /\ pump' = pump
    BY <1>2 DEF Enter
  <2>2. Owns(task', future)
    BY <2>1 DEF Good, Owns, Places
  <2> QED BY <1>1, <2>1, <2>2 DEF Good
<1>3. CASE ~ Refused(r)
  <2>1. /\ task' = [task EXCEPT ![r] = "pump"] /\ future' = [future EXCEPT ![r] = "pending"]
        /\ queue' = Append(queue, EntryOf(r)) /\ PumpBy(r)
    BY <1>3 DEF Enter
  <2>2. future \in [Request -> Futures] /\ future[r] \in {"none", "released"}
    BY <1>1 DEF Good, Owns
  <2>3. Owns(task', future')
    BY <2>1 DEF Good, Owns, Places, Futures
  <2>4. Leases(future') = Leases(future)
    BY <2>1, <2>2 DEF Leases
  <2>5. EntryOf(r) \in Item /\ EntryOf(r).id = r
    <3>1. Qos[r] \in [key : Key, tier : Tier, weight : Weight]
      BY AdmissionAssumption
    <3> QED BY <3>1 DEF EntryOf, Item, KeyOf
  <2>6. queue \in Seq(Item) /\ \A x \in Members(queue) : future[x] = "pending"
    BY DEF Good, Lists
  <2>7. queue' \in Seq(Item) /\ Members(queue') = Members(queue) \cup {r}
        /\ Members(queue) \subseteq Request
    BY <2>1, <2>5, <2>6, AppendMembers, MembersIn
  <2>8. Len(queue') <= MaxGlobal
    <3>1. ~(Len(queue) >= MaxGlobal) /\ MaxGlobal \in Nat /\ Len(queue) \in Nat
      BY <1>3, <2>6, AdmissionAssumption DEF Refused
    <3>2. Len(queue') = Len(queue) + 1
      BY <2>1, <2>5, <2>6
    <3> QED BY <3>1, <3>2
  <2>9. Lists(queue', future')
    BY <2>1, <2>2, <2>6, <2>7, <2>8 DEF Lists
  <2>10. Pumps(pump', queue', revoked') /\ Tally(Holding(future', pump'), active')
    BY <1>1, <2>1, <2>4, PumpBegins
  <2> QED BY <1>1, <2>3, <2>9, <2>10 DEF Good
<1> QED BY <1>2, <1>3

LEMMA CleanupMoves ==
    ASSUME Good, NEW r \in Request, Cleanup(r)
    PROVE  Good'
<1>1. /\ task[r] = "cleanup" /\ pump.pc = "idle" /\ queue' = Without(r)
      /\ task' = [task EXCEPT ![r] = "cancelled"] /\ shadows' = shadows
      /\ revoked' = revoked /\ fair' = fair /\ pump' = pump
  BY DEF Cleanup
<1>2. Rests(pump)
  BY <1>1 DEF Good, Pumps, Rests
<1>3. Pumps(pump', queue', revoked)
  BY <1>1, <1>2, RestsIs
<1>4. queue \in Seq(Item) /\ Len(queue) <= MaxGlobal /\ future \in [Request -> Futures]
  BY DEF Good, Lists, Owns
<1>5. queue' \in Seq(Item) /\ Len(queue') <= Len(queue) /\ Members(queue') = Members(queue) \ {r}
  BY <1>1, <1>4, OutsideIs DEF Without
<1>6. Len(queue') <= MaxGlobal
  <2>1. Len(queue') \in Nat /\ Len(queue) \in Nat /\ MaxGlobal \in Nat
    BY <1>4, <1>5, AdmissionAssumption
  <2> QED BY <1>4, <1>5, <2>1
<1>7. Members(queue) \subseteq Request
  BY <1>4, MembersIn
<1>8. CASE future[r] = "lease"
  <2>1. Released(r) /\ slot' = [slot EXCEPT ![r] = 0]
    BY <1>8 DEF Cleanup
  <2>2. /\ Tally(Holding(future', pump), active') /\ Lists(queue, future')
        /\ future' = [future EXCEPT ![r] = "released"] /\ future' \in [Request -> Futures]
    BY <1>8, <2>1, ReleasedBack
  <2>3. Lists(queue', future')
    BY <1>5, <1>6, <2>2 DEF Lists
  <2>4. Owns(task', future')
    BY <1>1, <2>2 DEF Good, Owns, Places
  <2>5. Fits(slot', shadows)
    BY <2>1, SlotFreed DEF Good
  <2> QED BY <1>1, <1>3, <2>2, <2>3, <2>4, <2>5 DEF Good
<1>9. CASE future[r] # "lease"
  <2>1. /\ future' = [future EXCEPT ![r] = IF @ = "pending" THEN "cancelled" ELSE @]
        /\ active' = active /\ slot' = slot
    BY <1>9 DEF Cleanup
  <2>2. Leases(future') = Leases(future) /\ future' \in [Request -> Futures]
    BY <1>4, <1>9, <2>1 DEF Leases, Futures
  <2>3. Lists(queue', future')
    BY <1>4, <1>5, <1>6, <1>7, <2>1 DEF Good, Lists
  <2>4. Owns(task', future')
    BY <1>1, <2>1, <2>2 DEF Good, Owns, Places
  <2>5. Tally(Leases(future'), active)
    BY <1>1, <2>2, PermitsOutside
  <2>6. Tally(Holding(future', pump'), active')
    BY <1>1, <1>2, <2>1, <2>5, RestingPermits
  <2> QED BY <1>1, <1>3, <2>1, <2>3, <2>4, <2>6 DEF Good
<1> QED BY <1>8, <1>9

-----------------------------------------------------------------------------
(* Shadows and the environment.                                            *)

LEMMA ShadowStartMoves ==
    ASSUME Good, NEW a \in Account, ShadowStart(a)
    PROVE  Good'
<1>1. /\ Available(a) /\ shadows' = [shadows EXCEPT ![a] = @ + 1] /\ slot' = slot
      /\ UNCHANGED <<task, future, queue, fair, pump, active>> /\ revoked' = revoked
  BY DEF ShadowStart, waiters
<1>2. shadows \in [Account -> Nat] /\ slot \in [Request -> Nat] /\ shadows' \in [Account -> Nat]
  BY <1>1 DEF Good, Fits
<1>3. ASSUME NEW b \in Account PROVE shadows'[b] + Cardinality(Using(slot, b)) <= Parallel[b]
  <2> DEFINE x == Cardinality(Using(slot, b))
  <2>1. x \in Nat /\ shadows[b] \in Nat /\ Parallel[b] \in Nat /\ shadows[b] + x <= Parallel[b]
    <3>1. Using(slot, b) \in SUBSET Request
      BY DEF Using
    <3> QED BY <1>2, <3>1, Finite, AdmissionAssumption DEF Good, Fits
  <2>2. CASE b = a
    <3>1. ~(shadows[b] + x >= Parallel[b])
      BY <1>1, <2>2, InUseIs DEF Available, Full
    <3>2. shadows'[b] = shadows[b] + 1
      BY <1>1, <1>2, <2>2
    <3> HIDE DEF x
    <3>3. shadows'[b] + x <= Parallel[b]
      BY <2>1, <3>1, <3>2
    <3> QED BY <3>3 DEF x
  <2>3. CASE b # a
    BY <1>1, <1>2, <2>1, <2>3
  <2> QED BY <2>2, <2>3
<1>4. Fits(slot', shadows')
  BY <1>1, <1>2, <1>3 DEF Fits
<1>5. revoked' \subseteq Request
  BY <1>1 DEF Good
<1> QED BY <1>1, <1>4, <1>5, EnvironmentMoves

LEMMA ShadowEndMoves ==
    ASSUME Good, NEW a \in Account, ShadowEnd(a)
    PROVE  Good'
<1>1. /\ shadows[a] > 0 /\ shadows' = [shadows EXCEPT ![a] = @ - 1] /\ slot' = slot
      /\ UNCHANGED <<task, future, queue, fair, pump, active>> /\ revoked' = revoked
  BY DEF ShadowEnd, waiters
<1>2. shadows \in [Account -> Nat] /\ slot \in [Request -> Nat] /\ Fits(slot, shadows)
  BY DEF Good, Fits
<1>3. shadows' \in [Account -> Nat] /\ \A b \in Account : shadows'[b] <= shadows[b]
  BY <1>1, <1>2
<1>4. Fits(slot', shadows')
  BY <1>1, <1>2, <1>3, FewerFit
<1>5. revoked' \subseteq Request
  BY <1>1 DEF Good
<1> QED BY <1>1, <1>4, <1>5, EnvironmentMoves

LEMMA OtherMoves ==
    ASSUME Good, \/ \E a \in Account, g \in Gate : Move(a, g)
                 \/ \E r \in Request : Expire(r) \/ Revoke(r)
                 \/ UNCHANGED vars
    PROVE  Good'
<1>1. Fits(slot, shadows)
  BY DEF Good
<1>2. slot' = slot /\ shadows' = shadows /\ UNCHANGED <<task, future, queue, fair, pump, active>>
  BY DEF Move, Expire, Revoke, vars, runtime, waiters
<1>3. revoked' = revoked \/ ~InGate
  BY DEF Move, Expire, Revoke, vars
<1>4. Fits(slot', shadows')
  BY <1>1, <1>2
<1>5. revoked' \subseteq Request
  BY DEF Good, Move, Expire, Revoke, vars
<1> QED BY <1>2, <1>3, <1>4, <1>5, EnvironmentMoves

-----------------------------------------------------------------------------
(* The theorems.                                                           *)

LEMMA GoodInit ==
    ASSUME Init
    PROVE  Good
<1>1. Rests(pump)
  BY IdleRests DEF Init
<1>2. Lists(queue, future)
  <2>1. queue = <<>> /\ Members(<<>>) = {} /\ MaxGlobal \in Nat
    BY AdmissionAssumption DEF Init, Members
  <2> QED BY <2>1 DEF Lists
<1>3. Owns(task, future)
  BY DEF Init, Owns, Places, Futures
<1>4. Shape(fair)
  <2>1. fair = Fairness!Start
    BY DEF Init
  <2>2. Shape(Fairness!Start)
    BY DEF Shape, Fairness!Start, Fairness!Class
  <2> QED BY <2>1, <2>2
<1>5. Cardinality({}) = 0
  BY FS_EmptySet
<1>6. Tally(Leases(future), active)
  <2>1. Leases(future) = {}
    BY DEF Init, Leases
  <2>2. \A k : OfKey({}, k) = {}
    BY DEF OfKey
  <2>3. active = [k \in Key |-> 0] /\ MaxConcurrency \in Nat
    BY AdmissionAssumption DEF Init
  <2> QED BY <1>5, <2>1, <2>2, <2>3 DEF Tally
<1>7. Fits(slot, shadows)
  <2>1. slot = [r \in Request |-> 0] /\ shadows = [a \in Account |-> 0]
    BY DEF Init
  <2>2. \A a \in Account : Using(slot, a) = {} /\ shadows[a] = 0 /\ Parallel[a] \in Nat
    BY <2>1, AdmissionAssumption DEF Using
  <2>3. \A a \in Account : shadows[a] + Cardinality(Using(slot, a)) <= Parallel[a]
    BY <1>5, <2>2
  <2> QED BY <2>1, <2>3 DEF Fits
<1>8. Pumps(pump, queue, revoked) /\ Tally(Holding(future, pump), active)
  BY <1>1, <1>6, RestsIs, RestingPermits
<1>9. revoked \subseteq Request
  BY DEF Init
<1> QED BY <1>2, <1>3, <1>4, <1>7, <1>8, <1>9 DEF Good

LEMMA GoodNext ==
    ASSUME Good, [Next]_vars
    PROVE  Good'
<1>1. CASE Scan
  BY <1>1, ScanMoves
<1>2. CASE EnterGate
  BY <1>2, EnterGateMoves
<1>3. CASE Reserve
  BY <1>3, ReserveMoves
<1>4. CASE Mark
  BY <1>4, MarkMoves
<1>5. CASE MarkRaises
  BY <1>5, MarkRaisesMoves
<1>6. CASE Wake
  BY <1>6, WakeMoves
<1>7. CASE CancelPump
  BY <1>7, CancelPumpMoves
<1>8. ASSUME NEW r \in Request,
             \/ Enter(r) \/ Resume(r) \/ Finish(r) \/ Retry(r) \/ Cancel(r) \/ Cleanup(r)
      PROVE  Good'
  BY <1>8, EnterMoves, ResumeMoves, FinishMoves, RetryMoves, CancelMoves, CleanupMoves
<1>9. ASSUME NEW a \in Account, ShadowStart(a) \/ ShadowEnd(a)
      PROVE  Good'
  BY <1>9, ShadowStartMoves, ShadowEndMoves
<1>10. CASE \/ \E a \in Account, g \in Gate : Move(a, g)
            \/ \E r \in Request : Expire(r) \/ Revoke(r)
            \/ UNCHANGED vars
  BY <1>10, OtherMoves
<1> QED BY <1>1, <1>2, <1>3, <1>4, <1>5, <1>6, <1>7, <1>8, <1>9, <1>10 DEF Next

LEMMA GoodAccounts ==
    ASSUME Good
    PROVE  PermitsAccounted
<1>1. ASSUME NEW k \in Key
      PROVE  /\ active[k] = Cardinality({r \in Request : KeyOf(r) = k /\ Permit(r)})
             /\ active[k] <= MaxConcurrency
  <2>1. {r \in Request : KeyOf(r) = k /\ Permit(r)} = OfKey(Holding(future, pump), k)
    BY DEF OfKey, Holding, Permit, InGate, Pick
  <2> QED BY <2>1 DEF Good, Tally
<1>2. Len(queue) <= MaxGlobal
  BY DEF Good, Lists
<1>3. \A a \in Account : InUse(a) <= Parallel[a]
  BY InUseIs DEF Good, Fits
<1> QED BY <1>1, <1>2, <1>3 DEF PermitsAccounted

(* A step hands a lease only to a request that is authorized.              *)
LEMMA GrantsAuthorized ==
    ASSUME Good, [Next]_vars, NEW r \in revoked, future'[r] = "lease"
    PROVE  future[r] = "lease"
<1>1. future \in [Request -> Futures] /\ r \in Request
  BY DEF Good, Owns
<1>2. CASE Mark
  <2>1. pump.pc = "mark" /\ future' = [future EXCEPT ![Pick.id] = "lease"]
    BY <1>2 DEF Mark
  <2>2. Pick.id \notin revoked
    BY <2>1 DEF Good, Pumps, Pick
  <2> QED BY <1>1, <2>1, <2>2
<1>3. CASE Scan
  <2>1. future' = [x \in Request |-> IF x \in Waiting \cap Dead THEN "error" ELSE future[x]]
    BY <1>3 DEF Scan
  <2> QED BY <1>1, <2>1
<1>4. CASE EnterGate
  <2>1. future' \in {future, [future EXCEPT ![Pick.id] = "error"]}
    BY <1>4 DEF EnterGate
  <2> QED BY <1>1, <2>1
<1>5. CASE \E x \in Request : Enter(x) \/ Finish(x) \/ Retry(x) \/ Cleanup(x)
  <2>1. PICK x \in Request : Enter(x) \/ Finish(x) \/ Retry(x) \/ Cleanup(x)
    BY <1>5
  <2>2. \/ future' \in {future, [future EXCEPT ![x] = "pending"], [future EXCEPT ![x] = "released"]}
        \/ future' = [future EXCEPT ![x] = IF @ = "pending" THEN "cancelled" ELSE @]
    BY <2>1 DEF Enter, Finish, Retry, Cleanup, Released
  <2> QED BY <1>1, <2>2
<1>6. CASE UNCHANGED future
  BY <1>6
<1>7. \/ Mark \/ Scan \/ EnterGate \/ UNCHANGED future
      \/ \E x \in Request : Enter(x) \/ Finish(x) \/ Retry(x) \/ Cleanup(x)
  BY DEF Next, vars, Reserve, MarkRaises, Wake, CancelPump, Resume, Cancel, Expire, Revoke,
         ShadowStart, ShadowEnd, Move
<1> QED BY <1>2, <1>3, <1>4, <1>5, <1>6, <1>7

(* Whatever the keys, requests and limits, and however tasks, the pump,    *)
(* cancellations, shadows and publications interleave, _active_by_key      *)
(* counts exactly the permits in use, and no limit is passed.              *)
THEOREM AdmissionPermitsAccounted == Spec => []PermitsAccounted
<1>1. Init => Good
  BY GoodInit
<1>2. Good /\ [Next]_vars => Good'
  BY GoodNext
<1>3. Good => PermitsAccounted
  BY GoodAccounts
<1> QED BY <1>1, <1>2, <1>3, PTL DEF Spec

(* No lease goes to a request whose authorization a publication took away, *)
(* between whichever awaits of the pump the publication comes.             *)
THEOREM AdmissionNeverLeasedRevoked == Spec => NeverLeasedRevoked
<1>1. Init => Good
  BY GoodInit
<1>2. Good /\ [Next]_vars => Good'
  BY GoodNext
<1>3. Good /\ [Next]_vars
      => [\A r \in revoked : future'[r] = "lease" => future[r] = "lease"]_vars
  BY GrantsAuthorized
<1> QED BY <1>1, <1>2, <1>3, PTL DEF Spec, NeverLeasedRevoked

-----------------------------------------------------------------------------
(* Why the pump may sleep: what it has looked at since it began still is   *)
(* as it found it, or somebody will tell it.                               *)

(* No cause is served by two legs of a request.                            *)
OneLeg ==
    \A r \in Request : \A i, j \in DOMAIN Route[r] :
        i # j => Route[r][i].causes \cap Route[r][j].causes = {}

(* Nothing happened since the pump began.                                  *)
Quiet == ~missed /\ wakes = 0

(* A leg that a request may use for what it asks for, or for what blocks   *)
(* its primary legs.                                                       *)
Wants(r, i) ==
    \/ cause[r] \in Route[r][i].causes
    \/ /\ cause[r] = "primary" /\ Filter(r, "primary") = {}
       /\ \E x \in PrimaryBlockingCause(r) : x \in Route[r][i].causes

Lines(r) == {i \in DOMAIN Route[r] : Available(AccountOf(r, i)) /\ Wants(r, i)}

(* An account the view shows as available and try_reserve refuses.         *)
Shut(a) == gate[a] \in {"rpm", "tpm", "stop"}

Stuck(r) == \E i \in Lines(r) : Shut(AccountOf(r, i))

(* A request without a lease and without an attempt in flight has no slot. *)
Vacant ==
    \A r \in Request :
        /\ task[r] = "enter" \/ future[r] = "pending"
        /\ ~(pump.pc = "mark" /\ Pick.id = r)
        => slot[r] = 0

Scarce(r) == EntryOf(r).class = "scarce"

(* The permits the pump saw when it scanned.                               *)
Before == IF pump.pc = "reserve" THEN PermitBack(Pick.id) ELSE active

(* The scarce waiter y keeps its account a from the others: the pump will  *)
(* still come to it, or asks for a on its behalf.                          *)
Guards(y, a) ==
    /\ y \in (Waiting \ Dead) \ pump.excluded /\ Scarce(y)
    /\ \A j \in DOMAIN Route[y] : AccountOf(y, j) = a
    /\ \/ pump.pc = "reserve" /\ Pick.id = y
       \/ /\ Before[KeyOf(y)] < MaxConcurrency
          /\ \E j \in Filter(y, PreviewCause(y)) : CanSend(y, j)

Shielded(r) == \E i \in Lines(r), y \in Request : Guards(y, AccountOf(r, i))

(* A request that tried another cause is stuck with its own.               *)
Tried ==
    /\ pump.once \in [Request -> {"none", "capacity", "quota"}]
    /\ \A r \in Request : pump.once[r] # "none" => Stuck(r)

(* The pump has set aside only whom it could not serve.                    *)
Aside ==
    \A r \in (Waiting \ Dead) \cap pump.excluded :
        Stuck(r) \/ (~Scarce(r) /\ Shielded(r))

(* What the preview found still stands at the gate, and the leg reserved   *)
(* is one the request wants, or that one is shut.                          *)
Current ==
    /\ pump.pc = "gate" =>
         LET r == Pick.id
         IN  /\ Pick.cause = PreviewCause(r) /\ Pick.legs = Preview(r) /\ Preview(r) # {}
             /\ \A i \in Preview(r) : AccountOf(r, i) \notin Pick.avoid
    /\ pump.pc = "reserve" =>
         LET r == Pick.id
         IN  /\ pump.once[r] = "none" /\ Pick.leg \in DOMAIN Route[r]
             /\ Available(AccountOf(r, Pick.leg))
             /\ Stuck(r) \/ Pick.leg \in Lines(r)

(* A waiter that could be dispatched when the pump begins.                 *)
Servable(r) ==
    active[KeyOf(r)] < MaxConcurrency
    /\ \E i \in Lines(r) : CanSend(r, i) /\ Reservation(r, i) = "granted"

Sleeps == pump.pc = "idle" => \A r \in Waiting \ Dead : ~Servable(r)

Looked ==
    pump.pc # "idle" => Tried /\ Current /\ (pump.pc # "mark" => Aside)

Alert ==
    /\ wakes \in Nat /\ gate \in [Account -> Gate] /\ Vacant /\ (pump.pc = "idle" => pump = Idle)
    /\ Quiet => Sleeps /\ Looked
-----------------------------------------------------------------------------
(* What the definitions say.                                               *)

(* A blocking cause is the only one.                                       *)
LEMMA OneBlocker ==
    ASSUME NEW r \in Request, NEW x \in PrimaryBlockingCause(r), NEW y \in PrimaryBlockingCause(r)
    PROVE  x = y /\ x \in {"capacity", "failure"}
<1> DEFINE blockers == {Blockers(AccountOf(r, i)) : i \in Primaries(r)}
           causes == UNION blockers
<1>1. Cardinality(causes) = 1 /\ PrimaryBlockingCause(r) = causes
  BY DEF PrimaryBlockingCause
<1>2. causes \subseteq {"capacity", "failure"}
  BY DEF Blockers
<1> HIDE DEF causes
<1>3. IsFiniteSet({"capacity", "failure"})
  <2>1. IsFiniteSet({}) /\ IsFiniteSet({"capacity"})
    BY FS_EmptySet, FS_Singleton
  <2>2. {"capacity"} \cup {"failure"} = {"capacity", "failure"}
    OBVIOUS
  <2> QED BY <2>1, <2>2, FS_AddElement
<1>4. IsFiniteSet(causes)
  BY <1>2, <1>3, FS_Subset
<1>5. PICK z : causes = {z}
  BY <1>1, <1>4, FS_Singleton
<1> QED BY <1>1, <1>2, <1>5

LEMMA LinesOne ==
    ASSUME OneLeg, NEW r \in Request, NEW i \in Lines(r), NEW j \in Lines(r)
    PROVE  i = j
<1>1. i \in DOMAIN Route[r] /\ j \in DOMAIN Route[r] /\ Wants(r, i) /\ Wants(r, j)
      /\ Available(AccountOf(r, i)) /\ Available(AccountOf(r, j))
  BY DEF Lines
<1>2. \A k \in DOMAIN Route[r] :
         Available(AccountOf(r, k)) /\ "primary" \in Route[r][k].causes => Filter(r, "primary") # {}
  BY DEF Filter
<1>3. \E x : x \in Route[r][i].causes /\ x \in Route[r][j].causes
  BY <1>1, <1>2, OneBlocker DEF Wants
<1> QED BY <1>1, <1>3 DEF OneLeg

(* A request that has not tried another cause uses these.                  *)
LEMMA PreviewLines ==
    ASSUME NEW r \in Request, pump.once[r] = "none"
    PROVE  Filter(r, PreviewCause(r)) = Lines(r)
<1> DEFINE b == PrimaryBlockingCause(r)
<1>1. PreviewCause(r) = IF Filter(r, cause[r]) = {} /\ cause[r] = "primary" /\ b # {}
                        THEN CHOOSE x \in b : TRUE ELSE cause[r]
  BY DEF PreviewCause
<1>2. CASE Filter(r, cause[r]) = {} /\ cause[r] = "primary" /\ b # {}
  <2>1. PreviewCause(r) \in b
    BY <1>1, <1>2
  <2>2. \A x \in b : x = PreviewCause(r)
    BY <2>1, OneBlocker
  <2>3. \A i \in DOMAIN Route[r] : Available(AccountOf(r, i)) => cause[r] \notin Route[r][i].causes
    BY <1>2 DEF Filter
  <2> HIDE DEF b
  <2>4. \A i \in DOMAIN Route[r] : Available(AccountOf(r, i)) =>
           (Wants(r, i) <=> PreviewCause(r) \in Route[r][i].causes)
    BY <1>2, <2>1, <2>2, <2>3 DEF Wants, b
  <2> QED BY <2>4 DEF Lines, Filter
<1>3. CASE ~(Filter(r, cause[r]) = {} /\ cause[r] = "primary" /\ b # {})
  <2>1. PreviewCause(r) = cause[r]
    BY <1>1, <1>3
  <2>2. \A i \in DOMAIN Route[r] : Wants(r, i) <=> cause[r] \in Route[r][i].causes
    BY <1>3 DEF Wants
  <2> QED BY <2>1, <2>2 DEF Lines, Filter
<1> QED BY <1>2, <1>3

(* One that has uses the other.                                            *)
LEMMA PreviewOnce ==
    ASSUME NEW r, pump.once[r] \in {"capacity", "quota"}
    PROVE  PreviewCause(r) = pump.once[r]
  BY DEF PreviewCause

(* A shut account grants nothing.                                          *)
LEMMA ShutDenies ==
    ASSUME NEW r, NEW i, Shut(AccountOf(r, i))
    PROVE  Reservation(r, i) # "granted"
  BY DEF Shut, Reservation

(* What the view shows depends on slots, shadows and gates only.           *)
LEMMA SameView ==
    ASSUME slot' = slot, shadows' = shadows, gate' = gate
    PROVE  /\ \A a : (Full(a)' <=> Full(a)) /\ (Available(a)' <=> Available(a))
           /\ \A r, c : Filter(r, c)' = Filter(r, c)
           /\ \A r : PrimaryBlockingCause(r)' = PrimaryBlockingCause(r)
           /\ \A r, i : Reservation(r, i)' = Reservation(r, i)
<1>1. \A a : InUse(a)' = InUse(a)
  BY DEF InUse, AccountOf
<1>2. \A a : (Full(a)' <=> Full(a)) /\ (Available(a)' <=> Available(a))
  BY <1>1 DEF Full, Available
<1>3. \A r, c : Filter(r, c)' = Filter(r, c)
  BY <1>2 DEF Filter, AccountOf
<1>4. \A a : Blockers(a)' = Blockers(a)
  BY <1>2 DEF Blockers
<1>5. \A r : PrimaryBlockingCause(r)' = PrimaryBlockingCause(r)
  BY <1>4 DEF PrimaryBlockingCause, Primaries, AccountOf
<1>6. \A r, i : Reservation(r, i)' = Reservation(r, i)
  BY <1>2 DEF Reservation, AccountOf
<1> QED BY <1>2, <1>3, <1>5, <1>6

LEMMA SameLines ==
    ASSUME slot' = slot, shadows' = shadows, gate' = gate, cause' = cause
    PROVE  \A r : Lines(r)' = Lines(r) /\ (Stuck(r)' <=> Stuck(r))
<1>1. \A r, i : Wants(r, i)' <=> Wants(r, i)
  BY SameView DEF Wants
<1>2. \A r : Lines(r)' = Lines(r)
  BY <1>1, SameView DEF Lines, AccountOf
<1> QED BY <1>2 DEF Stuck, Shut, AccountOf

(* A grant takes a slot of an account that is open and not full.  Who is   *)
(* stuck stays stuck: neither its leg nor what blocks it is that account.  *)
LEMMA GrantKeeps ==
    ASSUME NEW z \in Request, NEW m \in Nat, slot \in [Request -> Nat], slot[z] = 0,
           slot' = [slot EXCEPT ![z] = m], shadows' = shadows, gate' = gate, cause' = cause,
           Reservation(z, m) = "granted", gate[AccountOf(z, m)] \in Gate, NEW r, Stuck(r)
    PROVE  Stuck(r)'
<1> DEFINE g == AccountOf(z, m)
<1>1. gate[g] = "open" /\ ~Full(g)
  BY DEF Reservation, Gate
<1>2. \A a : a # g => InUse(a)' = InUse(a)
  <2>1. \A a : a # g => {x \in Request : slot[x] # 0 /\ AccountOf(x, slot[x]) = a}
                        = {x \in Request : slot'[x] # 0 /\ AccountOf(x, slot'[x]) = a}
    OBVIOUS
  <2> QED BY <2>1 DEF InUse, AccountOf
<1>3. Available(g)
  BY <1>1 DEF Available
<1>4. \A a : a # g => (Full(a)' <=> Full(a)) /\ (Available(a)' <=> Available(a))
                      /\ Blockers(a)' = Blockers(a)
  BY <1>2 DEF Full, Available, Blockers
<1>5. PICK i \in Lines(r) : Shut(AccountOf(r, i))
  BY DEF Stuck
<1>6. AccountOf(r, i) # g
  BY <1>1, <1>5 DEF Shut
<1>7. i \in DOMAIN Route[r] /\ Available(AccountOf(r, i)) /\ Wants(r, i)
  BY DEF Lines
<1>8. Available(AccountOf(r, i))'
  BY <1>4, <1>6, <1>7 DEF AccountOf
<1>9. Wants(r, i)'
  <2>1. CASE cause[r] \in Route[r][i].causes
    BY <2>1 DEF Wants
  <2>2. CASE cause[r] = "primary" /\ Filter(r, "primary") = {}
             /\ \E x \in PrimaryBlockingCause(r) : x \in Route[r][i].causes
    <3>1. \A p \in Primaries(r) : AccountOf(r, p) # g
      BY <1>3, <2>2 DEF Primaries, Filter
    <3>2. Filter(r, "primary")' = {}
      BY <1>4, <2>2, <3>1 DEF Filter, Primaries, AccountOf
    <3>3. \A p \in Primaries(r) : Blockers(AccountOf(r, p))' = Blockers(AccountOf(r, p))
      BY <1>4, <3>1 DEF AccountOf
    <3>4. PrimaryBlockingCause(r)' = PrimaryBlockingCause(r)
      BY <3>3 DEF PrimaryBlockingCause, Primaries, AccountOf
    <3> QED BY <2>2, <3>2, <3>4 DEF Wants
  <2> QED BY <1>7, <2>1, <2>2 DEF Wants
<1>10. i \in Lines(r)'
  BY <1>7, <1>8, <1>9 DEF Lines, AccountOf
<1> QED BY <1>5, <1>10 DEF Stuck, Shut, AccountOf

(* The whole ceiling of a scarce request names one account.                *)
LEMMA ScarceOne ==
    ASSUME NEW r \in Request, Scarce(r)
    PROVE  \E a : \A j \in DOMAIN Route[r] : AccountOf(r, j) = a
<1> DEFINE n == Len(Route[r])
           T == {AccountOf(r, i) : i \in DOMAIN Route[r]}
           f == [i \in 1..n |-> AccountOf(r, i)]
<1>1. Route[r] \in Seq([account : Account, causes : SUBSET Cause])
  BY AdmissionAssumption
<1>2. n \in Nat /\ DOMAIN Route[r] = 1..n
  BY <1>1
<1>3. Cardinality(T) = 1
  BY DEF Scarce, EntryOf
<1>4. IsFiniteSet(1..n)
  BY <1>2, FS_Interval
<1>5. f \in Surjection(1..n, T)
  BY <1>2 DEF Surjection
<1> HIDE DEF n, T, f
<1>6. IsFiniteSet(T)
  BY <1>4, <1>5, FS_Surjection
<1>7. PICK a : T = {a}
  BY <1>3, <1>6, FS_Singleton
<1> QED BY <1>7 DEF T

(* A member of a set.                                                      *)
SomeOf(S) == CHOOSE x \in S : TRUE

(* What a preview depends on.                                              *)
LEMMA SamePreview ==
    ASSUME slot' = slot, shadows' = shadows, gate' = gate, cause' = cause, NEW r,
           pump'.once[r] = pump.once[r]
    PROVE  /\ PreviewCause(r)' = PreviewCause(r)
           /\ sent' = sent /\ active' = active => Preview(r)' = Preview(r)
<1>1. PreviewCause(r)' = PreviewCause(r)
  <2> DEFINE c == IF pump.once[r] = "none" THEN cause[r] ELSE pump.once[r]
             b == PrimaryBlockingCause(r)
  <2>1. PreviewCause(r) = IF Filter(r, c) = {} /\ c = "primary" /\ b # {} THEN SomeOf(b) ELSE c
    BY DEF PreviewCause, SomeOf
  <2>2. PreviewCause(r)'
        = IF Filter(r, c)' = {} /\ c' = "primary" /\ b' # {} THEN SomeOf(b') ELSE c'
    BY DEF PreviewCause, SomeOf
  <2>3. c' = c
    OBVIOUS
  <2>4. b' = b
    BY SameView
  <2>5. Filter(r, c)' = Filter(r, c)
    BY <2>3, SameView DEF Filter, AccountOf
  <2> HIDE DEF c, b
  <2> QED BY <2>1, <2>2, <2>3, <2>4, <2>5
<1>2. ASSUME sent' = sent, active' = active PROVE Preview(r)' = Preview(r)
  <2>1. \A i : CanSend(r, i)' <=> CanSend(r, i)
    BY <1>2 DEF CanSend, SendClosed
  <2>2. Filter(r, PreviewCause(r))' = Filter(r, PreviewCause(r))
    BY <1>1, SameView DEF Filter, AccountOf
  <2> QED BY <1>2, <2>1, <2>2 DEF Preview, KeyOf
<1> QED BY <1>1, <1>2

(* Steps of the tasks and deaths: the pump finds all as it left it.        *)
LEMMA Calm ==
    ASSUME Alert, Quiet', Quiet,
           slot' = slot, shadows' = shadows, gate' = gate, cause' = cause, sent' = sent,
           active' = active, pump' = pump, queue' = queue, Dead \subseteq Dead',
           pump.pc # "idle" => \A y \in Waiting : Scarce(y) /\ y \in Dead' => y \in Dead
    PROVE  Sleeps' /\ Looked'
<1>1. /\ \A r : Lines(r)' = Lines(r) /\ (Stuck(r)' <=> Stuck(r))
      /\ \A r : PreviewCause(r)' = PreviewCause(r) /\ Preview(r)' = Preview(r)
      /\ \A a : Available(a)' <=> Available(a)
      /\ \A r, c : Filter(r, c)' = Filter(r, c)
      /\ \A r, i : Reservation(r, i)' = Reservation(r, i)
  BY SameLines, SamePreview, SameView
<1>2. \A r, i : CanSend(r, i)' <=> CanSend(r, i)
  BY DEF CanSend, SendClosed
<1>3. Waiting' = Waiting /\ Pick' = Pick
  BY DEF Waiting, Members, Pick
<1>4. Sleeps'
  BY <1>1, <1>2, <1>3 DEF Alert, Sleeps, Servable, KeyOf
<1>5. ASSUME pump.pc # "idle" PROVE Looked'
  <2>1. Tried' /\ Current'
    BY <1>1, <1>3, <1>5 DEF Alert, Looked, Tried, Current, AccountOf
  <2>2. ASSUME pump.pc # "mark" PROVE Aside'
    <3>1. Before' = Before
      BY <1>3 DEF Before, PermitBack, KeyOf
    <3>2. \A r : Scarce(r)' <=> Scarce(r)
      BY DEF Scarce, EntryOf, KeyOf, AccountOf
    <3>3. ASSUME NEW y, NEW a, Guards(y, a) PROVE Guards(y, a)'
      <4>1. y \in Waiting /\ Scarce(y)
        BY <3>3 DEF Guards
      <4>2. y \notin Dead'
        BY <1>5, <3>3, <4>1 DEF Guards
      <4>3. (\E j \in Filter(y, PreviewCause(y)) : CanSend(y, j))
            => (\E j \in Filter(y, PreviewCause(y))' : CanSend(y, j)')
        <5>1. Filter(y, PreviewCause(y))' = Filter(y, PreviewCause(y))
          BY <1>1, SameView DEF Filter, AccountOf
        <5> QED BY <1>2, <5>1
      <4> QED BY <1>3, <3>1, <3>2, <3>3, <4>1, <4>2, <4>3 DEF Guards, AccountOf, KeyOf
    <3>4. \A r : Shielded(r) => Shielded(r)'
      BY <1>1, <3>3 DEF Shielded, AccountOf
    <3> QED BY <1>1, <1>3, <1>5, <2>2, <3>2, <3>4 DEF Alert, Looked, Aside
  <2> QED BY <2>1, <2>2 DEF Looked
<1> QED BY <1>4, <1>5 DEF Looked

(* A pump is a record of these fields.                                     *)
LEMMA PumpRecord ==
    ASSUME Good
    PROVE  pump = [owner |-> pump.owner, pc |-> pump.pc, excluded |-> pump.excluded,
                   once |-> pump.once, pick |-> pump.pick]
  BY DEF Good, Pumps

(* Who is stuck cannot be served.                                          *)
LEMMA StuckWaits ==
    ASSUME OneLeg, NEW r \in Request, Stuck(r)
    PROVE  ~Servable(r)
<1>1. PICK k \in Lines(r) : Shut(AccountOf(r, k))
  BY DEF Stuck
<1>2. \A i \in Lines(r) : i = k
  BY LinesOne
<1> QED BY <1>1, <1>2, ShutDenies DEF Servable

(* A preview names one leg.                                                *)
LEMMA PreviewOne ==
    ASSUME OneLeg, NEW r \in Request, NEW i \in Preview(r), NEW j \in Preview(r)
    PROVE  i = j
<1>1. i \in Filter(r, PreviewCause(r)) /\ j \in Filter(r, PreviewCause(r))
  BY DEF Preview
<1> QED BY <1>1 DEF Filter, OneLeg

(* A guard as the pump's next scan finds it.                               *)
LEMMA GuardReady ==
    ASSUME Good, NEW y \in Request, NEW a, Guards(y, a), pump.pc = "scan"
    PROVE  y \in (Waiting \ Dead) \ pump.excluded /\ Preview(y) # {}
<1>1. active[KeyOf(y)] < MaxConcurrency /\ \E j \in Filter(y, PreviewCause(y)) : CanSend(y, j)
  BY DEF Guards, Before
<1>2. active \in [Key -> Int] /\ KeyOf(y) \in Key /\ MaxConcurrency \in Nat
  BY KeyIsKey, AdmissionAssumption DEF Good, Tally
<1>3. ~(active[KeyOf(y)] >= MaxConcurrency)
  BY <1>1, <1>2
<1> QED BY <1>1, <1>3 DEF Guards, Preview

(* The pump's steps leave the accounts as they are, except for a grant.    *)
SameAccounts ==
    /\ slot' = slot /\ shadows' = shadows /\ gate' = gate /\ cause' = cause /\ sent' = sent

LEMMA GuardStays ==
    ASSUME SameAccounts, NEW y, NEW a, Guards(y, a), ~(pump.pc = "reserve" /\ Pick.id = y),
           y \in (Waiting' \ Dead') \ pump'.excluded, Before' = Before,
           pump'.once[y] = pump.once[y]
    PROVE  Guards(y, a)'
<1>1. PreviewCause(y)' = PreviewCause(y)
  BY SamePreview DEF SameAccounts
<1>2. Filter(y, PreviewCause(y))' = Filter(y, PreviewCause(y))
  BY <1>1, SameView DEF Filter, AccountOf, SameAccounts
<1>3. \A j : CanSend(y, j)' <=> CanSend(y, j)
  BY DEF CanSend, SendClosed, SameAccounts
<1>4. \E j \in Filter(y, PreviewCause(y)) : CanSend(y, j)
  BY DEF Guards
<1>5. \E j \in Filter(y, PreviewCause(y))' : CanSend(y, j)'
  BY <1>2, <1>3, <1>4
<1>6. Scarce(y)' /\ \A j \in DOMAIN Route[y] : AccountOf(y, j)' = a
  BY DEF Guards, Scarce, EntryOf, KeyOf, AccountOf
<1>7. (Before[KeyOf(y)])' < MaxConcurrency
  BY DEF Guards, KeyOf
<1> QED BY <1>5, <1>6, <1>7 DEF Guards

(* Whoever is set aside has a reason, or a guard that the step removes.    *)
LEMMA AsideStays ==
    ASSUME SameAccounts, Aside, NEW r \in (Waiting \ Dead) \cap pump.excluded,
           \A y \in Request, i \in Lines(r) :
               Guards(y, AccountOf(r, i)) => Stuck(r) \/ Guards(y, AccountOf(r, i))'
    PROVE  Stuck(r)' \/ (~Scarce(r) /\ Shielded(r))'
<1>1. Lines(r)' = Lines(r) /\ (Stuck(r)' <=> Stuck(r))
  BY SameLines DEF SameAccounts
<1>2. CASE Stuck(r)
  BY <1>1, <1>2
<1>3. CASE ~Stuck(r)
  <2>1. ~Scarce(r) /\ Shielded(r)
    BY <1>3 DEF Aside
  <2>2. PICK i \in Lines(r), y \in Request : Guards(y, AccountOf(r, i))
    BY <2>1 DEF Shielded
  <2>3. Guards(y, AccountOf(r, i))'
    BY <1>3, <2>2
  <2>4. Shielded(r)'
    BY <1>1, <2>2, <2>3 DEF Shielded
  <2>5. (~Scarce(r))'
    BY <2>1 DEF Scarce, EntryOf, KeyOf, AccountOf
  <2> QED BY <2>4, <2>5
<1> QED BY <1>2, <1>3

LEMMA ScanAlert ==
    ASSUME OneLeg, Good, Alert, Scan
    PROVE  Alert'
<1> DEFINE ready == {r \in Waiting \ Dead : Preview(r) # {}}
           A == {i \in DOMAIN queue : queue[i].id \in ready \ pump.excluded}
<1>1. /\ pump.pc = "scan" /\ queue' = Outside(queue, Dead) /\ SameAccounts /\ active' = active
      /\ Dead' = Dead /\ wakes' = wakes /\ missed' = missed
      /\ future' = [r \in Request |-> IF r \in Waiting \cap Dead THEN "error" ELSE future[r]]
  BY DEF Scan, runtime, SameAccounts, Dead
<1>2. queue \in Seq(Item) /\ Waiting \subseteq Request
  BY MembersIn DEF Good, Lists, Waiting
<1>3. Waiting' = Waiting \ Dead
  BY <1>1, <1>2, OutsideIs DEF Waiting
<1>4. /\ \A r : Lines(r)' = Lines(r) /\ (Stuck(r)' <=> Stuck(r))
      /\ \A r, i : Reservation(r, i)' = Reservation(r, i)
      /\ \A r, i : CanSend(r, i)' <=> CanSend(r, i)
  BY <1>1, SameLines, SameView DEF SameAccounts, CanSend, SendClosed
<1>5. \A r \in Waiting : r \in ready \ pump.excluded => A # {}
  BY DEF Waiting, Members
<1>6. \A r \in Request : /\ future'[r] = "pending" => future[r] = "pending"
                         /\ task'[r] = "enter" => task[r] = "enter"
  <2>1. task' = task \/ task' = [task EXCEPT ![pump.owner] = "wait"]
    BY DEF Scan, PumpDone
  <2> QED BY <1>1, <2>1 DEF Good, Owns
<1>7. CASE A = {}
  <2>1. pump' = Idle /\ pump'.pc = "idle"
    BY <1>7 DEF Scan, PumpDone, Idle
  <2>2. Vacant'
    BY <1>1, <1>6, <2>1 DEF Vacant, Alert, SameAccounts
  <2>3. ASSUME Quiet', NEW r \in Waiting \ Dead PROVE ~Servable(r)'
    <3>1. Tried /\ Aside /\ r \in Request
      BY <1>1, <1>2, <2>3 DEF Alert, Looked, Quiet
    <3>2. Servable(r)' <=> Servable(r)
      BY <1>1, <1>4 DEF Servable, KeyOf
    <3>3. CASE r \notin pump.excluded
      <4>1. Preview(r) = {}
        BY <1>5, <1>7, <2>3, <3>3
      <4>2. CASE pump.once[r] = "none"
        <5>1. Filter(r, PreviewCause(r)) = Lines(r)
          BY <3>1, <4>2, PreviewLines
        <5>2. active[KeyOf(r)] \in Int /\ MaxConcurrency \in Nat
          BY <3>1, KeyIsKey, AdmissionAssumption DEF Good, Tally
        <5>3. active[KeyOf(r)] < MaxConcurrency => {i \in Lines(r) : CanSend(r, i)} = {}
          BY <4>1, <5>1, <5>2 DEF Preview
        <5> QED BY <3>2, <5>3 DEF Servable
      <4>3. CASE pump.once[r] # "none"
        BY <3>1, <3>2, <4>3, StuckWaits DEF Tried
      <4> QED BY <4>2, <4>3
    <3>4. CASE r \in pump.excluded
      <4>1. ~Shielded(r)
        <5>1. SUFFICES ASSUME NEW y \in Request, NEW a, Guards(y, a) PROVE FALSE
          BY DEF Shielded
        <5>2. y \in (Waiting \ Dead) \ pump.excluded /\ Preview(y) # {}
          BY <1>1, <5>1, GuardReady
        <5> QED BY <1>5, <1>7, <5>2
      <4>2. Stuck(r)
        BY <2>3, <3>1, <3>4, <4>1 DEF Aside
      <4> QED BY <3>1, <3>2, <4>2, StuckWaits
    <3> QED BY <3>3, <3>4
  <2>4. Quiet' => Sleeps' /\ Looked'
    BY <1>1, <1>3, <2>1, <2>3 DEF Sleeps, Looked
  <2> QED BY <1>1, <2>1, <2>2, <2>4 DEF Alert, SameAccounts
<1>8. CASE A # {}
  <2>1. PICK s \in Fairness!Selections(A) :
            LET r == s.entry.id
                allowed == Allowed(r, ready)
            IN  IF allowed = {} THEN Exclude(r)
                ELSE pump' = [pump EXCEPT !.pc = "gate", !.pick =
                        <<[id |-> r, fair |-> s.fair, cause |-> PreviewCause(r),
                           legs |-> Preview(r), leg |-> 0,
                           avoid |-> PreviewAccounts(r) \ allowed]>>]
    BY <1>8 DEF Scan
  <2> DEFINE r == s.entry.id
             x == [id |-> r, fair |-> s.fair, cause |-> PreviewCause(r),
                   legs |-> Preview(r), leg |-> 0,
                   avoid |-> PreviewAccounts(r) \ Allowed(r, ready)]
  <2>2. r \in ready \ pump.excluded /\ r \in Request
    <3>1. PICK i \in A : s.entry = queue[i]
      BY <1>8, <1>2, SelectedEntry DEF Shape, Good
    <3> QED BY <1>2, <3>1
  <2>3. task' = task
    BY <1>8 DEF Scan
  <2>4. CASE Exclude(r) /\ Allowed(r, ready) = {}
    <3>1. pump' = [pump EXCEPT !.pc = "scan", !.excluded = pump.excluded \cup {r}, !.pick = <<>>]
      BY <2>4 DEF Exclude
    <3>2. pump'.pc = "scan" /\ pump'.excluded = pump.excluded \cup {r} /\ pump'.once = pump.once
      <4> DEFINE X == pump.excluded \cup {r}
      <4> HIDE DEF X
      <4> QED BY <3>1, PumpRecord DEF X
    <3>3. Vacant'
      BY <1>1, <1>6, <3>2 DEF Vacant, Alert, SameAccounts
    <3>4. ASSUME Quiet' PROVE Tried' /\ Aside'
      <4>1. Tried /\ Aside
        BY <1>1, <3>4 DEF Alert, Looked, Quiet
      <4>2. Tried'
        BY <1>4, <3>2, <4>1 DEF Tried
      <4>3. ~Scarce(r)
        BY <2>2, <2>4 DEF Scarce, Allowed, PreviewAccounts
      <4>4. Before' = Before
        BY <1>1, <3>2 DEF Before
      <4>5. \A y \in Request : \A a : Guards(y, a) => Guards(y, a)'
        <5>1. ASSUME NEW y \in Request, NEW a, Guards(y, a) PROVE Guards(y, a)'
          <6>1. y \in (Waiting' \ Dead') \ pump'.excluded
            BY <1>1, <1>3, <3>2, <4>3, <5>1 DEF Guards
          <6> QED BY <1>1, <3>2, <4>4, <5>1, <6>1, GuardStays
        <5> QED BY <5>1
      <4>6. ASSUME NEW z \in (Waiting \ Dead) \cap pump.excluded
            PROVE  Stuck(z)' \/ (~Scarce(z) /\ Shielded(z))'
        BY <1>1, <4>1, <4>5, AsideStays
      <4>7. Stuck(r)' \/ (~Scarce(r) /\ Shielded(r))'
        <5>1. CASE pump.once[r] # "none"
          BY <1>4, <2>2, <4>1, <5>1 DEF Tried
        <5>2. CASE pump.once[r] = "none"
          <6>1. PICK i \in Preview(r) : TRUE
            BY <2>2
          <6>2. i \in Lines(r)
            BY <2>2, <5>2, <6>1, PreviewLines DEF Preview
          <6>3. AccountOf(r, i) \in UNION {PreviewAccounts(y) : y \in {y \in ready : EntryOf(y).class = "scarce"}}
            BY <2>4, <4>3, <6>1 DEF Allowed, Scarce, PreviewAccounts
          <6>4. PICK y \in ready : EntryOf(y).class = "scarce" /\ AccountOf(r, i) \in PreviewAccounts(y)
            BY <6>3
          <6>5. PICK j \in Preview(y) : AccountOf(y, j) = AccountOf(r, i)
            BY <6>4 DEF PreviewAccounts
          <6>6. y \in Request /\ Scarce(y) /\ y \in Waiting \ Dead
            BY <1>2, <6>4 DEF Scarce
          <6>7. j \in Filter(y, PreviewCause(y)) /\ CanSend(y, j) /\ ~(active[KeyOf(y)] >= MaxConcurrency)
            BY <6>5 DEF Preview
          <6>8. j \in DOMAIN Route[y]
            BY <6>7 DEF Filter
          <6>9. \A k \in DOMAIN Route[y] : AccountOf(y, k) = AccountOf(r, i)
            BY <6>5, <6>6, <6>8, ScarceOne
          <6>10. CASE y \in pump.excluded
            <7>1. Stuck(y)
              BY <4>1, <6>6, <6>10 DEF Aside
            <7>2. Shut(AccountOf(r, i))
              BY <6>9, <7>1 DEF Stuck, Lines
            <7> QED BY <1>4, <6>2, <7>2 DEF Stuck
          <6>11. CASE y \notin pump.excluded
            <7>1. active[KeyOf(y)] < MaxConcurrency
              <8>1. active[KeyOf(y)] \in Int /\ MaxConcurrency \in Nat
                BY <6>6, KeyIsKey, AdmissionAssumption DEF Good, Tally
              <8> QED BY <6>7, <8>1
            <7>2. Guards(y, AccountOf(r, i))
              BY <1>1, <6>6, <6>7, <6>9, <6>11, <7>1 DEF Guards, Before
            <7>3. Guards(y, AccountOf(r, i))'
              BY <4>5, <6>6, <7>2
            <7>4. Shielded(r)'
              BY <1>4, <6>2, <6>6, <7>3 DEF Shielded
            <7>5. (~Scarce(r))'
              BY <4>3 DEF Scarce, EntryOf, KeyOf, AccountOf
            <7> QED BY <7>4, <7>5
          <6> QED BY <6>10, <6>11
        <5> QED BY <5>1, <5>2
      <4>8. Aside'
        BY <1>1, <1>3, <3>2, <4>6, <4>7 DEF Aside
      <4> QED BY <4>2, <4>8
    <3>5. Quiet' => Sleeps' /\ Looked'
      BY <3>2, <3>4 DEF Sleeps, Looked, Current
    <3> QED BY <1>1, <3>2, <3>3, <3>5 DEF Alert, SameAccounts
  <2>5. CASE pump' = [pump EXCEPT !.pc = "gate", !.pick = <<x>>] /\ Allowed(r, ready) # {}
    <3>1. pump'.pc = "gate" /\ pump'.excluded = pump.excluded /\ pump'.once = pump.once /\ Pick' = x
      <4> HIDE DEF x
      <4> QED BY <2>5, PumpRecord DEF Pick
    <3>2. x.id = r /\ x.cause = PreviewCause(r) /\ x.legs = Preview(r)
          /\ x.avoid = PreviewAccounts(r) \ Allowed(r, ready)
      OBVIOUS
    <3> HIDE DEF x
    <3>3. Vacant'
      BY <1>1, <1>6, <3>1 DEF Vacant, Alert, SameAccounts
    <3>4. ASSUME Quiet' PROVE Looked'
      <4>1. Tried /\ Aside
        BY <1>1, <3>4 DEF Alert, Looked, Quiet
      <4>2. Tried'
        BY <1>4, <3>1, <4>1 DEF Tried
      <4>3. PreviewCause(r)' = PreviewCause(r) /\ Preview(r)' = Preview(r)
        BY <1>1, <3>1, SamePreview DEF SameAccounts
      <4>4. \A i \in Preview(r) : AccountOf(r, i) \notin x.avoid
        <5>1. PICK i \in Preview(r) : AccountOf(r, i) \in Allowed(r, ready)
          BY <2>5 DEF Allowed, PreviewAccounts
        <5>2. \A j \in Preview(r) : j = i
          BY <2>2, PreviewOne
        <5> QED BY <3>2, <5>1, <5>2
      <4>5. Current'
        BY <2>2, <3>1, <3>2, <4>3, <4>4 DEF Current, AccountOf
      <4>6. Before' = Before
        BY <1>1, <3>1 DEF Before
      <4>7. ASSUME NEW y \in Request, NEW a, Guards(y, a) PROVE Guards(y, a)'
        <5>1. y \in (Waiting' \ Dead') \ pump'.excluded
          BY <1>1, <1>3, <3>1, <4>7 DEF Guards
        <5> QED BY <1>1, <3>1, <4>6, <4>7, <5>1, GuardStays
      <4>8. ASSUME NEW z \in (Waiting \ Dead) \cap pump.excluded
            PROVE  Stuck(z)' \/ (~Scarce(z) /\ Shielded(z))'
        BY <1>1, <4>1, <4>7, AsideStays
      <4>9. Aside'
        BY <1>1, <1>3, <3>1, <4>8 DEF Aside
      <4> QED BY <4>2, <4>5, <4>9 DEF Looked
    <3>5. Quiet' => Sleeps' /\ Looked'
      BY <3>1, <3>4 DEF Sleeps
    <3> QED BY <1>1, <3>1, <3>3, <3>5 DEF Alert, SameAccounts
  <2> QED BY <2>1, <2>4, <2>5
<1> QED BY <1>7, <1>8

(* While nothing happens, what the gate finds is what the preview found.   *)
LEMMA GateFinds ==
    ASSUME OneLeg, Good, Current, pump.pc = "gate",
           NEW found, found = {i \in Filter(Pick.id, Pick.cause) : AccountOf(Pick.id, i) \notin Pick.avoid}
    PROVE  /\ found # {} /\ Min(found) \in Pick.legs /\ CanSend(Pick.id, Min(found))
           /\ ~(active[KeyOf(Pick.id)] >= MaxConcurrency)
           /\ Min(found) \in Filter(Pick.id, PreviewCause(Pick.id)) /\ Min(found) \in DOMAIN Route[Pick.id]
<1> DEFINE r == Pick.id
<1>1. r \in Request
  BY PickIs
<1>2. /\ Pick.cause = PreviewCause(r) /\ Pick.legs = Preview(r) /\ Preview(r) # {}
      /\ \A i \in Preview(r) : AccountOf(r, i) \notin Pick.avoid
  BY DEF Current
<1>3. PICK i \in Preview(r) : TRUE
  BY <1>2
<1>4. i \in Filter(r, Pick.cause) /\ CanSend(r, i) /\ ~(active[KeyOf(r)] >= MaxConcurrency)
  BY <1>2, <1>3 DEF Preview
<1>5. \A j \in Filter(r, Pick.cause) : j = i
  BY <1>1, <1>4 DEF Filter, OneLeg
<1>6. i \in found
  BY <1>2, <1>3, <1>4
<1>7. found \in SUBSET Nat
  <2>1. Route[r] \in Seq([account : Account, causes : SUBSET Cause])
    BY <1>1, AdmissionAssumption
  <2> QED BY <2>1 DEF Filter
<1>8. Min(found) \in found
  BY <1>6, <1>7, Lowest
<1>9. Min(found) = i
  BY <1>5, <1>8
<1> QED BY <1>2, <1>3, <1>4, <1>6, <1>9 DEF Filter

(* The pump as it leaves the gate.                                         *)
Reserves(p, n, m) ==
    /\ p.pc = "reserve" /\ p.excluded = pump.excluded /\ p.once = n
    /\ p.pick[1].id = Pick.id /\ p.pick[1].leg = m

LEMMA ReserveFields ==
    ASSUME Good, pump.pc = "gate", NEW m \in Nat,
           NEW n, NEW p, p = [pump EXCEPT !.pc = "reserve", !.once = n, !.pick[1].leg = m]
    PROVE  Reserves(p, n, m)
<1> DEFINE p1 == [pump EXCEPT !.pc = "reserve"]
           p2 == [p1 EXCEPT !.once = n]
           p3 == [p2 EXCEPT !.pick[1].leg = m]
           x == pump.pick[1]
           y == [x EXCEPT !.leg = m]
<1>1. p = p3
  OBVIOUS
<1>2. Choice(x) /\ pump.pick = <<x>> /\ Pick = x
  BY DEF Good, Pumps, Pick
<1>3. p1 = [owner |-> pump.owner, pc |-> "reserve", excluded |-> pump.excluded, once |-> pump.once,
            pick |-> pump.pick]
  BY DEF Good, Pumps
<1> HIDE DEF p1, x
<1>4. p2 = [owner |-> pump.owner, pc |-> "reserve", excluded |-> pump.excluded, once |-> n,
            pick |-> <<x>>]
  BY <1>2, <1>3
<1> HIDE DEF p2
<1>5. p3 = [owner |-> pump.owner, pc |-> "reserve", excluded |-> pump.excluded, once |-> n,
            pick |-> <<y>>]
  BY <1>4
<1> HIDE DEF p3
<1>6. y.id = x.id /\ y.leg = m
  BY <1>2 DEF Choice
<1> HIDE DEF y
<1>7. p3.pc = "reserve" /\ p3.excluded = pump.excluded /\ p3.once = n /\ p3.pick = <<y>>
  BY <1>5
<1>8. p3.pick[1] = y
  BY <1>7
<1> QED BY <1>1, <1>2, <1>6, <1>7, <1>8 DEF Reserves

LEMMA EnterGateAlert ==
    ASSUME OneLeg, Good, Alert, EnterGate
    PROVE  Alert'
<1>0. PICK r : r = Pick.id
  OBVIOUS
<1> DEFINE once == [pump.once EXCEPT ![r] = IF @ = Pick.cause THEN "none" ELSE @]
           found == {i \in Filter(r, Pick.cause) : AccountOf(r, i) \notin Pick.avoid}
<1>1. /\ pump.pc = "gate" /\ SameAccounts /\ task' = task /\ Dead' = Dead /\ wakes' = wakes
      /\ missed' = missed
  BY DEF EnterGate, runtime, SameAccounts, Dead
<1>2. r \in Waiting /\ r \in Request /\ Waiting \subseteq Request /\ queue \in Seq(Item)
      /\ future \in [Request -> Futures]
  BY <1>0, <1>1, PickIs, MembersIn DEF Good, Lists, Waiting, Owns
<1>3. \A x : Lines(x)' = Lines(x) /\ (Stuck(x)' <=> Stuck(x))
  BY <1>1, SameLines DEF SameAccounts
<1>4. CASE ~Reauthorized(r)
  <2>1. /\ queue' = Without(r) /\ future' = [future EXCEPT ![r] = "error"] /\ active' = active
        /\ pump' = [pump EXCEPT !.pc = "scan", !.pick = <<>>]
    BY <1>0, <1>4 DEF EnterGate
  <2>2. pump'.pc = "scan" /\ pump'.excluded = pump.excluded /\ pump'.once = pump.once
    BY <2>1, PumpRecord
  <2>3. Waiting' = Waiting \ {r}
    BY <1>2, <2>1, OutsideIs DEF Waiting, Without
  <2>4. Vacant'
    BY <1>1, <1>2, <2>1, <2>2 DEF Vacant, Alert, SameAccounts
  <2>5. ASSUME Quiet' PROVE Tried' /\ Aside'
    <3>1. Tried /\ Aside
      BY <1>1, <2>5 DEF Alert, Looked, Quiet
    <3>2. Before' = Before
      BY <1>1, <2>1, <2>2 DEF Before
    <3>3. ASSUME NEW y \in Request, NEW a, Guards(y, a) PROVE Guards(y, a)'
      <4>1. y \in (Waiting' \ Dead') \ pump'.excluded
        BY <1>1, <1>4, <2>2, <2>3, <3>3 DEF Guards, Reauthorized
      <4> QED BY <1>1, <2>2, <3>2, <3>3, <4>1, GuardStays
    <3>4. ASSUME NEW z \in (Waiting \ Dead) \cap pump.excluded
          PROVE  Stuck(z)' \/ (~Scarce(z) /\ Shielded(z))'
      BY <1>1, <3>1, <3>3, AsideStays
    <3>5. Aside'
      BY <1>1, <2>2, <2>3, <3>4 DEF Aside
    <3> QED BY <1>3, <2>2, <3>1, <3>5 DEF Tried
  <2>6. Quiet' => Sleeps' /\ Looked'
    BY <2>2, <2>5 DEF Sleeps, Looked, Current
  <2> QED BY <1>1, <2>2, <2>4, <2>6 DEF Alert, SameAccounts
<1>5. CASE Reauthorized(r)
  <2>1. queue' = queue /\ future' = future
    BY <1>0, <1>5 DEF EnterGate
  <2>2. \/ /\ pump' = [pump EXCEPT !.pc = "scan", !.excluded = @ \cup {r}, !.once = once,
                                   !.pick = <<>>]
           /\ \/ found = {} \/ Min(found) \notin Pick.legs \/ ~CanSend(r, Min(found))
              \/ active[KeyOf(r)] >= MaxConcurrency
        \/ /\ pump' = [pump EXCEPT !.pc = "reserve", !.once = once, !.pick[1].leg = Min(found)]
           /\ active' = [active EXCEPT ![KeyOf(r)] = @ + 1]
    BY <1>0, <1>5 DEF EnterGate
  <2>3. pump'.pc \in {"scan", "reserve"}
    <3> HIDE DEF once, found
    <3> QED BY <2>2, PumpRecord
  <2>4. Vacant'
    BY <1>1, <2>1, <2>3 DEF Vacant, Alert, SameAccounts
  <2>5. ASSUME Quiet' PROVE Looked'
    <3>1. Tried /\ Aside /\ Current
      BY <1>1, <2>5 DEF Alert, Looked, Quiet
    <3>0. PICK i : i = Min(found)
      OBVIOUS
    <3>2. /\ found # {} /\ i \in Pick.legs /\ CanSend(r, i)
          /\ ~(active[KeyOf(r)] >= MaxConcurrency)
          /\ i \in Filter(r, PreviewCause(r)) /\ i \in DOMAIN Route[r]
      BY <1>0, <1>1, <3>0, <3>1, GateFinds
    <3>3. /\ pump' = [pump EXCEPT !.pc = "reserve", !.once = once, !.pick[1].leg = i]
          /\ active' = [active EXCEPT ![KeyOf(r)] = @ + 1]
      BY <2>2, <3>0, <3>2
    <3> HIDE DEF found
    <3>4. pump'.pc = "reserve" /\ pump'.excluded = pump.excluded /\ pump'.once = once
          /\ Pick'.id = r /\ Pick'.leg = i
      <4> HIDE DEF once
      <4>1. i \in Nat
        <5>1. Route[r] \in Seq([account : Account, causes : SUBSET Cause])
          BY <1>2, AdmissionAssumption
        <5> QED BY <3>2, <5>1
      <4>2. pump' = [pump EXCEPT !.pc = "reserve", !.once = once, !.pick[1].leg = i]
        BY <3>3
      <4>3. Reserves(pump', once, i)
        BY <1>1, <4>1, <4>2, ReserveFields
      <4> QED BY <1>0, <4>3 DEF Reserves, Pick
    <3>5. /\ once \in [Request -> {"none", "capacity", "quota"}] /\ once[r] = "none"
          /\ \A x \in Request : x # r => once[x] = pump.once[x]
      <4>1. pump.once \in [Request -> {"none", "capacity", "quota"}]
        BY <3>1 DEF Tried
      <4>2. once \in [Request -> {"none", "capacity", "quota"}]
            /\ \A x \in Request : x # r => once[x] = pump.once[x]
        BY <1>2, <4>1
      <4>3. once[r] = "none"
        <5>1. CASE pump.once[r] = "none"
          BY <1>2, <4>1, <5>1
        <5>2. CASE pump.once[r] # "none"
          <6>1. PreviewCause(r) = pump.once[r]
            BY <1>2, <4>1, <5>2, PreviewOnce
          <6>2. Pick.cause = pump.once[r]
            BY <1>0, <1>1, <3>1, <6>1 DEF Current
          <6> QED BY <1>2, <4>1, <6>2
        <5> QED BY <5>1, <5>2
      <4> QED BY <4>2, <4>3
    <3> HIDE DEF once
    <3>6. Tried'
      BY <1>3, <3>1, <3>4, <3>5 DEF Tried
    <3>7. Stuck(r) \/ i \in Lines(r)
      <4>1. CASE pump.once[r] = "none"
        BY <1>2, <3>2, <4>1, PreviewLines
      <4>2. CASE pump.once[r] # "none"
        BY <1>2, <3>1, <4>2 DEF Tried
      <4> QED BY <4>1, <4>2
    <3>8. Current'
      <4>1. Available(AccountOf(r, i))
        BY <3>2 DEF Filter
      <4>2. Available(AccountOf(r, i))'
        BY <1>1, <4>1, SameView DEF SameAccounts, AccountOf
      <4>3. (pump.once[Pick.id])' = "none" /\ Pick'.leg \in DOMAIN Route[r]
        BY <3>2, <3>4, <3>5
      <4>4. Stuck(r)' \/ i \in Lines(r)'
        BY <1>3, <3>7
      <4> QED BY <3>4, <4>2, <4>3, <4>4 DEF Current, AccountOf
    <3>9. Before' = Before
      <4>1. active \in [Key -> Int] /\ KeyOf(r) \in Key
        BY <1>2, KeyIsKey DEF Good, Tally
      <4>2. Before' = [active' EXCEPT ![KeyOf(r)] = @ - 1]
        BY <3>4 DEF Before, PermitBack, KeyOf
      <4>3. Before' = active
        BY <3>3, <4>1, <4>2
      <4> QED BY <1>1, <4>3 DEF Before
    <3>10. ASSUME NEW y \in Request, NEW a, Guards(y, a) PROVE Guards(y, a)'
      <4>1. y \in (Waiting' \ Dead') \ pump'.excluded
        BY <1>1, <2>1, <3>4, <3>10 DEF Guards, Waiting
      <4>2. CASE y = r
        BY <3>4, <3>10, <4>1, <4>2 DEF Guards, Scarce, EntryOf, KeyOf, AccountOf
      <4>3. CASE y # r
        BY <1>1, <3>4, <3>5, <3>9, <3>10, <4>1, <4>3, GuardStays
      <4> QED BY <4>2, <4>3
    <3>11. ASSUME NEW z \in (Waiting \ Dead) \cap pump.excluded
           PROVE  Stuck(z)' \/ (~Scarce(z) /\ Shielded(z))'
      BY <1>1, <3>1, <3>10, AsideStays
    <3>12. Aside'
      BY <1>1, <2>1, <3>4, <3>11 DEF Aside, Waiting
    <3> QED BY <3>6, <3>8, <3>12 DEF Looked
  <2>6. Quiet' => Sleeps' /\ Looked'
    BY <2>3, <2>5 DEF Sleeps
  <2> QED BY <1>1, <2>3, <2>4, <2>6 DEF Alert, SameAccounts
<1> QED BY <1>4, <1>5

(* An account that the view shows as available and that is not granted is  *)
(* shut.                                                                   *)
LEMMA Denied ==
    ASSUME NEW r, NEW i, AccountOf(r, i) \in Account, gate \in [Account -> Gate],
           Available(AccountOf(r, i)), Reservation(r, i) # "granted"
    PROVE  Shut(AccountOf(r, i)) /\ Reservation(r, i) \in {"none", "capacity", "quota"}
<1>1. gate[AccountOf(r, i)] \in Gate
  OBVIOUS
<1> QED BY <1>1 DEF Shut, Reservation, Available, Gate

LEMMA ReserveAlert ==
    ASSUME OneLeg, Good, Alert, Reserve
    PROVE  Alert'
<1>0. PICK r : r = Pick.id
  OBVIOUS
<1>1. PICK i : i = Pick.leg
  OBVIOUS
<1> DEFINE answer == IF r \in expired THEN "none" ELSE Reservation(r, i)
<1>2. /\ pump.pc = "reserve" /\ shadows' = shadows /\ gate' = gate /\ cause' = cause /\ sent' = sent
      /\ task' = task /\ future' = future /\ queue' = queue /\ Dead' = Dead /\ wakes' = wakes
      /\ missed' = missed
  BY DEF Reserve, Dead
<1>3. r \in Request /\ r \in Waiting /\ future[r] = "pending" /\ i \in Nat
      /\ active \in [Key -> Int] /\ KeyOf(r) \in Key /\ slot \in [Request -> Nat]
  BY <1>0, <1>1, <1>2, PickIs, KeyIsKey DEF Good, Pumps, Pick, Tally, Fits
<1>4. slot[r] = 0
  BY <1>2, <1>3 DEF Alert, Vacant
<1>5. Quiet' => Quiet /\ Tried /\ Current /\ Aside
  BY <1>2 DEF Alert, Looked, Quiet
<1>6. Current => /\ pump.once[r] = "none" /\ i \in DOMAIN Route[r]
                 /\ Available(AccountOf(r, i)) /\ AccountOf(r, i) \in Account
                 /\ Stuck(r) \/ i \in Lines(r)
  <2>1. Route[r] \in Seq([account : Account, causes : SUBSET Cause])
    BY <1>3, AdmissionAssumption
  <2>2. ASSUME i \in DOMAIN Route[r] PROVE AccountOf(r, i) \in Account
    <3> DEFINE S == [account : Account, causes : SUBSET Cause]
               s == Route[r]
    <3>1. s \in Seq(S) /\ i \in DOMAIN s
      BY <2>1, <2>2
    <3> HIDE DEF S, s
    <3>2. s[i] \in S
      BY <3>1
    <3> QED BY <3>2 DEF AccountOf, S, s
  <2> QED BY <1>0, <1>1, <1>2, <2>2 DEF Current
<1>7. CASE answer = "granted"
  <2>1. slot' = [slot EXCEPT ![r] = i] /\ pump' = [pump EXCEPT !.pc = "mark"]
    BY <1>0, <1>1, <1>7 DEF Reserve
  <2>2. pump'.pc = "mark" /\ pump'.once = pump.once /\ pump'.pick = pump.pick
    BY <2>1, PumpRecord
  <2>3. Pick'.id = r
    BY <1>0, <2>2 DEF Pick
  <2>4. Vacant'
    BY <1>2, <1>3, <2>1, <2>2, <2>3 DEF Vacant, Alert
  <2>5. ASSUME Quiet' PROVE Tried'
    <3>1. Tried /\ Current /\ gate[AccountOf(r, i)] \in Gate
      BY <1>5, <1>6, <2>5 DEF Alert
    <3>2. Reservation(r, i) = "granted"
      BY <1>7
    <3>3. \A x : Stuck(x) => Stuck(x)'
      BY <1>2, <1>3, <1>4, <2>1, <3>1, <3>2, GrantKeeps
    <3> QED BY <2>2, <3>1, <3>3 DEF Tried
  <2>6. Quiet' => Sleeps' /\ Looked'
    BY <2>2, <2>5 DEF Sleeps, Looked, Current
  <2> QED BY <1>2, <2>2, <2>4, <2>6 DEF Alert
<1>8. CASE answer # "granted"
  <2>1. active' = PermitBack(r) /\ slot' = slot
    BY <1>0, <1>1, <1>8 DEF Reserve
  <2>2. SameAccounts
    BY <1>2, <2>1 DEF SameAccounts
  <2>3. \/ Exclude(r) /\ answer = "none"
        \/ pump' = [pump EXCEPT !.pc = "scan", !.once[r] = answer, !.pick = <<>>] /\ answer # "none"
    BY <1>0, <1>1, <1>8 DEF Reserve
  <2>4. \/ /\ answer = "none" /\ pump'.pc = "scan" /\ pump'.excluded = pump.excluded \cup {r}
           /\ pump'.once = pump.once
        \/ /\ answer # "none" /\ pump'.pc = "scan" /\ pump'.excluded = pump.excluded
           /\ pump'.once = [pump.once EXCEPT ![r] = answer]
    <3> HIDE DEF answer
    <3>1. CASE Exclude(r) /\ answer = "none"
      <4> DEFINE X == pump.excluded \cup {r}
      <4>1. pump' = [pump EXCEPT !.pc = "scan", !.excluded = X, !.pick = <<>>]
        BY <3>1 DEF Exclude
      <4> HIDE DEF X
      <4>2. pump'.pc = "scan" /\ pump'.excluded = X /\ pump'.once = pump.once
        BY <4>1, PumpRecord
      <4> QED BY <3>1, <4>2 DEF X
    <3>2. CASE pump' = [pump EXCEPT !.pc = "scan", !.once[r] = answer, !.pick = <<>>] /\ answer # "none"
      <4> DEFINE n == [pump.once EXCEPT ![r] = answer]
      <4>1. pump' = [pump EXCEPT !.pc = "scan", !.once = n, !.pick = <<>>]
        BY <3>2
      <4> HIDE DEF n
      <4>2. pump'.pc = "scan" /\ pump'.excluded = pump.excluded /\ pump'.once = n
        BY <4>1, PumpRecord
      <4> QED BY <3>2, <4>2 DEF n
    <3> QED BY <2>3, <3>1, <3>2
  <2>5. pump'.pc = "scan"
    BY <2>4
  <2>6. Vacant'
    BY <1>2, <2>1, <2>5 DEF Vacant, Alert
  <2>7. \A x : Lines(x)' = Lines(x) /\ (Stuck(x)' <=> Stuck(x))
    BY <2>2, SameLines DEF SameAccounts
  <2>8. ASSUME Quiet' PROVE Looked'
    <3>1. Tried /\ Current /\ Aside
      BY <1>5, <2>8
    <3>2. r \notin expired => Shut(AccountOf(r, i)) /\ Stuck(r) /\ answer \in {"none", "capacity", "quota"}
      <4>1. AccountOf(r, i) \in Account /\ gate \in [Account -> Gate] /\ Available(AccountOf(r, i))
        BY <1>6, <3>1 DEF Alert
      <4>2. r \notin expired => Shut(AccountOf(r, i)) /\ answer \in {"none", "capacity", "quota"}
        BY <1>8, <4>1, Denied
      <4> QED BY <1>6, <3>1, <4>2 DEF Stuck
    <3>3. pump'.once \in [Request -> {"none", "capacity", "quota"}]
          /\ \A x \in Request : x # r => pump'.once[x] = pump.once[x]
      <4> HIDE DEF answer
      <4>1. answer # "none" => answer \in {"none", "capacity", "quota"}
        BY <3>2 DEF answer
      <4> QED BY <2>4, <3>1, <4>1 DEF Tried
    <3>4. Tried'
      <4>1. pump'.once[r] # "none" => r \notin expired
        BY <1>3, <1>6, <2>4, <3>1
      <4>2. pump'.once[r] # "none" => Stuck(r)'
        BY <2>7, <3>2, <4>1
      <4> QED BY <2>7, <3>1, <3>3, <4>2 DEF Tried
    <3>5. Before' = Before
      BY <1>0, <1>2, <2>1, <2>5 DEF Before
    <3>6. Waiting' = Waiting
      BY <1>2 DEF Waiting
    <3>7. ASSUME NEW y \in Request, NEW a, Guards(y, a), y # r PROVE Guards(y, a)'
      <4>1. y \in (Waiting' \ Dead') \ pump'.excluded
        BY <1>2, <2>4, <3>6, <3>7 DEF Guards
      <4> QED BY <1>0, <2>2, <3>3, <3>5, <3>7, <4>1, GuardStays
    <3>8. ASSUME NEW a, Guards(r, a) PROVE Shut(a)
      <4>1. AccountOf(r, i) = a /\ r \notin Dead
        BY <1>6, <3>1, <3>8 DEF Guards
      <4> QED BY <3>2, <4>1 DEF Dead
    <3>9. ASSUME NEW z \in (Waiting \ Dead) \cap pump.excluded
          PROVE  Stuck(z)' \/ (~Scarce(z) /\ Shielded(z))'
      <4>1. ASSUME NEW y \in Request, NEW j \in Lines(z), Guards(y, AccountOf(z, j))
            PROVE  Stuck(z) \/ Guards(y, AccountOf(z, j))'
        <5>1. CASE y = r
          BY <3>8, <4>1, <5>1 DEF Stuck
        <5>2. CASE y # r
          BY <3>7, <4>1, <5>2
        <5> QED BY <5>1, <5>2
      <4> QED BY <2>2, <3>1, <4>1, AsideStays
    <3>10. r \notin Dead => Stuck(r)'
      BY <2>7, <3>2 DEF Dead
    <3>11. Aside'
      BY <1>2, <2>4, <3>6, <3>9, <3>10 DEF Aside
    <3> QED BY <2>5, <3>4, <3>11 DEF Looked, Current
  <2>9. Quiet' => Sleeps' /\ Looked'
    BY <2>5, <2>8 DEF Sleeps
  <2> QED BY <1>2, <2>5, <2>6, <2>9 DEF Alert
<1> QED BY <1>7, <1>8

LEMMA MarkAlert ==
    ASSUME Good, Alert, Mark
    PROVE  Alert'
<1>0. PICK r : r = Pick.id
  OBVIOUS
<1>1. /\ pump.pc = "mark" /\ slot' = slot /\ shadows' = shadows /\ gate' = gate /\ cause' = cause
      /\ task' = task /\ future' = [future EXCEPT ![r] = "lease"] /\ wakes' = wakes /\ missed' = missed
      /\ pump' = [pump EXCEPT !.pc = "scan", !.excluded = {}, !.pick = <<>>]
  BY <1>0 DEF Mark
<1>2. pump'.pc = "scan" /\ pump'.excluded = {} /\ pump'.once = pump.once
  BY <1>1, PumpRecord
<1>3. r \in Request /\ future[r] = "pending" /\ future \in [Request -> Futures] /\ task[r] # "enter"
  BY <1>0, <1>1, PickIs DEF Good, Owns
<1>4. Vacant'
  BY <1>0, <1>1, <1>2, <1>3 DEF Vacant, Alert
<1>5. ASSUME Quiet' PROVE Looked'
  <2>1. Tried
    BY <1>1, <1>5 DEF Alert, Looked, Quiet
  <2>2. Tried'
    BY <1>1, <1>2, <2>1, SameLines DEF Tried
  <2> QED BY <1>2, <2>2 DEF Looked, Current, Aside
<1> QED BY <1>1, <1>2, <1>4, <1>5 DEF Alert, Sleeps

(* A pump begins with nobody set aside.                                    *)
LEMMA BeginsAlert ==
    ASSUME NEW o, PumpBy(o), wakes' \in Nat, gate' \in [Account -> Gate],
           \A r \in Request : task'[r] = "enter" \/ future'[r] = "pending" => slot'[r] = 0
    PROVE  Alert'
<1>1. pump' = [Idle EXCEPT !.owner = o, !.pc = "scan"]
  BY DEF PumpBy
<1>2. pump'.pc = "scan" /\ pump'.excluded = {} /\ pump'.once = NoCause
  BY <1>1 DEF Idle
<1>3. Vacant'
  BY <1>2 DEF Vacant
<1>4. Tried'
  BY <1>2 DEF Tried, NoCause
<1> QED BY <1>2, <1>3, <1>4 DEF Alert, Sleeps, Looked, Current, Aside

LEMMA WakeAlert ==
    ASSUME Alert, Wake
    PROVE  Alert'
<1>1. /\ PumpBy(WAKE) /\ gate' = gate /\ wakes' = wakes - 1 /\ wakes > 0 /\ pump.pc = "idle"
      /\ task' = task /\ future' = future /\ slot' = slot
  BY DEF Wake, runtime
<1>2. wakes' \in Nat
  BY <1>1 DEF Alert
<1>3. \A r \in Request : task'[r] = "enter" \/ future'[r] = "pending" => slot'[r] = 0
  BY <1>1 DEF Alert, Vacant
<1> QED BY <1>1, <1>2, <1>3, BeginsAlert DEF Alert

(* Whose slot is free stays so while only a task or a death steps.         *)
LEMMA VacantStays ==
    ASSUME Vacant, slot' = slot, pump' = pump,
           \A r \in Request : task'[r] = "enter" \/ future'[r] = "pending"
                              => task[r] = "enter" \/ future[r] = "pending"
    PROVE  Vacant'
  BY DEF Vacant, Pick

LEMMA CalmAlert ==
    ASSUME Alert, Vacant', wakes' = wakes, missed' = missed,
           slot' = slot, shadows' = shadows, gate' = gate, cause' = cause, sent' = sent,
           active' = active, pump' = pump, queue' = queue, Dead' = Dead
    PROVE  Alert'
<1>1. Quiet' => Quiet
  BY DEF Quiet
<1>2. Quiet' => Sleeps' /\ Looked'
  BY <1>1, Calm
<1> QED BY <1>2 DEF Alert

LEMMA EnterAlert ==
    ASSUME Good, Alert, NEW r \in Request, Enter(r)
    PROVE  Alert'
<1>1. /\ task[r] = "enter" /\ pump.pc = "idle" /\ slot' = slot /\ shadows' = shadows /\ gate' = gate
      /\ sent' = sent /\ cause' = cause /\ Dead' = Dead /\ active' = active /\ wakes' = wakes
      /\ task \in [Request -> Places] /\ future \in [Request -> Futures]
  BY DEF Enter, runtime, Dead, Good, Owns
<1>2. CASE Refused(r)
  <2>1. /\ task' = [task EXCEPT ![r] = "failed"] /\ future' = future /\ queue' = queue
        /\ pump' = pump /\ missed' = missed
    BY <1>2 DEF Enter
  <2>2. \A x \in Request : task'[x] = "enter" => task[x] = "enter"
    BY <1>1, <2>1
  <2>3. Vacant'
    BY <1>1, <2>1, <2>2, VacantStays DEF Alert
  <2> QED BY <1>1, <2>1, <2>3, CalmAlert
<1>3. CASE ~Refused(r)
  <2>1. /\ task' = [task EXCEPT ![r] = "pump"] /\ future' = [future EXCEPT ![r] = "pending"]
        /\ PumpBy(r)
    BY <1>3 DEF Enter
  <2>2. \A x \in Request : task'[x] = "enter" \/ future'[x] = "pending" => slot'[x] = 0
    BY <1>1, <2>1 DEF Alert, Vacant
  <2> QED BY <1>1, <2>1, <2>2, BeginsAlert DEF Alert
<1> QED BY <1>2, <1>3

LEMMA TaskAlert ==
    ASSUME Good, Alert, NEW r \in Request, Resume(r) \/ Cancel(r)
    PROVE  Alert'
<1>1. /\ slot' = slot /\ shadows' = shadows /\ gate' = gate /\ sent' = sent /\ cause' = cause
      /\ Dead' = Dead /\ active' = active /\ wakes' = wakes /\ future' = future /\ queue' = queue
      /\ pump' = pump /\ missed' = missed
  BY DEF Resume, Cancel, runtime, waiters, Dead
<1>2. task \in [Request -> Places]
  BY DEF Good, Owns
<1>3. \A x \in Request : task'[x] = "enter" => task[x] = "enter"
  BY <1>2 DEF Resume, Cancel
<1>4. Vacant'
  BY <1>1, <1>3, VacantStays DEF Alert
<1> QED BY <1>1, <1>4, CalmAlert

LEMMA DeathAlert ==
    ASSUME Alert, NEW r \in Request, Expire(r) \/ Revoke(r)
    PROVE  Alert'
<1>1. /\ slot' = slot /\ shadows' = shadows /\ gate' = gate /\ sent' = sent /\ cause' = cause
      /\ Dead' = Dead \cup {r} /\ active' = active /\ wakes' = wakes /\ future' = future /\ queue' = queue
      /\ pump' = pump /\ task' = task
  BY DEF Expire, Revoke, runtime, waiters, Dead
<1>2. missed' = (missed \/ (pump.pc # "idle" /\ r \in Waiting /\ Scarce(r)))
  BY DEF Expire, Revoke, DiesUnheard, Scarce
<1>3. Vacant'
  BY <1>1, VacantStays DEF Alert
<1>4. Quiet' => Quiet /\ ~(pump.pc # "idle" /\ r \in Waiting /\ Scarce(r))
  BY <1>1, <1>2 DEF Quiet
<1>5. Quiet' => Sleeps' /\ Looked'
  <2>1. SUFFICES ASSUME Quiet' PROVE Sleeps' /\ Looked'
    OBVIOUS
  <2>2. pump.pc # "idle" => \A y \in Waiting : Scarce(y) /\ y \in Dead' => y \in Dead
    BY <1>1, <1>4, <2>1
  <2>3. Dead \subseteq Dead'
    BY <1>1
  <2> QED BY <1>1, <1>4, <2>1, <2>2, <2>3, Calm
<1> QED BY <1>1, <1>3, <1>5 DEF Alert

(* A step of which nobody is told, or that creates a wake task, leaves     *)
(* only the slots to look at.                                              *)
LEMMA LoudAlert ==
    ASSUME missed' = TRUE \/ wakes' > 0, wakes' \in Nat, gate' \in [Account -> Gate], Vacant',
           pump' = Idle \/ (pump' = pump /\ (pump.pc = "idle" => pump = Idle))
    PROVE  Alert'
<1>1. ~Quiet'
  BY DEF Quiet
<1> QED BY <1>1 DEF Alert

LEMMA StopAlert ==
    ASSUME Good, Alert, MarkRaises \/ CancelPump
    PROVE  Alert'
<1>0. PICK r : r = Pick.id
  OBVIOUS
<1>1. /\ pump.pc \in {"gate", "reserve", "mark"} /\ slot' = [slot EXCEPT ![r] = 0] /\ gate' = gate
      /\ pump' = Idle /\ missed' = TRUE /\ future' = future /\ wakes' = wakes
      /\ task' \in {task, [task EXCEPT ![pump.owner] = "failed"], [task EXCEPT ![pump.owner] = "cleanup"]}
  BY <1>0 DEF MarkRaises, CancelPump
<1>2. r \in Request /\ slot \in [Request -> Nat] /\ task \in [Request -> Places]
  BY <1>0, <1>1, PickIs DEF Good, Owns, Fits
<1>3. \A x \in Request : task'[x] = "enter" => task[x] = "enter"
  BY <1>1, <1>2
<1>4. pump'.pc = "idle"
  BY <1>1 DEF Idle
<1>5. Vacant'
  BY <1>0, <1>1, <1>2, <1>3, <1>4 DEF Vacant, Alert
<1> QED BY <1>1, <1>5, LoudAlert DEF Alert

LEMMA ReleaseAlert ==
    ASSUME Good, Alert, NEW r \in Request,
           Finish(r) \/ Retry(r) \/ (Cleanup(r) /\ future[r] = "lease")
    PROVE  Alert'
<1>1. /\ Released(r) /\ gate' = gate /\ pump' = pump
      /\ slot' \in {slot, [slot EXCEPT ![r] = 0]}
      /\ \/ task' \in {[task EXCEPT ![r] = "done"], [task EXCEPT ![r] = "cancelled"]}
         \/ task' = [task EXCEPT ![r] = "enter"] /\ slot' = [slot EXCEPT ![r] = 0]
  BY DEF Finish, Retry, Cleanup
<1>2. future' = [future EXCEPT ![r] = "released"] /\ wakes' = wakes + 1
  BY <1>1 DEF Released
<1>3. slot \in [Request -> Nat] /\ task \in [Request -> Places] /\ future \in [Request -> Futures]
  BY DEF Good, Owns, Fits
<1>4. wakes' \in Nat /\ wakes' > 0
  BY <1>2 DEF Alert
<1>5. Vacant'
  <2>1. \A x \in Request : task'[x] = "enter" \/ future'[x] = "pending"
           => \/ slot'[x] = 0
              \/ (task[x] = "enter" \/ future[x] = "pending") /\ slot'[x] = slot[x]
    BY <1>1, <1>2, <1>3
  <2>2. Pick' = Pick
    BY <1>1 DEF Pick
  <2> QED BY <1>1, <2>1, <2>2 DEF Vacant, Alert
<1> QED BY <1>1, <1>4, <1>5, LoudAlert DEF Alert

LEMMA CleanupAlert ==
    ASSUME Good, Alert, NEW r \in Request, Cleanup(r), future[r] # "lease"
    PROVE  Alert'
<1>1. /\ pump.pc = "idle" /\ pump' = pump /\ queue' = Without(r) /\ task' = [task EXCEPT ![r] = "cancelled"]
      /\ future' = [future EXCEPT ![r] = IF @ = "pending" THEN "cancelled" ELSE @]
      /\ active' = active /\ wakes' = wakes /\ slot' = slot /\ shadows' = shadows /\ sent' = sent
      /\ gate' = gate /\ cause' = cause /\ Dead' = Dead /\ missed' = missed
  BY DEF Cleanup, Dead
<1>2. task \in [Request -> Places] /\ future \in [Request -> Futures] /\ queue \in Seq(Item)
  BY DEF Good, Owns, Lists
<1>3. Waiting' \subseteq Waiting
  BY <1>1, <1>2, OutsideIs DEF Waiting, Without
<1>4. Vacant'
  <2>1. \A x \in Request : task'[x] = "enter" \/ future'[x] = "pending"
                           => task[x] = "enter" \/ future[x] = "pending"
    BY <1>1, <1>2
  <2> QED BY <1>1, <2>1, VacantStays DEF Alert
<1>5. \A x : Servable(x)' <=> Servable(x)
  <2>1. \A x : Lines(x)' = Lines(x)
    BY <1>1, SameLines
  <2>2. \A x, i : /\ Reservation(x, i)' = Reservation(x, i)
                  /\ CanSend(x, i)' <=> CanSend(x, i)
    BY <1>1, SameView DEF CanSend, SendClosed
  <2> QED BY <1>1, <2>1, <2>2 DEF Servable, KeyOf
<1>6. Quiet' => Sleeps' /\ Looked'
  BY <1>1, <1>3, <1>5 DEF Alert, Sleeps, Looked, Quiet
<1> QED BY <1>1, <1>4, <1>6 DEF Alert

LEMMA OutsideAlert ==
    ASSUME Good, Alert,
           \/ \E a \in Account : ShadowStart(a) \/ ShadowEnd(a)
           \/ \E a \in Account, g \in Gate : Move(a, g)
    PROVE  Alert'
<1>1. /\ missed' = TRUE /\ wakes' = wakes /\ pump' = pump /\ slot' = slot /\ task' = task
      /\ future' = future
      /\ gate' = gate \/ \E a \in Account, g \in Gate : gate' = [gate EXCEPT ![a] = g]
  BY DEF ShadowStart, ShadowEnd, Move
<1>2. gate' \in [Account -> Gate]
  BY <1>1 DEF Alert
<1>3. Vacant'
  BY <1>1, VacantStays DEF Alert
<1> QED BY <1>1, <1>2, <1>3, LoudAlert DEF Alert

LEMMA AlertNext ==
    ASSUME OneLeg, Good, Alert, [Next]_vars
    PROVE  Alert'
<1>1. CASE Scan
  BY <1>1, ScanAlert
<1>2. CASE EnterGate
  BY <1>2, EnterGateAlert
<1>3. CASE Reserve
  BY <1>3, ReserveAlert
<1>4. CASE Mark
  BY <1>4, MarkAlert
<1>5. CASE MarkRaises \/ CancelPump
  BY <1>5, StopAlert
<1>6. CASE Wake
  BY <1>6, WakeAlert
<1>7. ASSUME NEW r \in Request, Enter(r) \/ Resume(r) \/ Cancel(r)
      PROVE  Alert'
  BY <1>7, EnterAlert, TaskAlert
<1>8. ASSUME NEW r \in Request, Finish(r) \/ Retry(r) \/ Cleanup(r)
      PROVE  Alert'
  <2>1. CASE Finish(r) \/ Retry(r) \/ (Cleanup(r) /\ future[r] = "lease")
    BY <2>1, ReleaseAlert
  <2>2. CASE Cleanup(r) /\ future[r] # "lease"
    BY <2>2, CleanupAlert
  <2> QED BY <1>8, <2>1, <2>2
<1>9. ASSUME NEW r \in Request, Expire(r) \/ Revoke(r)
      PROVE  Alert'
  BY <1>9, DeathAlert
<1>10. CASE \/ \E a \in Account : ShadowStart(a) \/ ShadowEnd(a)
            \/ \E a \in Account, g \in Gate : Move(a, g)
  BY <1>10, OutsideAlert
<1>11. CASE UNCHANGED vars
  <2>1. /\ wakes' = wakes /\ missed' = missed /\ slot' = slot /\ shadows' = shadows /\ gate' = gate
        /\ cause' = cause /\ sent' = sent /\ active' = active /\ pump' = pump /\ queue' = queue
        /\ Dead' = Dead /\ task' = task /\ future' = future
    BY <1>11 DEF vars, Dead
  <2>2. Vacant'
    BY <2>1, VacantStays DEF Alert
  <2> QED BY <2>1, <2>2, CalmAlert
<1> QED BY <1>1, <1>2, <1>3, <1>4, <1>5, <1>6, <1>7, <1>8, <1>9, <1>10, <1>11 DEF Next

LEMMA AlertInit ==
    ASSUME Init
    PROVE  Alert
<1>1. /\ wakes = 0 /\ gate = [a \in Account |-> "open"] /\ pump = Idle /\ queue = <<>>
      /\ slot = [r \in Request |-> 0]
  BY DEF Init
<1>2. pump.pc = "idle" /\ Waiting = {}
  BY <1>1 DEF Idle, Waiting, Members
<1> QED BY <1>1, <1>2 DEF Alert, Vacant, Sleeps, Looked, Gate

(* What a waiter could be dispatched for when no pump runs.                *)
LEMMA AlertSleeps ==
    ASSUME Good, Alert
    PROVE  SleepsWhenDone
<1> SUFFICES ASSUME Asleep, ~missed, NEW r \in Waiting \ Dead, Dispatchable(r) PROVE FALSE
  BY DEF SleepsWhenDone
<1>1. pump = Idle /\ pump.pc = "idle" /\ wakes = 0
  BY DEF Asleep, Alert
<1>2. r \in Request
  BY MembersIn DEF Good, Lists, Waiting
<1>3. pump.once[r] = "none"
  BY <1>1, <1>2 DEF Idle, NoCause
<1>4. PICK i \in Preview(r) : Reservation(r, i) = "granted"
  BY DEF Dispatchable
<1>5. i \in Filter(r, PreviewCause(r)) /\ CanSend(r, i) /\ ~(active[KeyOf(r)] >= MaxConcurrency)
  BY <1>4 DEF Preview
<1>6. i \in Lines(r)
  BY <1>2, <1>3, <1>5, PreviewLines
<1>7. active[KeyOf(r)] < MaxConcurrency
  <2>1. active[KeyOf(r)] \in Int /\ MaxConcurrency \in Nat
    BY <1>2, KeyIsKey, AdmissionAssumption DEF Good, Tally
  <2> QED BY <1>5, <2>1
<1>8. Servable(r)
  BY <1>4, <1>5, <1>6, <1>7 DEF Servable
<1> QED BY <1>1, <1>8 DEF Alert, Quiet, Sleeps

-----------------------------------------------------------------------------
(* Whatever the keys, tiers and limits, the pump never goes to sleep on a  *)
(* waiter it could dispatch, unless something happened of which nobody is  *)
(* told, provided that no cause is served by two legs of a request: the    *)
(* pump tries one leg of a cause and does not come back for the other.     *)
THEOREM AdmissionSleepsWhenDone ==
    ASSUME OneLeg
    PROVE  Spec => []SleepsWhenDone
<1>1. Init => Good /\ Alert
  BY GoodInit, AlertInit
<1>2. Good /\ Alert /\ [Next]_vars => (Good /\ Alert)'
  BY GoodNext, AlertNext
<1>3. Good /\ Alert => SleepsWhenDone
  BY AlertSleeps
<1> QED BY <1>1, <1>2, <1>3, PTL DEF Spec
=============================================================================
