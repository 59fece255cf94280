------------------------ MODULE AttemptJournalProofs ------------------------
(***************************************************************************)
(* Proofs about AttemptJournal: whatever was killed, cut or failed, a      *)
(* start accepts the files, and the journal implements DurableLog.         *)
(*                                                                         *)
(* The argument: there is one history h that the files hold, whoever       *)
(* wrote them and whenever.  Every record, every checkpoint and the        *)
(* manifest are a prefix of h; the segments hold h without overlap but for *)
(* what every readable checkpoint holds; only the last record of h may be  *)
(* lost, and only while nobody relies on it.  _recover returns h, and each *)
(* step leaves h alone, adds a value to it or takes one from it that was   *)
(* never promised.                                                         *)
(***************************************************************************)
EXTENDS AttemptJournal, FiniteSetTheorems, SequenceTheorems, TLAPS

(* Processes are killed, or the power fails; see ReturnedDurable for both.  *)
OneKindOfEnd == \A e \in Ends : e.stop = 0 \/ e.power = 0

History == Seq(Value)
Segment == [recs : Seq(History), synced : Nat, torn : BOOLEAN, linked : BOOLEAN]
Upto(h, n) == SubSeq(h, 1, n)

Size(f, s) == Len(f[s].recs)

(* Segment s holds the records s, s + 1, ... of h, and no two overlap.     *)
Layout(f, h) ==
    /\ DOMAIN f \subseteq Nat \ {0} /\ f \in [DOMAIN f -> Segment]
    /\ \A s \in DOMAIN f :
         /\ s + Size(f, s) <= Len(h) + 1
         /\ \A i \in 1..Size(f, s) : f[s].recs[i] = Upto(h, s + i - 1)
         /\ f[s].torn => \A t \in DOMAIN f : t <= s
    /\ \A s, t \in DOMAIN f : s < t => s + Size(f, s) <= t

InSegment(f, n) == \E s \in DOMAIN f : s <= n /\ n < s + Size(f, s)

(* What no segment holds, every readable checkpoint summarises.            *)
Complete(f, c, h) ==
    \A n \in 1..Len(h) :
        \/ InSegment(f, n)
        \/ DOMAIN c # {} /\ \A i \in DOMAIN c : c[i].readable => n <= Len(c[i].at)

Whole(f, h) == \A n \in 1..Len(h) : InSegment(f, n)

Prefix(p, h) == Len(p) <= Len(h) /\ p = Upto(h, Len(p))

(* The checkpoints and the manifest, and what the callers rely on.         *)
Vouched(h) ==
    /\ manifest \in History /\ Prefix(manifest, h)
    /\ acked \in History /\ Prefix(acked, h) /\ Len(h) <= Len(acked) + 1
    /\ ckpt \in [DOMAIN ckpt -> [at : History, readable : BOOLEAN]]
    /\ DOMAIN ckpt \subseteq 1..count.ckpt
    /\ \A i \in DOMAIN ckpt : Prefix(ckpt[i].at, h) /\ Len(ckpt[i].at) <= Len(acked)

Tight(f, s) == f[s].linked /\ f[s].synced = Size(f, s)

(* The segment in which a power loss may take the last record of h.        *)
Loose(f, s, h) ==
    /\ \A t \in DOMAIN f : t <= s
    /\ s + Size(f, s) = Len(h) + 1
    /\ f[s].synced <= Size(f, s) /\ Size(f, s) <= f[s].synced + 1
    /\ f[s].linked \/ Size(f, s) <= 1

(* Nobody relies on the last record of h.                                  *)
InDoubt(h) == Len(manifest) < Len(h) /\ Len(acked) < Len(h)

Lasting(f, h) ==
    count.stop = 0 => \A s \in DOMAIN f :
        Tight(f, s) \/ (Loose(f, s, h) /\ (Size(f, s) = 0 \/ InDoubt(h)))

(* A writer that serves knows h and where its end is.                      *)
Writing(h) ==
    /\ h = last /\ arg \in Seq(Value)
    /\ \A s \in DOMAIN seg : ~seg[s].torn
    /\ Len(arg) = (IF pc = "write" THEN 1 ELSE 0)
    /\ IF pc \in {"sync", "manifest", "ack"} THEN Len(acked) < Len(h) ELSE Len(acked) = Len(h)
    /\ open # 0 => /\ open \in DOMAIN seg /\ \A s \in DOMAIN seg : s <= open
                   /\ open + Size(seg, open) = Len(h) + 1
    /\ pc = "sync" => open # 0
    /\ pc = "compact" => open = 0
    /\ pc \in {"sync", "manifest"} => Len(manifest) < Len(h)
    /\ count.stop = 0 => \A s \in DOMAIN seg :
         IF pc = "sync" THEN Tight(seg, s) \/ s = open
         ELSE IF pc = "manifest" THEN seg[s].synced = Size(seg, s)
         ELSE Tight(seg, s)

(* While segments are deleted, every readable checkpoint is past them.     *)
Compacting ==
    pc = "compact" => /\ DOMAIN ckpt # {}
                      /\ \A i \in DOMAIN ckpt : ckpt[i].readable => safe <= Len(ckpt[i].at)

Point == {"idle", "write", "sync", "manifest", "ack", "snapshot", "prune", "compact"}
Counts == [ckpt : Nat, stop : Nat, power : Nat, fail : Nat, rot : Nat]

Holds(h) ==
    /\ h \in History /\ count \in Counts /\ safe \in Nat /\ open \in Nat
    /\ pc \in Point /\ status \in {"healthy", "recovery_required", "down"}
    /\ status # "healthy" => pc = "idle" /\ open = 0 /\ arg = <<>>
    /\ status = "down" /\ count.stop = 0 => \A s \in DOMAIN seg : Tight(seg, s)
    /\ pc = "snapshot" => count.ckpt > 0 /\ count.ckpt \notin DOMAIN ckpt
    /\ pc = "prune" => count.ckpt \in DOMAIN ckpt
    /\ count.stop = 0 \/ count.power = 0
    /\ Layout(seg, h) /\ Complete(seg, ckpt, h) /\ Lasting(seg, h)
    /\ Vouched(h) /\ Compacting
    /\ status = "healthy" => Writing(h)

(* Where records were deleted, a checkpoint more than the media may spoil  *)
(* can be read.                                                            *)
Enough == (\E i, j \in Readable : i # j) \/ (Readable # {} /\ count.rot > 0)

Spare(h) ==
    /\ pc = "compact" => Enough
    /\ Whole(seg, h) \/ Enough
-----------------------------------------------------------------------------
(* Prefixes of a history.                                                  *)

LEMMA UptoIs ==
    ASSUME NEW h \in History, NEW n \in 0..Len(h)
    PROVE  /\ Upto(h, n) \in History /\ Len(Upto(h, n)) = n
           /\ \A i \in 1..n : Upto(h, n)[i] = h[i]
           /\ Upto(h, Len(h)) = h
  BY SubSeqProperties, SubSeqFull, LenProperties DEF Upto, History

(* Histories are equal if they have the same length and values.            *)
LEMMA SameHistory ==
    ASSUME NEW g \in History, NEW h \in History, Len(g) = Len(h),
           \A i \in 1..Len(g) : g[i] = h[i]
    PROVE  g = h
  BY SeqEqual DEF History

LEMMA UptoUpto ==
    ASSUME NEW h \in History, NEW m \in 0..Len(h), NEW n \in 0..m
    PROVE  Upto(Upto(h, m), n) = Upto(h, n)
<1> DEFINE g == Upto(h, m)
<1>1. g \in History /\ Len(g) = m /\ \A i \in 1..m : g[i] = h[i]
  BY UptoIs
<1>2. Len(h) \in Nat
  BY LenProperties DEF History
<1>3. n \in 0..Len(h) /\ n \in 0..Len(g)
  BY <1>1, <1>2
<1> HIDE DEF g
<1>4. /\ Upto(g, n) \in History /\ Len(Upto(g, n)) = n
      /\ \A i \in 1..n : Upto(g, n)[i] = g[i]
  BY <1>1, <1>3, UptoIs
<1>5. /\ Upto(h, n) \in History /\ Len(Upto(h, n)) = n
      /\ \A i \in 1..n : Upto(h, n)[i] = h[i]
  BY <1>3, UptoIs
<1>6. \A i \in 1..n : Upto(g, n)[i] = Upto(h, n)[i]
  BY <1>1, <1>4, <1>5
<1> QED BY <1>4, <1>5, <1>6, SameHistory DEF g

(* A record's predecessor.                                                 *)
LEMMA FrontIs ==
    ASSUME NEW h \in History, NEW n \in 1..Len(h)
    PROVE  Front(Upto(h, n)) = Upto(h, n - 1)
<1>1. Len(h) \in Nat
  BY LenProperties DEF History
<1>2. Len(Upto(h, n)) = n
  BY <1>1, UptoIs
<1>3. Upto(Upto(h, n), n - 1) = Upto(h, n - 1)
  BY <1>1, UptoUpto
<1> QED BY <1>2, <1>3 DEF Front, Upto

(* What a record adds.                                                     *)
LEMMA Longer ==
    ASSUME NEW h \in History, NEW a \in Seq(Value), Len(a) = 1
    PROVE  /\ h \o a \in History /\ Len(h \o a) = Len(h) + 1
           /\ \A n \in 0..Len(h) : Upto(h \o a, n) = Upto(h, n)
           /\ \E v \in Value : h \o a = Append(h, v)
<1> DEFINE g == h \o a
<1>1. Len(h) \in Nat
  BY LenProperties DEF History
<1>2. g \in History /\ Len(g) = Len(h) + 1 /\ \A i \in 1..Len(h) : g[i] = h[i]
  BY <1>1, ConcatProperties DEF History
<1>3. ASSUME NEW n \in 0..Len(h) PROVE Upto(g, n) = Upto(h, n)
  <2> HIDE DEF g
  <2>1. /\ Upto(g, n) \in History /\ Len(Upto(g, n)) = n
        /\ \A i \in 1..n : Upto(g, n)[i] = g[i]
    BY <1>1, <1>2, UptoIs
  <2>2. /\ Upto(h, n) \in History /\ Len(Upto(h, n)) = n
        /\ \A i \in 1..n : Upto(h, n)[i] = h[i]
    BY <1>1, UptoIs
  <2>3. \A i \in 1..n : Upto(g, n)[i] = Upto(h, n)[i]
    BY <1>1, <1>2, <2>1, <2>2
  <2> QED BY <2>1, <2>2, <2>3, SameHistory
<1>4. PICK v \in Value : a = <<v>>
  <2>1. a[1] \in Value /\ a = <<a[1]>>
    BY SeqEqual, LenProperties
  <2> QED BY <2>1
<1>5. g = Append(h, v)
  BY <1>4, AppendIsConcat DEF History
<1> QED BY <1>2, <1>3, <1>5

-----------------------------------------------------------------------------
(* The least and the greatest of a set of numbers.                         *)

(* By the well-foundedness of the finite sets: the numbers below the least *)
(* one are the smallest of these sets.                                     *)
LEMMA Least ==
    ASSUME NEW S \in SUBSET Nat, S # {}
    PROVE  \E n \in S : \A m \in S : n <= m
<1> DEFINE D(n) == {m \in S : m < n}
           T == {D(n) : n \in S}
<1>1. T \subseteq FiniteSubsetsOf(Nat)
  <2> SUFFICES ASSUME NEW n \in S PROVE D(n) \in FiniteSubsetsOf(Nat)
    OBVIOUS
  <2>1. IsFiniteSet(D(n))
    BY FS_BoundedSetOfNaturals
  <2> QED BY <2>1 DEF FiniteSubsetsOf
<1>2. PICK x \in T : \A y \in T : ~(<<y, x>> \in StrictSubsetOrdering(Nat))
  <2> DEFINE R == StrictSubsetOrdering(Nat)
             F == FiniteSubsetsOf(Nat)
  <2>1. IsWellFoundedOn(R, F)
    BY FS_StrictSubsetOrderingWellFounded
  <2>2. T # {} /\ T \subseteq F
    BY <1>1
  <2> HIDE DEF R, F, T
  <2>3. \E x \in T : \A y \in T : ~(<<y, x>> \in R)
    BY <2>1, <2>2, WFMin
  <2> QED BY <2>3 DEF R
<1>3. PICK n \in S : x = D(n)
  BY <1>2
<1>4. ASSUME NEW m \in S, m < n PROVE FALSE
  <2>1. D(m) \in T
    OBVIOUS
  <2>2. D(m) \subseteq D(n)
    <3> SUFFICES ASSUME NEW k \in S, k < m PROVE k < n
      OBVIOUS
    <3>1. k \in Nat /\ m \in Nat /\ n \in Nat
      OBVIOUS
    <3> QED BY <1>4, <3>1
  <2>3. m \in D(n) /\ m \notin D(m) /\ D(n) \subseteq Nat
    <3>1. m \in Nat /\ ~(m < m)
      OBVIOUS
    <3> QED BY <1>4, <3>1
  <2>4. <<D(m), x>> \in StrictSubsetOrdering(Nat)
    <3>1. D(m) \subseteq x /\ D(m) # x /\ x \subseteq Nat
      BY <1>3, <2>2, <2>3
    <3> HIDE DEF D
    <3> QED BY <3>1 DEF StrictSubsetOrdering
  <2> QED BY <1>2, <2>1, <2>4
<1> QED BY <1>4

LEMMA Greatest ==
    ASSUME NEW k \in Nat, NEW S \in SUBSET (0..k), S # {}
    PROVE  \E n \in S : \A m \in S : m <= n
<1> DEFINE T == {k - n : n \in S}
<1>1. T \subseteq Nat /\ T # {}
  <2>1. \A n \in S : k - n \in Nat
    OBVIOUS
  <2> QED BY <2>1
<1> HIDE DEF T
<1>2. PICK t \in T : \A u \in T : t <= u
  BY <1>1, Least
<1>3. PICK n \in S : t = k - n
  BY <1>2 DEF T
<1>4. ASSUME NEW m \in S PROVE m <= n
  <2>1. k - m \in T
    BY DEF T
  <2> QED BY <1>2, <1>3, <2>1
<1> QED BY <1>4

(* Max and Min are the greatest and the least, where there is one.         *)
LEMMA MaxIs ==
    ASSUME NEW S \in SUBSET Nat, NEW n \in S, \A m \in S : m <= n
    PROVE  Max(S) = n
<1>1. \A y \in S : n >= y
  OBVIOUS
<1>2. Max(S) \in S /\ \A y \in S : Max(S) >= y
  BY <1>1 DEF Max
<1> HIDE DEF Max
<1>3. Max(S) \in Nat /\ n \in Nat /\ Max(S) <= n /\ n <= Max(S)
  BY <1>2
<1> QED BY <1>3

LEMMA MinIs ==
    ASSUME NEW S \in SUBSET Nat, S # {}
    PROVE  Min(S) \in S /\ \A y \in S : Min(S) <= y
<1>1. \E n \in S : \A m \in S : n <= m
  BY Least
<1> QED BY <1>1 DEF Min

(* A set of checkpoints has a newest one (by sequence, then by name).      *)
LEMMA NewestIs ==
    ASSUME NEW h, h \in History, Vouched(h), count.ckpt \in Nat,
           NEW I \in SUBSET DOMAIN ckpt, I # {}
    PROVE  Newest(I) \in I /\ \A j \in I \ {Newest(I)} : Before(j, Newest(I))
<1> DEFINE L(i) == Len(ckpt[i].at)
<1>1. Len(h) \in Nat /\ I \subseteq 1..count.ckpt
  BY LenProperties DEF History, Vouched
<1>2. \A i \in I : L(i) \in 0..Len(h)
  <2> SUFFICES ASSUME NEW i \in I PROVE L(i) \in 0..Len(h)
    OBVIOUS
  <2>1. ckpt[i].at \in History
    BY DEF Vouched
  <2>2. L(i) \in Nat
    BY <2>1, LenProperties DEF History
  <2> QED BY <1>1, <2>2 DEF Vouched, Prefix
<1>3. PICK n \in {L(i) : i \in I} : \A m \in {L(i) : i \in I} : m <= n
  <2> DEFINE N == {L(i) : i \in I}
  <2>1. N # {} /\ N \subseteq 0..Len(h)
    BY <1>2
  <2> HIDE DEF N
  <2>2. \E n \in N : \A m \in N : m <= n
    BY <1>1, <2>1, Greatest
  <2> QED BY <2>2 DEF N
<1> DEFINE J == {i \in I : L(i) = n}
<1>4. J # {} /\ J \subseteq 0..count.ckpt
  BY <1>1, <1>3
<1>5. PICK i \in J : \A j \in J : j <= i
  BY <1>4, Greatest
<1>6. ASSUME NEW j \in I \ {i} PROVE Before(j, i)
  <2>1. L(j) <= n /\ L(i) = n /\ L(j) \in Nat /\ n \in Nat
    BY <1>1, <1>2, <1>3, <1>5
  <2>2. CASE L(j) = n
    <3>1. j <= i /\ j \in Nat /\ i \in Nat /\ j # i
      BY <1>1, <1>5, <2>2
    <3> QED BY <2>1, <2>2, <3>1 DEF Before
  <2> QED BY <2>1, <2>2 DEF Before
<1>7. \E k \in I : \A j \in I \ {k} : Before(j, k)
  BY <1>5, <1>6
<1> QED BY <1>7 DEF Newest

-----------------------------------------------------------------------------
(* What _recover returns.                                                  *)

Numbered(h) == h \in History /\ count.ckpt \in Nat /\ Layout(seg, h) /\ Vouched(h)

(* The base is a prefix of the history, and of the newest readable         *)
(* checkpoint, if there is one.                                            *)
LEMMA BaseIs ==
    ASSUME NEW h, Numbered(h)
    PROVE  /\ Len(h) \in Nat /\ Len(Base) \in 0..Len(h) /\ Base = Upto(h, Len(Base))
           /\ Readable # {} => \E i \in Readable : Base = ckpt[i].at
           /\ Readable = {} => Len(Base) = 0
<1>1. Len(h) \in Nat
  BY LenProperties DEF History, Numbered
<1>2. CASE Readable = {}
  <2>1. Base = <<>>
    BY <1>2 DEF Base
  <2>2. Upto(h, 0) = <<>> /\ Len(<<>>) = 0
    BY SubSeqEmpty DEF Upto
  <2> QED BY <1>1, <1>2, <2>1, <2>2
<1>3. CASE Readable # {}
  <2> DEFINE i == Newest(Readable)
  <2>1. i \in Readable
    BY <1>3, NewestIs DEF Numbered, Readable
  <2>2. Base = ckpt[i].at
    BY <1>3 DEF Base
  <2> HIDE DEF i
  <2>3. i \in DOMAIN ckpt
    BY <2>1 DEF Readable
  <2>4. ckpt[i].at \in History /\ Prefix(ckpt[i].at, h)
    BY <2>3 DEF Numbered, Vouched
  <2>5. Len(ckpt[i].at) \in Nat
    BY <2>4, LenProperties DEF History
  <2> QED BY <1>1, <1>3, <2>1, <2>2, <2>4, <2>5 DEF Prefix
<1> QED BY <1>2, <1>3

(* Record i of segment s is the history up to s + i - 1.                   *)
LEMMA RecIs ==
    ASSUME NEW h, Numbered(h), NEW s \in DOMAIN seg, NEW i \in 1..Size(seg, s)
    PROVE  /\ <<s, i>> \in Records
           /\ s \in Nat \ {0} /\ i \in Nat \ {0} /\ Size(seg, s) \in Nat
           /\ s + i - 1 \in 1..Len(h)
           /\ Rec(<<s, i>>) = Upto(h, s + i - 1) /\ Len(Rec(<<s, i>>)) = s + i - 1
<1>1. Len(h) \in Nat
  BY LenProperties DEF History, Numbered
<1>2. seg[s].recs \in Seq(History) /\ s \in Nat \ {0}
  BY DEF Numbered, Layout, Segment
<1>3. Size(seg, s) \in Nat /\ s + Size(seg, s) <= Len(h) + 1
  BY <1>2, LenProperties DEF Size, Numbered, Layout
<1>4. s + i - 1 \in 1..Len(h) /\ i \in Nat \ {0}
  BY <1>1, <1>2, <1>3
<1>5. Rec(<<s, i>>) = Upto(h, s + i - 1)
  <2>1. seg[s].recs[i] = Upto(h, s + i - 1)
    BY DEF Numbered, Layout
  <2> QED BY <2>1 DEF Rec
<1>6. Len(Upto(h, s + i - 1)) = s + i - 1
  <2>1. s + i - 1 \in 0..Len(h)
    BY <1>1, <1>4
  <2> QED BY <2>1, UptoIs DEF Numbered
<1>7. <<s, i>> \in Records
  BY DEF Records, Size
<1> QED BY <1>2, <1>3, <1>4, <1>5, <1>6, <1>7

(* Records behind the base, by number: each number once, none left out.    *)
LEMMA ReplayedIs ==
    ASSUME NEW h, Numbered(h), Complete(seg, ckpt, h), Readable # {} \/ Whole(seg, h)
    PROVE  /\ \A p \in Replayed : /\ Len(Rec(p)) \in (Len(Base) + 1)..Len(h)
                                  /\ Rec(p) = Upto(h, Len(Rec(p)))
           /\ \A p, q \in Replayed : Len(Rec(p)) = Len(Rec(q)) => p = q
           /\ \A n \in (Len(Base) + 1)..Len(h) : \E p \in Replayed : Len(Rec(p)) = n
<1>1. /\ Len(h) \in Nat /\ Len(Base) \in 0..Len(h)
      /\ Readable # {} => \E i \in Readable : Base = ckpt[i].at
  BY BaseIs
<1>2. ASSUME NEW p \in Replayed
      PROVE  \E s \in DOMAIN seg : \E i \in 1..Size(seg, s) : p = <<s, i>>
  BY DEF Replayed, Records, Size
<1>3. ASSUME NEW p \in Replayed
      PROVE  /\ Len(Rec(p)) \in (Len(Base) + 1)..Len(h)
             /\ Rec(p) = Upto(h, Len(Rec(p)))
  <2>1. PICK s \in DOMAIN seg : \E i \in 1..Size(seg, s) : p = <<s, i>>
    BY <1>2
  <2>2. PICK i \in 1..Size(seg, s) : p = <<s, i>>
    BY <2>1
  <2>3. Len(Rec(p)) > Len(Base)
    BY DEF Replayed
  <2> QED BY <1>1, <2>2, <2>3, RecIs
<1>4. ASSUME NEW p \in Replayed, NEW q \in Replayed, Len(Rec(p)) = Len(Rec(q))
      PROVE  p = q
  <2>1. PICK s \in DOMAIN seg : \E i \in 1..Size(seg, s) : p = <<s, i>>
    BY <1>2
  <2>2. PICK i \in 1..Size(seg, s) : p = <<s, i>>
    BY <2>1
  <2>3. PICK t \in DOMAIN seg : \E j \in 1..Size(seg, t) : q = <<t, j>>
    BY <1>2
  <2>4. PICK j \in 1..Size(seg, t) : q = <<t, j>>
    BY <2>3
  <2>5. /\ s \in Nat /\ i \in Nat \ {0} /\ Size(seg, s) \in Nat /\ Len(Rec(p)) = s + i - 1
        /\ i <= Size(seg, s)
    BY <2>2, RecIs
  <2>6. /\ t \in Nat /\ j \in Nat \ {0} /\ Size(seg, t) \in Nat /\ Len(Rec(q)) = t + j - 1
        /\ j <= Size(seg, t)
    BY <2>4, RecIs
  <2>7. (s < t => s + Size(seg, s) <= t) /\ (t < s => t + Size(seg, t) <= s)
    BY DEF Numbered, Layout
  <2>8. s + i - 1 = t + j - 1
    BY <1>4, <2>5, <2>6, Zenon
  <2>9. s = t /\ i = j
    BY <2>5, <2>6, <2>7, <2>8
  <2> QED BY <2>2, <2>4, <2>9
<1>5. ASSUME NEW n \in (Len(Base) + 1)..Len(h)
      PROVE  \E p \in Replayed : Len(Rec(p)) = n
  <2>1. n \in 1..Len(h) /\ n > Len(Base) /\ n \in Nat
    BY <1>1
  <2>2. InSegment(seg, n)
    <3>1. CASE Whole(seg, h)
      BY <2>1, <3>1 DEF Whole
    <3>2. CASE Readable # {}
      <4>1. PICK i \in Readable : Base = ckpt[i].at
        BY <1>1, <3>2
      <4>2. i \in DOMAIN ckpt /\ ckpt[i].readable /\ ~(n <= Len(ckpt[i].at))
        BY <1>1, <2>1, <4>1 DEF Readable
      <4> QED BY <2>1, <4>2 DEF Complete
    <3> QED BY <3>1, <3>2
  <2>3. PICK s \in DOMAIN seg : s <= n /\ n < s + Size(seg, s)
    BY <2>2 DEF InSegment
  <2>4. s \in Nat \ {0} /\ seg[s].recs \in Seq(History)
    BY DEF Numbered, Layout, Segment
  <2>5. Size(seg, s) \in Nat
    BY <2>4, LenProperties DEF Size
  <2> DEFINE i == n - s + 1
  <2>6. i \in 1..Size(seg, s) /\ s + i - 1 = n
    BY <2>1, <2>3, <2>4, <2>5
  <2> HIDE DEF i
  <2>7. <<s, i>> \in Records /\ Len(Rec(<<s, i>>)) = n
    BY <2>6, RecIs
  <2> QED BY <2>1, <2>7 DEF Replayed
<1> QED BY <1>3, <1>4, <1>5

LEMMA Recovery ==
    ASSUME NEW h, Numbered(h), Complete(seg, ckpt, h), Readable # {} \/ Whole(seg, h)
    PROVE  /\ RecoveredAt = Len(h) /\ RecoveredHistory = h
           /\ OnlyTailTorn /\ Chained /\ ManifestFits
<1> DEFINE b == Len(Base)
           I == (b + 1)..Len(h)
           f == [p \in Replayed |-> Len(Rec(p))]
<1>1. Len(h) \in Nat /\ b \in 0..Len(h) /\ Base = Upto(h, b) /\ h \in History
  BY BaseIs DEF Numbered
<1>2. /\ \A p \in Replayed : Len(Rec(p)) \in I /\ Rec(p) = Upto(h, Len(Rec(p)))
      /\ \A p, q \in Replayed : Len(Rec(p)) = Len(Rec(q)) => p = q
      /\ \A n \in I : \E p \in Replayed : Len(Rec(p)) = n
  BY ReplayedIs
<1> HIDE DEF b
<1>3. IsFiniteSet(I) /\ Cardinality(I) = Len(h) - b
  <2>1. b + 1 \in Int /\ Len(h) \in Int /\ b \in Nat /\ b <= Len(h)
    BY <1>1
  <2>2. /\ IsFiniteSet(I)
        /\ Cardinality(I) = IF b + 1 > Len(h) THEN 0 ELSE Len(h) - (b + 1) + 1
    BY <2>1, FS_Interval
  <2> QED BY <2>1, <2>2
<1>4. RecoveredAt = Len(h)
  <2>1. f \in Injection(Replayed, I) /\ f \in Surjection(Replayed, I)
    BY <1>2 DEF Injection, Surjection, IsInjective
  <2>2. Cardinality(Replayed) = Cardinality(I)
    BY <1>3, <2>1, FS_Injection
  <2> QED BY <1>1, <1>3, <2>2 DEF RecoveredAt, b
<1>5. RecoveredHistory = h
  <2>1. CASE Replayed = {}
    <3>1. b = Len(h)
      BY <1>1, <1>2, <2>1
    <3> QED BY <1>1, <2>1, <3>1, UptoIs DEF RecoveredHistory
  <2>2. CASE Replayed # {}
    <3>1. Len(h) \in I
      BY <1>1, <1>2, <2>2
    <3>2. PICK p \in Replayed : Len(Rec(p)) = Len(h)
      BY <1>2, <3>1
    <3>3. \A q \in Replayed : Len(Rec(q)) <= Len(Rec(p))
      BY <1>1, <1>2, <3>2
    <3> DEFINE m == CHOOSE q \in Replayed : \A r \in Replayed : Len(Rec(r)) <= Len(Rec(q))
    <3>4. m \in Replayed /\ \A r \in Replayed : Len(Rec(r)) <= Len(Rec(m))
      BY <3>3
    <3>5. RecoveredHistory = Rec(m)
      BY <2>2 DEF RecoveredHistory
    <3> HIDE DEF m
    <3>6. Len(Rec(m)) = Len(h)
      BY <1>1, <1>2, <3>2, <3>4
    <3> QED BY <1>1, <1>2, <3>4, <3>5, <3>6, UptoIs
  <2> QED BY <2>1, <2>2
<1>6. Chained
  <2>1. {Len(Rec(p)) : p \in Replayed} = I
    BY <1>2
  <2>2. ASSUME NEW p \in Replayed
        PROVE  Front(Rec(p)) = Base \/ \E q \in Replayed : Front(Rec(p)) = Rec(q)
    <3> DEFINE n == Len(Rec(p))
    <3>1. n \in I /\ Rec(p) = Upto(h, n)
      BY <1>2
    <3> HIDE DEF n
    <3>2. n \in 1..Len(h) /\ n - 1 \in b..Len(h)
      BY <1>1, <3>1
    <3>3. Front(Rec(p)) = Upto(h, n - 1)
      BY <1>1, <3>1, <3>2, FrontIs
    <3>4. CASE n - 1 = b
      BY <1>1, <3>3, <3>4
    <3>5. CASE n - 1 \in I
      BY <1>2, <3>3, <3>5
    <3> QED BY <1>1, <3>2, <3>4, <3>5
  <2> QED BY <1>4, <2>1, <2>2 DEF Chained, b
<1>7. ManifestFits
  <2>1. manifest \in History /\ Prefix(manifest, h)
    BY DEF Numbered, Vouched
  <2>2. Len(manifest) = Len(h) => manifest = h
    BY <1>1, <2>1, UptoIs DEF Prefix
  <2> QED BY <1>4, <1>5, <2>1, <2>2 DEF ManifestFits, Prefix
<1>8. OnlyTailTorn
  <2> SUFFICES ASSUME NEW s \in DOMAIN seg, seg[s].torn PROVE s = Max(DOMAIN seg)
    BY DEF OnlyTailTorn
  <2>1. DOMAIN seg \subseteq Nat /\ \A t \in DOMAIN seg : t <= s
    BY DEF Numbered, Layout
  <2> QED BY <2>1, MaxIs
<1> QED BY <1>4, <1>5, <1>6, <1>7, <1>8

-----------------------------------------------------------------------------
(* What the writer does to the files.                                      *)

LEMMA SegmentFields ==
    ASSUME NEW f, NEW h, Layout(f, h), NEW s \in DOMAIN f
    PROVE  /\ f[s] \in Segment /\ f[s].recs \in Seq(History) /\ f[s].synced \in Nat
           /\ f[s].torn \in BOOLEAN /\ f[s].linked \in BOOLEAN
           /\ s \in Nat \ {0} /\ Size(f, s) \in Nat
<1>1. f[s] \in Segment /\ s \in Nat \ {0}
  BY DEF Layout
<1>2. /\ f[s].recs \in Seq(History) /\ f[s].synced \in Nat
      /\ f[s].torn \in BOOLEAN /\ f[s].linked \in BOOLEAN
  BY <1>1 DEF Segment
<1> QED BY <1>1, <1>2, LenProperties DEF Size

(* A step that changes no record.                                          *)
SameRecords(f, g) ==
    /\ DOMAIN g = DOMAIN f /\ g \in [DOMAIN g -> Segment]
    /\ \A s \in DOMAIN f : g[s].recs = f[s].recs /\ (g[s].torn => f[s].torn)

LEMMA SameLayout ==
    ASSUME NEW f, NEW g, NEW h, NEW c, Layout(f, h), SameRecords(f, g)
    PROVE  /\ Layout(g, h) /\ \A s \in DOMAIN f : Size(g, s) = Size(f, s)
           /\ \A n : InSegment(g, n) <=> InSegment(f, n)
           /\ Complete(f, c, h) => Complete(g, c, h)
           /\ Whole(f, h) => Whole(g, h)
<1>1. \A s \in DOMAIN f : Size(g, s) = Size(f, s)
  BY DEF SameRecords, Size
<1>2. Layout(g, h)
  BY <1>1 DEF SameRecords, Layout
<1>3. \A n : InSegment(g, n) <=> InSegment(f, n)
  BY <1>1 DEF SameRecords, InSegment
<1> QED BY <1>1, <1>2, <1>3 DEF Complete, Whole

LEMMA LinkedIs ==
    ASSUME NEW f, NEW h, Layout(f, h)
    PROVE  /\ SameRecords(f, Linked(f)) /\ DOMAIN Linked(f) = DOMAIN f
           /\ \A s \in DOMAIN f : /\ Linked(f)[s].linked
                                  /\ Linked(f)[s].synced = f[s].synced
                                  /\ Linked(f)[s].torn = f[s].torn
<1>1. \A s \in DOMAIN f : f[s] \in Segment
  BY SegmentFields
<1> QED BY <1>1 DEF SameRecords, Linked, Segment

LEMMA FlushedIs ==
    ASSUME NEW h, Layout(seg, h), open # 0 => open \in DOMAIN seg
    PROVE  /\ SameRecords(seg, Flushed) /\ DOMAIN Flushed = DOMAIN seg
           /\ \A s \in DOMAIN seg :
                /\ Flushed[s].linked = seg[s].linked /\ Flushed[s].torn = seg[s].torn
                /\ Flushed[s].synced = IF s = open THEN Size(seg, s) ELSE seg[s].synced
<1>1. \A s \in DOMAIN seg : /\ seg[s] \in Segment /\ Size(seg, s) \in Nat /\ s # 0
  BY SegmentFields
<1>2. DOMAIN Flushed = DOMAIN seg
  BY DEF Flushed
<1>3. ASSUME NEW s \in DOMAIN seg
      PROVE  Flushed[s] = IF s = open THEN [seg[s] EXCEPT !.synced = Size(seg, s)] ELSE seg[s]
  BY <1>1 DEF Flushed, Size
<1>4. ASSUME NEW s \in DOMAIN seg
      PROVE  /\ Flushed[s] \in Segment /\ Flushed[s].recs = seg[s].recs
             /\ Flushed[s].linked = seg[s].linked /\ Flushed[s].torn = seg[s].torn
             /\ Flushed[s].synced = IF s = open THEN Size(seg, s) ELSE seg[s].synced
  BY <1>1, <1>3 DEF Segment
<1>5. Flushed = [s \in DOMAIN seg |-> Flushed[s]]
  BY DEF Flushed, Layout
<1> HIDE DEF Flushed
<1> QED BY <1>2, <1>4, <1>5 DEF SameRecords

(* _ensure_segment leaves the records alone and opens the last segment.    *)
LEMMA OpenedIs ==
    ASSUME NEW h, h \in History, Layout(seg, h), Writing(h)
    PROVE  /\ DOMAIN Opened = DOMAIN seg \cup {Target}
           /\ Opened \in [DOMAIN Opened -> Segment] /\ Target \in Nat \ {0}
           /\ Target + Size(Opened, Target) = Len(h) + 1
           /\ \A s \in DOMAIN Opened : s <= Target /\ ~Opened[s].torn
           /\ \A s \in DOMAIN seg : /\ Opened[s].recs = seg[s].recs
                                    /\ Opened[s].linked = seg[s].linked
                                    /\ Tight(seg, s) => Tight(Opened, s)
           /\ Target \notin DOMAIN seg => Opened[Target] = NewSegment
<1> DEFINE f == IF Full THEN Flushed ELSE seg
<1>1. Len(h) \in Nat
  BY LenProperties DEF History
<1>2. \A s \in DOMAIN seg : seg[s] \in Segment /\ Size(seg, s) \in Nat /\ s \in Nat \ {0}
  BY SegmentFields
<1>3. /\ DOMAIN f = DOMAIN seg /\ f \in [DOMAIN f -> Segment]
      /\ \A s \in DOMAIN seg : /\ f[s].recs = seg[s].recs /\ f[s].linked = seg[s].linked
                               /\ ~f[s].torn
                               /\ Tight(seg, s) => Tight(f, s)
  <2>1. CASE Full
    <3>1. f = Flushed
      BY <2>1
    <3>2. open # 0 => open \in DOMAIN seg
      BY DEF Writing
    <3> HIDE DEF f
    <3>3. DOMAIN f = DOMAIN seg /\ SameRecords(seg, f)
      BY <3>1, <3>2, FlushedIs
    <3>4. \A s \in DOMAIN seg :
                /\ f[s].linked = seg[s].linked /\ f[s].torn = seg[s].torn
                /\ f[s].synced = IF s = open THEN Size(seg, s) ELSE seg[s].synced
      BY <3>1, <3>2, FlushedIs
    <3> QED BY <3>3, <3>4 DEF SameRecords, Tight, Size, Writing
  <2>2. CASE ~Full
    BY <2>2 DEF Layout, Writing
  <2> QED BY <2>1, <2>2
<1>4. Target \in Nat \ {0} /\ Target <= Len(h) + 1
  <2>1. CASE open = 0 \/ Full
    BY <1>1, <2>1 DEF Target, Writing
  <2>2. CASE open # 0 /\ ~Full
    BY <1>1, <1>2, <2>2 DEF Target, Writing
  <2> QED BY <2>1, <2>2
<1>5. \A s \in DOMAIN seg : s + Size(seg, s) <= Len(h) + 1
  BY DEF Layout
<1>6. Target \in DOMAIN seg => Target + Size(seg, Target) = Len(h) + 1
  <2>1. CASE open = 0 \/ Full
    BY <1>1, <1>2, <1>5, <2>1 DEF Target, Writing
  <2>2. CASE open # 0 /\ ~Full
    BY <2>2 DEF Target, Writing
  <2> QED BY <2>1, <2>2
<1>7. \A s \in DOMAIN seg : s <= Target
  <2>1. CASE open = 0 \/ Full
    BY <1>1, <1>2, <1>5, <2>1 DEF Target, Writing
  <2>2. CASE open # 0 /\ ~Full
    BY <2>2 DEF Target, Writing
  <2> QED BY <2>1, <2>2
<1>8. Target \notin DOMAIN seg => Target = Len(h) + 1
  BY DEF Target, Writing
<1>9. NewSegment \in Segment /\ ~NewSegment.torn /\ Len(NewSegment.recs) = 0
  BY DEF NewSegment, Segment
<1>10. Opened = [s \in DOMAIN f \cup {Target} |-> IF s \in DOMAIN f THEN f[s] ELSE NewSegment]
  BY DEF Opened
<1> HIDE DEF f
<1>11. DOMAIN Opened = DOMAIN seg \cup {Target} /\ \A s \in DOMAIN seg : Opened[s] = f[s]
  BY <1>3, <1>10
<1>12. Target \notin DOMAIN seg => Opened[Target] = NewSegment
  BY <1>3, <1>10
<1>13. Opened \in [DOMAIN Opened -> Segment]
  <2>1. \A s \in DOMAIN seg : f[s] \in Segment
    BY <1>3
  <2> QED BY <1>3, <1>9, <1>10, <2>1
<1>14. Target + Size(Opened, Target) = Len(h) + 1
  <2>1. CASE Target \in DOMAIN seg
    BY <1>3, <1>6, <1>11, <2>1 DEF Size
  <2>2. CASE Target \notin DOMAIN seg
    <3>1. Size(Opened, Target) = 0
      BY <1>9, <1>12, <2>2 DEF Size
    <3> QED BY <1>1, <1>8, <2>2, <3>1
  <2> QED BY <2>1, <2>2
<1>15. \A s \in DOMAIN Opened : s <= Target /\ ~Opened[s].torn
  BY <1>3, <1>4, <1>7, <1>9, <1>11, <1>12
<1>16. \A s \in DOMAIN seg : /\ Opened[s].recs = seg[s].recs
                             /\ Opened[s].linked = seg[s].linked
                             /\ Tight(seg, s) => Tight(Opened, s)
  BY <1>3, <1>11 DEF Tight, Size
<1> QED BY <1>4, <1>11, <1>12, <1>13, <1>14, <1>15, <1>16

Added(f, t, r) == [f EXCEPT ![t].recs = Append(@, r)]

Grown(f, w, t, g) ==
    /\ DOMAIN w = DOMAIN f /\ Layout(w, g) /\ Size(w, t) = Size(f, t) + 1
    /\ \A s \in DOMAIN f : /\ w[s].synced = f[s].synced /\ w[s].linked = f[s].linked
                           /\ w[s].torn = f[s].torn
                           /\ s # t => w[s] = f[s]
    /\ \A n \in Nat : InSegment(f, n) => InSegment(w, n)
    /\ InSegment(w, Len(g))

(* A record goes to the end of the last segment.                           *)
LEMMA AppendIs ==
    ASSUME NEW f, NEW h, h \in History, Layout(f, h), NEW a \in Seq(Value), Len(a) = 1,
           NEW t \in DOMAIN f, \A s \in DOMAIN f : s <= t, t + Size(f, t) = Len(h) + 1,
           NEW w, w = Added(f, t, h \o a)
    PROVE  Grown(f, w, t, h \o a)
<1> DEFINE g == h \o a
<1>1. Len(h) \in Nat /\ g \in History /\ Len(g) = Len(h) + 1
  BY Longer, LenProperties DEF History
<1>2. \A n \in 0..Len(h) : Upto(g, n) = Upto(h, n)
  BY Longer
<1> HIDE DEF g
<1>3. Upto(g, Len(g)) = g
  <2>1. Len(g) \in 0..Len(g)
    BY <1>1
  <2> QED BY <1>1, <2>1, UptoIs
<1>4. \A s \in DOMAIN f : /\ f[s] \in Segment /\ f[s].recs \in Seq(History)
                          /\ s \in Nat \ {0} /\ Size(f, s) \in Nat
  BY SegmentFields
<1>5. /\ DOMAIN w = DOMAIN f /\ \A s \in DOMAIN f : s # t => w[s] = f[s]
      /\ w[t] = [f[t] EXCEPT !.recs = Append(f[t].recs, g)]
      /\ w = [s \in DOMAIN f |-> w[s]]
  BY DEF Layout, g, Added
<1>6. /\ Append(f[t].recs, g) \in Seq(History) /\ Len(Append(f[t].recs, g)) = Size(f, t) + 1
      /\ \A i \in 1..Size(f, t) : Append(f[t].recs, g)[i] = f[t].recs[i]
      /\ Append(f[t].recs, g)[Size(f, t) + 1] = g
  BY <1>1, <1>4, AppendProperties DEF Size
<1>7. /\ w[t] \in Segment /\ w[t].recs = Append(f[t].recs, g) /\ w[t].synced = f[t].synced
      /\ w[t].linked = f[t].linked /\ w[t].torn = f[t].torn
  BY <1>4, <1>5, <1>6 DEF Segment
<1>8. Size(w, t) = Size(f, t) + 1 /\ \A s \in DOMAIN f : s # t => Size(w, s) = Size(f, s)
  BY <1>5, <1>6, <1>7 DEF Size
<1>9. ASSUME NEW s \in DOMAIN f, NEW i \in 1..Size(w, s)
      PROVE  w[s].recs[i] = Upto(g, s + i - 1)
  <2>1. s + Size(f, s) <= Len(h) + 1 /\ \A j \in 1..Size(f, s) : f[s].recs[j] = Upto(h, s + j - 1)
    BY DEF Layout
  <2>2. CASE i <= Size(f, s)
    <3>1. i \in 1..Size(f, s) /\ s + i - 1 \in 0..Len(h)
      BY <1>1, <1>4, <1>8, <2>1, <2>2
    <3>2. w[s].recs[i] = f[s].recs[i]
      <4>1. CASE s = t
        BY <1>6, <1>7, <3>1, <4>1
      <4> QED BY <1>5, <4>1
    <3> QED BY <1>2, <2>1, <3>1, <3>2
  <2>3. CASE ~(i <= Size(f, s))
    <3>1. s = t
      <4>1. s # t => i \in 1..Size(f, s)
        BY <1>8
      <4> QED BY <1>4, <2>3, <4>1
    <3>2. i = Size(f, t) + 1
      BY <1>4, <1>8, <2>3, <3>1
    <3>3. t + i - 1 = Len(g)
      BY <1>1, <1>4, <3>2
    <3> QED BY <1>3, <1>6, <1>7, <3>1, <3>2, <3>3
  <2> QED BY <2>2, <2>3
<1>10. Layout(w, g)
  <2>1. DOMAIN w \subseteq Nat \ {0} /\ w \in [DOMAIN w -> Segment]
    BY <1>4, <1>5, <1>7
  <2>2. \A s \in DOMAIN w : s + Size(w, s) <= Len(g) + 1
    <3> SUFFICES ASSUME NEW s \in DOMAIN f PROVE s + Size(w, s) <= Len(g) + 1
      BY <1>5
    <3>1. s + Size(f, s) <= Len(h) + 1
      BY DEF Layout
    <3>2. Size(w, s) = Size(f, s) \/ Size(w, s) = Size(f, s) + 1
      BY <1>8
    <3> QED BY <1>1, <1>4, <3>1, <3>2
  <2>3. \A s \in DOMAIN w : w[s].torn => \A r \in DOMAIN w : r <= s
    BY <1>5, <1>7 DEF Layout
  <2>4. \A r, s \in DOMAIN w : r < s => r + Size(w, r) <= s
    <3> SUFFICES ASSUME NEW r \in DOMAIN f, NEW s \in DOMAIN f, r < s PROVE r + Size(w, r) <= s
      BY <1>5
    <3>1. r # t
      BY <1>4
    <3> QED BY <1>8, <3>1 DEF Layout
  <2> QED BY <1>5, <1>9, <2>1, <2>2, <2>3, <2>4 DEF Layout
<1>11. \A n \in Nat : InSegment(f, n) => InSegment(w, n)
  <2> SUFFICES ASSUME NEW n \in Nat, NEW s \in DOMAIN f, s <= n, n < s + Size(f, s)
               PROVE  n < s + Size(w, s)
    BY <1>5 DEF InSegment
  <2>1. s \in Nat /\ Size(f, s) \in Nat /\ (Size(w, s) = Size(f, s) \/ Size(w, s) = Size(f, s) + 1)
    BY <1>4, <1>8
  <2> QED BY <2>1
<1>12. InSegment(w, Len(g))
  <2>1. t <= Len(g) /\ Len(g) < t + Size(w, t)
    BY <1>1, <1>4, <1>8
  <2> QED BY <1>5, <2>1 DEF InSegment
<1> QED BY <1>5, <1>7, <1>8, <1>10, <1>11, <1>12 DEF Grown, g

(* What may have reached the files, and the history it holds.              *)
Image(now, h, g) ==
    /\ g \in History /\ Layout(now, g) /\ Complete(now, ckpt, g) /\ Lasting(now, g)
    /\ Whole(seg, h) => Whole(now, g)
    /\ g = h \/ (Len(acked) = Len(h) /\ \E v \in Value : g = Append(h, v))

(* Opening a segment changes no record.                                    *)
LEMMA OpenedImage ==
    ASSUME NEW h, Holds(h), status = "healthy", pc = "write"
    PROVE  /\ Image(Opened, h, h) /\ Target \in DOMAIN Opened
           /\ count.stop = 0 => \A s \in DOMAIN Opened : s # Target => Tight(Opened, s)
           /\ count.stop = 0 => Tight(Opened, Target) \/ Opened[Target] = NewSegment
<1>1. h \in History /\ Layout(seg, h) /\ Writing(h) /\ Complete(seg, ckpt, h) /\ Len(h) \in Nat
  BY LenProperties DEF Holds, History
<1>2. /\ DOMAIN Opened = DOMAIN seg \cup {Target}
      /\ Opened \in [DOMAIN Opened -> Segment] /\ Target \in Nat \ {0}
      /\ Target + Size(Opened, Target) = Len(h) + 1
      /\ \A s \in DOMAIN Opened : s <= Target /\ ~Opened[s].torn
      /\ \A s \in DOMAIN seg : /\ Opened[s].recs = seg[s].recs
                               /\ Opened[s].linked = seg[s].linked
                               /\ Tight(seg, s) => Tight(Opened, s)
      /\ Target \notin DOMAIN seg => Opened[Target] = NewSegment
  BY <1>1, OpenedIs
<1>3. \A s \in DOMAIN seg : Size(Opened, s) = Size(seg, s) /\ Size(seg, s) \in Nat /\ s \in Nat \ {0}
  BY <1>1, <1>2, SegmentFields DEF Size
<1>4. Target \notin DOMAIN seg => /\ Size(Opened, Target) = 0 /\ Target = Len(h) + 1
                                  /\ Opened[Target].synced = 0
  <2> SUFFICES ASSUME Target \notin DOMAIN seg
               PROVE  /\ Size(Opened, Target) = 0 /\ Target = Len(h) + 1
                      /\ Opened[Target].synced = 0
    OBVIOUS
  <2>1. Size(Opened, Target) = 0 /\ Opened[Target].synced = 0
    BY <1>2 DEF Size, NewSegment
  <2> QED BY <1>1, <1>2, <2>1
<1>5. Layout(Opened, h)
  <2>1. DOMAIN Opened \subseteq Nat \ {0}
    BY <1>2, <1>3
  <2>2. ASSUME NEW s \in DOMAIN Opened
        PROVE  /\ s + Size(Opened, s) <= Len(h) + 1
               /\ \A i \in 1..Size(Opened, s) : Opened[s].recs[i] = Upto(h, s + i - 1)
    <3>1. CASE s \in DOMAIN seg
      BY <1>1, <1>2, <1>3, <3>1 DEF Layout
    <3>2. CASE s = Target /\ Target \notin DOMAIN seg
      BY <1>1, <1>2, <1>4, <3>2
    <3> QED BY <1>2, <3>1, <3>2
  <2>3. ASSUME NEW s \in DOMAIN Opened, NEW t \in DOMAIN Opened, s < t
        PROVE  s + Size(Opened, s) <= t
    <3>1. s \in DOMAIN seg
      BY <1>2, <2>1, <2>3
    <3>2. CASE t \in DOMAIN seg
      BY <1>1, <1>3, <2>3, <3>1, <3>2 DEF Layout
    <3>3. CASE t = Target /\ Target \notin DOMAIN seg
      BY <1>1, <1>3, <1>4, <3>1, <3>3 DEF Layout
    <3> QED BY <1>2, <3>2, <3>3
  <2> QED BY <1>2, <2>1, <2>2, <2>3 DEF Layout
<1>6. \A n : InSegment(seg, n) => InSegment(Opened, n)
  BY <1>2, <1>3 DEF InSegment
<1>7. Complete(Opened, ckpt, h) /\ (Whole(seg, h) => Whole(Opened, h))
  BY <1>1, <1>6 DEF Complete, Whole
<1>8. count.stop = 0 => \A s \in DOMAIN seg : Tight(Opened, s)
  BY <1>1, <1>2 DEF Writing
<1>9. Lasting(Opened, h)
  <2> SUFFICES ASSUME count.stop = 0, NEW s \in DOMAIN Opened, s \notin DOMAIN seg
               PROVE  Loose(Opened, s, h) /\ Size(Opened, s) = 0
    BY <1>8 DEF Lasting
  <2>1. s = Target
    BY <1>2
  <2> QED BY <1>2, <1>4, <2>1 DEF Loose
<1>10. count.stop = 0 => \A s \in DOMAIN Opened : s # Target => Tight(Opened, s)
  BY <1>2, <1>8
<1> QED BY <1>1, <1>2, <1>5, <1>7, <1>8, <1>9, <1>10 DEF Image

(* The whole record.                                                       *)
LEMMA WrittenImage ==
    ASSUME NEW h, Holds(h), status = "healthy", pc = "write"
    PROVE  /\ Image(Written, h, h \o arg) /\ DOMAIN Written = DOMAIN Opened
           /\ \A s \in DOMAIN Written : ~Written[s].torn
           /\ \A s \in DOMAIN Written : s <= Target
           /\ Target \in DOMAIN Written /\ Target + Size(Written, Target) = Len(h \o arg) + 1
           /\ count.stop = 0 => \A s \in DOMAIN Written : Tight(Written, s) \/ s = Target
<1> DEFINE g == h \o arg
<1>1. /\ h \in History /\ Layout(seg, h) /\ Writing(h) /\ Len(h) \in Nat /\ Vouched(h)
      /\ arg \in Seq(Value) /\ Len(arg) = 1 /\ h = last /\ Len(acked) = Len(h)
  BY LenProperties DEF Holds, History, Writing
<1>2. /\ g \in History /\ Len(g) = Len(h) + 1
      /\ \E v \in Value : g = Append(h, v)
  BY <1>1, Longer
<1>3. /\ Layout(Opened, h) /\ Complete(Opened, ckpt, h)
      /\ Whole(seg, h) => Whole(Opened, h)
      /\ Target \in DOMAIN Opened
  BY OpenedImage DEF Image
<1>4. /\ \A s \in DOMAIN Opened : s <= Target /\ ~Opened[s].torn
      /\ Target + Size(Opened, Target) = Len(h) + 1
  BY <1>1, OpenedIs
<1>5. Written = Added(Opened, Target, h \o arg)
  BY <1>1 DEF Written, Added
<1>6. Grown(Opened, Written, Target, g)
  <2>1. \A s \in DOMAIN Opened : s <= Target
    BY <1>4
  <2> QED BY <1>1, <1>3, <1>4, <1>5, <2>1, AppendIs
<1> HIDE DEF g
<1>7. Complete(Written, ckpt, g) /\ (Whole(seg, h) => Whole(Written, g))
  <2>1. \A n \in 1..Len(g) : n \in 1..Len(h) \/ n = Len(g)
    BY <1>1, <1>2
  <2>2. \A n \in 1..Len(h) : n \in Nat
    BY <1>1
  <2> QED BY <1>3, <1>6, <2>1, <2>2 DEF Complete, Whole, Grown
<1>8. Target + Size(Written, Target) = Len(g) + 1
  <2>1. Target \in Nat /\ Size(Opened, Target) \in Nat
    BY <1>3, SegmentFields
  <2> QED BY <1>1, <1>2, <1>4, <1>6, <2>1 DEF Grown
<1>9. count.stop = 0 => \A s \in DOMAIN Written : Tight(Written, s) \/ s = Target
  BY <1>6, OpenedImage DEF Tight, Size, Grown
<1>10. count.stop = 0 => Tight(Written, Target) \/ Loose(Written, Target, g)
  <2> SUFFICES ASSUME count.stop = 0 PROVE Loose(Written, Target, g)
    OBVIOUS
  <2>1. Size(Opened, Target) \in Nat
    BY <1>3, SegmentFields
  <2>2. \/ Written[Target].linked /\ Written[Target].synced = Size(Opened, Target)
        \/ Written[Target].synced = 0 /\ Size(Opened, Target) = 0
    <3>1. CASE Tight(Opened, Target)
      BY <1>3, <1>6, <3>1 DEF Tight, Grown
    <3>2. CASE Opened[Target] = NewSegment
      BY <1>3, <1>6, <3>2 DEF NewSegment, Size, Grown
    <3> QED BY <3>1, <3>2, OpenedImage
  <2> QED BY <1>4, <1>6, <1>8, <2>1, <2>2 DEF Loose, Grown
<1>11. InDoubt(g)
  <2>1. Len(manifest) \in Nat /\ Len(manifest) <= Len(h)
    BY <1>1, LenProperties DEF Vouched, Prefix, History
  <2> QED BY <1>1, <1>2, <2>1 DEF InDoubt
<1>12. Lasting(Written, g)
  BY <1>9, <1>10, <1>11 DEF Lasting
<1> QED BY <1>1, <1>2, <1>4, <1>6, <1>7, <1>8, <1>9, <1>12, <1>3 DEF Image, Grown, g

(* A part of a line.                                                       *)
LEMMA TornImage ==
    ASSUME NEW h, Holds(h), status = "healthy", pc = "write",
           NEW now, now = [Opened EXCEPT ![Target].torn = TRUE]
    PROVE  Image(now, h, h)
<1>1. /\ Image(Opened, h, h) /\ Target \in DOMAIN Opened
      /\ \A s \in DOMAIN Opened : s <= Target /\ ~Opened[s].torn
  BY OpenedImage, OpenedIs DEF Holds
<1>2. Layout(Opened, h) /\ \A s \in DOMAIN Opened : Opened[s] \in Segment
  BY <1>1, SegmentFields DEF Image
<1>3. /\ DOMAIN now = DOMAIN Opened /\ now = [s \in DOMAIN now |-> now[s]]
      /\ \A s \in DOMAIN Opened : s # Target => now[s] = Opened[s]
      /\ now[Target] = [Opened[Target] EXCEPT !.torn = TRUE]
  BY <1>1, <1>2 DEF Layout
<1>4. /\ \A s \in DOMAIN Opened : /\ now[s] \in Segment /\ now[s].recs = Opened[s].recs
                                  /\ now[s].synced = Opened[s].synced
                                  /\ now[s].linked = Opened[s].linked
  BY <1>1, <1>2, <1>3, ZenonT(60) DEF Segment
<1>5. \A s \in DOMAIN Opened : Size(now, s) = Size(Opened, s)
  BY <1>4 DEF Size
<1>6. \A s \in DOMAIN now : now[s].torn => s = Target
  BY <1>1, <1>3
<1>7. Layout(now, h)
  <2>1. now \in [DOMAIN now -> Segment] /\ DOMAIN now \subseteq Nat \ {0}
    BY <1>2, <1>3, <1>4 DEF Layout
  <2>2. \A s \in DOMAIN now : now[s].torn => \A t \in DOMAIN now : t <= s
    BY <1>1, <1>3, <1>6
  <2>3. \A s \in DOMAIN now :
          /\ s + Size(now, s) <= Len(h) + 1
          /\ \A i \in 1..Size(now, s) : now[s].recs[i] = Upto(h, s + i - 1)
    <3> SUFFICES ASSUME NEW s \in DOMAIN Opened
                 PROVE  /\ s + Size(now, s) <= Len(h) + 1
                        /\ \A i \in 1..Size(now, s) : now[s].recs[i] = Upto(h, s + i - 1)
      BY <1>3
    <3>1. now[s].recs = Opened[s].recs /\ Size(now, s) = Size(Opened, s)
      BY <1>4, <1>5
    <3>2. /\ s + Size(Opened, s) <= Len(h) + 1
          /\ \A i \in 1..Size(Opened, s) : Opened[s].recs[i] = Upto(h, s + i - 1)
      BY <1>2 DEF Layout
    <3> QED BY <3>1, <3>2
  <2>4. \A s, t \in DOMAIN now : s < t => s + Size(now, s) <= t
    BY <1>2, <1>3, <1>5 DEF Layout
  <2> QED BY <2>1, <2>2, <2>3, <2>4 DEF Layout
<1>8. \A n : InSegment(now, n) <=> InSegment(Opened, n)
  BY <1>3, <1>5 DEF InSegment
<1>9. Lasting(now, h)
  BY <1>1, <1>3, <1>4, <1>5, ZenonT(60) DEF Image, Lasting, Tight, Loose
<1> QED BY <1>1, <1>7, <1>8, <1>9 DEF Image, Complete, Whole

LEMMA PartialImage ==
    ASSUME NEW h, Holds(h), NEW now \in Partial
    PROVE  \E g : Image(now, h, g)
<1>1. CASE now = seg
  BY <1>1 DEF Image, Holds
<1>2. CASE now # seg
  <2>1. pc = "write" /\ status = "healthy"
    BY <1>2 DEF Partial, Holds
  <2>2. now \in {Opened, Written, [Opened EXCEPT ![Target].torn = TRUE]}
    BY <1>2, <2>1 DEF Partial
  <2>3. CASE now = Opened
    BY <2>1, <2>3, OpenedImage
  <2>4. CASE now = Written
    BY <2>1, <2>4, WrittenImage
  <2>5. CASE now = [Opened EXCEPT ![Target].torn = TRUE]
    BY <2>1, <2>5, TornImage
  <2> QED BY <2>2, <2>3, <2>4, <2>5
<1> QED BY <1>1, <1>2

(* What the power loss took of a segment.                                  *)
LEMMA RemainsIs ==
    ASSUME NEW g \in Segment, NEW r \in Remains(g), g.synced <= Len(g.recs)
    PROVE  /\ r \in Segment /\ r.linked /\ r.synced = Len(r.recs)
           /\ Len(r.recs) \in g.synced..Len(g.recs)
           /\ \A i \in 1..Len(r.recs) : r.recs[i] = g.recs[i]
           /\ r.torn => g.torn \/ Len(r.recs) < Len(g.recs)
<1>1. g.recs \in Seq(History) /\ g.synced \in Nat /\ Len(g.recs) \in Nat
  BY LenProperties DEF Segment
<1>2. PICK k \in g.synced..Len(g.recs), t \in BOOLEAN :
         r = [recs |-> SubSeq(g.recs, 1, k), synced |-> k, torn |-> t, linked |-> TRUE]
  BY DEF Remains, Cut
<1>3. k \in Nat /\ k <= Len(g.recs)
  BY <1>1
<1>4. \A i \in 1..k : g.recs[i] \in History
  BY <1>1, <1>3, ElementOfSeq
<1>5. /\ SubSeq(g.recs, 1, k) \in Seq(History) /\ Len(SubSeq(g.recs, 1, k)) = k
      /\ \A i \in 1..k : SubSeq(g.recs, 1, k)[i] = g.recs[i]
  BY <1>3, <1>4, SubSeqProperties
<1>6. r.recs = SubSeq(g.recs, 1, k) /\ r.synced = k /\ r.torn = t /\ r.linked
  BY <1>2
<1>7. r \in Segment
  BY <1>2, <1>3, <1>5 DEF Segment
<1>8. r.torn => g.torn \/ Len(r.recs) < Len(g.recs)
  BY DEF Remains
<1> QED BY <1>5, <1>6, <1>7, <1>8

(* PowerLoss, of the files at the moment it strikes.                       *)
CutTo(now, f) ==
    /\ DOMAIN f \subseteq DOMAIN now /\ f = [s \in DOMAIN f |-> f[s]]
    /\ \A s \in DOMAIN now \ DOMAIN f : ~now[s].linked
    /\ \A s \in DOMAIN f : f[s] \in Remains(now[s])

Lost(now, f) ==
    {s \in DOMAIN now : IF s \in DOMAIN f THEN Size(f, s) < Size(now, s) ELSE Size(now, s) > 0}

LEMMA CutSegments ==
    ASSUME NEW h, NEW g, NEW now, Image(now, h, g), count.stop = 0, NEW f, CutTo(now, f)
    PROVE  /\ \A s \in DOMAIN f :
                /\ f[s] \in Segment /\ Tight(f, s) /\ Size(f, s) \in Nat
                /\ Size(f, s) <= Size(now, s)
                /\ \A i \in 1..Size(f, s) : f[s].recs[i] = now[s].recs[i]
                /\ f[s].torn => now[s].torn \/ s \in Lost(now, f)
           /\ \A s \in Lost(now, f) :
                /\ InDoubt(g) /\ \A t \in DOMAIN now : t <= s
                /\ s + Size(now, s) = Len(g) + 1
                /\ IF s \in DOMAIN f THEN Size(now, s) = Size(f, s) + 1 ELSE Size(now, s) = 1
<1>1. Layout(now, g) /\ Lasting(now, g)
  BY DEF Image
<1>2. \A s \in DOMAIN now : /\ now[s] \in Segment /\ now[s].synced \in Nat
                            /\ now[s].linked \in BOOLEAN /\ Size(now, s) \in Nat
  BY <1>1, SegmentFields
<1>3. \A s \in DOMAIN now : Tight(now, s) \/ (Loose(now, s, g) /\ (Size(now, s) = 0 \/ InDoubt(g)))
  BY <1>1 DEF Lasting
<1>4. \A s \in DOMAIN now : now[s].synced <= Size(now, s)
  BY <1>2, <1>3 DEF Tight, Loose
<1>5. ASSUME NEW s \in DOMAIN f
      PROVE  /\ s \in DOMAIN now /\ f[s] \in Segment /\ Tight(f, s)
             /\ Size(f, s) \in Nat /\ Size(f, s) <= Size(now, s) /\ now[s].synced <= Size(f, s)
             /\ \A i \in 1..Size(f, s) : f[s].recs[i] = now[s].recs[i]
             /\ f[s].torn => now[s].torn \/ Size(f, s) < Size(now, s)
  <2>1. s \in DOMAIN now /\ f[s] \in Remains(now[s])
    BY DEF CutTo
  <2>2. now[s] \in Segment /\ now[s].synced <= Len(now[s].recs)
    BY <1>2, <1>4, <2>1 DEF Size
  <2>3. /\ f[s] \in Segment /\ f[s].linked /\ f[s].synced = Len(f[s].recs)
        /\ Len(f[s].recs) \in now[s].synced..Len(now[s].recs)
        /\ \A i \in 1..Len(f[s].recs) : f[s].recs[i] = now[s].recs[i]
        /\ f[s].torn => now[s].torn \/ Len(f[s].recs) < Len(now[s].recs)
    BY <2>1, <2>2, RemainsIs
  <2>4. now[s].synced \in Nat /\ Size(now, s) \in Nat
    BY <1>2, <2>1
  <2> QED BY <2>1, <2>3, <2>4 DEF Size, Tight
<1>6. ASSUME NEW s \in Lost(now, f)
      PROVE  /\ InDoubt(g) /\ \A t \in DOMAIN now : t <= s
             /\ s + Size(now, s) = Len(g) + 1
             /\ IF s \in DOMAIN f THEN Size(now, s) = Size(f, s) + 1 ELSE Size(now, s) = 1
  <2>1. s \in DOMAIN now /\ Size(now, s) > 0
    BY <1>2, <1>5 DEF Lost
  <2>2. ~Tight(now, s)
    <3>1. CASE s \in DOMAIN f
      <4>1. Size(f, s) < Size(now, s) /\ Size(f, s) \in Nat /\ now[s].synced <= Size(f, s)
        BY <1>5, <3>1 DEF Lost
      <4> QED BY <1>2, <2>1, <4>1 DEF Tight
    <3>2. CASE s \notin DOMAIN f
      BY <2>1, <3>2 DEF CutTo, Tight
    <3> QED BY <3>1, <3>2
  <2>3. Loose(now, s, g) /\ InDoubt(g)
    BY <1>2, <1>3, <2>1, <2>2
  <2>4. CASE s \in DOMAIN f
    <3>1. Size(f, s) < Size(now, s) /\ Size(f, s) \in Nat /\ now[s].synced <= Size(f, s)
      BY <1>5, <2>4 DEF Lost
    <3>2. Size(now, s) <= now[s].synced + 1
      BY <2>3 DEF Loose
    <3>3. Size(now, s) = Size(f, s) + 1
      BY <1>2, <2>1, <3>1, <3>2
    <3> QED BY <2>3, <2>4, <3>3 DEF Loose
  <2>5. CASE s \notin DOMAIN f
    <3>1. ~now[s].linked
      BY <2>1, <2>5 DEF CutTo
    <3>2. Size(now, s) = 1
      BY <1>2, <2>1, <2>3, <3>1 DEF Loose
    <3> QED BY <2>3, <2>5, <3>2 DEF Loose
  <2> QED BY <2>4, <2>5
<1>7. \A s \in DOMAIN f : f[s].torn => now[s].torn \/ s \in Lost(now, f)
  BY <1>5 DEF Lost
<1> QED BY <1>5, <1>6, <1>7

(* The history that survives: all of it, or all but a record in doubt.     *)
Survives(f, h, g, k) ==
    /\ k \in History /\ Layout(f, k) /\ Complete(f, ckpt, k)
    /\ Whole(seg, h) => Whole(f, k)
    /\ \A s \in DOMAIN f : Tight(f, s)
    /\ k = g \/ (InDoubt(g) /\ k = Upto(g, Len(g) - 1) /\ Len(g) > 0)

(* No record is lost.                                                      *)
LEMMA CutNothing ==
    ASSUME NEW h, NEW g, NEW now, Image(now, h, g), count.stop = 0, NEW f, CutTo(now, f),
           Lost(now, f) = {}
    PROVE  Survives(f, h, g, g)
<1>1. /\ g \in History /\ Layout(now, g) /\ Complete(now, ckpt, g)
      /\ Whole(seg, h) => Whole(now, g)
  BY DEF Image
<1>2. \A s \in DOMAIN now : s \in Nat \ {0} /\ Size(now, s) \in Nat
  BY <1>1, SegmentFields
<1>3. /\ DOMAIN f \subseteq DOMAIN now /\ f = [s \in DOMAIN f |-> f[s]]
      /\ \A s \in DOMAIN f : f[s] \in Segment /\ Tight(f, s) /\ Size(f, s) \in Nat
      /\ \A s \in DOMAIN f : \A i \in 1..Size(f, s) : f[s].recs[i] = now[s].recs[i]
      /\ \A s \in DOMAIN f : f[s].torn => now[s].torn
  BY CutSegments DEF CutTo
<1>4. \A s \in DOMAIN f : Size(f, s) = Size(now, s)
  <2> SUFFICES ASSUME NEW s \in DOMAIN f PROVE Size(f, s) = Size(now, s)
    OBVIOUS
  <2>1. Size(f, s) <= Size(now, s) /\ Size(f, s) \in Nat /\ Size(now, s) \in Nat
    BY <1>2, <1>3, CutSegments
  <2>2. ~(Size(f, s) < Size(now, s))
    BY <1>3 DEF Lost
  <2> QED BY <2>1, <2>2
<1>5. \A s \in DOMAIN now : Size(now, s) > 0 => s \in DOMAIN f
  BY DEF Lost
<1>6. Layout(f, g)
  BY <1>1, <1>3, <1>4 DEF Layout
<1>7. \A n \in 1..Len(g) : InSegment(now, n) => InSegment(f, n)
  <2> SUFFICES ASSUME NEW n \in 1..Len(g), NEW s \in DOMAIN now, s <= n, n < s + Size(now, s)
               PROVE  InSegment(f, n)
    BY DEF InSegment
  <2>1. Len(g) \in Nat
    BY <1>1, LenProperties DEF History
  <2>2. s \in DOMAIN f
    BY <1>2, <1>5, <2>1
  <2> QED BY <1>4, <2>2 DEF InSegment
<1> QED BY <1>1, <1>3, <1>6, <1>7 DEF Survives, Complete, Whole

(* The record in doubt is lost.                                            *)
LEMMA CutRecord ==
    ASSUME NEW h, NEW g, NEW now, Image(now, h, g), count.stop = 0, NEW f, CutTo(now, f),
           NEW z \in Lost(now, f)
    PROVE  Survives(f, h, g, Upto(g, Len(g) - 1))
<1> DEFINE k == Upto(g, Len(g) - 1)
<1>1. /\ g \in History /\ Layout(now, g) /\ Complete(now, ckpt, g) /\ Len(g) \in Nat
      /\ Whole(seg, h) => Whole(now, g)
  BY LenProperties DEF Image, History
<1>2. \A s \in DOMAIN now : s \in Nat \ {0} /\ Size(now, s) \in Nat
  BY <1>1, SegmentFields
<1>3. /\ DOMAIN f \subseteq DOMAIN now /\ f = [s \in DOMAIN f |-> f[s]]
      /\ \A s \in DOMAIN f : f[s] \in Segment /\ Tight(f, s) /\ Size(f, s) \in Nat
      /\ \A s \in DOMAIN f : \A i \in 1..Size(f, s) : f[s].recs[i] = now[s].recs[i]
      /\ \A s \in DOMAIN f : Size(f, s) <= Size(now, s)
      /\ \A s \in DOMAIN f : f[s].torn => now[s].torn \/ s \in Lost(now, f)
  BY CutSegments DEF CutTo
<1>4. /\ z \in DOMAIN now /\ InDoubt(g) /\ \A t \in DOMAIN now : t <= z
      /\ z + Size(now, z) = Len(g) + 1
      /\ IF z \in DOMAIN f THEN Size(now, z) = Size(f, z) + 1 ELSE Size(now, z) = 1
  BY CutSegments DEF Lost
<1>5. Size(now, z) \in Nat \ {0} /\ z <= Len(g) /\ z \in Nat \ {0} /\ Len(g) > 0
  BY <1>1, <1>2, <1>3, <1>4
<1>6. k \in History /\ Len(k) = Len(g) - 1
  <2>1. Len(g) - 1 \in 0..Len(g)
    BY <1>1, <1>5
  <2> QED BY <1>1, <2>1, UptoIs
<1>7. \A n \in 0..Len(k) : Upto(k, n) = Upto(g, n)
  <2>1. Len(g) - 1 \in 0..Len(g)
    BY <1>1, <1>5
  <2> QED BY <1>1, <1>6, <2>1, UptoUpto
<1> HIDE DEF k
<1>8. \A s \in DOMAIN now : s # z =>
         s < z /\ s \in DOMAIN f /\ Size(f, s) = Size(now, s) /\ s \notin Lost(now, f)
  <2> SUFFICES ASSUME NEW s \in DOMAIN now, s # z
               PROVE  /\ s < z /\ s \in DOMAIN f /\ Size(f, s) = Size(now, s)
                      /\ s \notin Lost(now, f)
    OBVIOUS
  <2>1. s < z
    BY <1>2, <1>4
  <2>2. s \notin Lost(now, f)
    <3>1. s \in Lost(now, f) => z <= s
      BY <1>4, CutSegments
    <3> QED BY <1>2, <1>4, <2>1, <3>1
  <2>3. s \in DOMAIN f
    <3>1. Lasting(now, g)
      BY DEF Image
    <3>2. Tight(now, s) \/ Loose(now, s, g)
      BY <3>1 DEF Lasting
    <3>3. ~Loose(now, s, g)
      BY <1>2, <1>4, <2>1 DEF Loose
    <3> QED BY <3>2, <3>3 DEF Tight, CutTo
  <2>4. Size(f, s) = Size(now, s)
    BY <1>2, <1>3, <2>2, <2>3 DEF Lost
  <2> QED BY <2>1, <2>2, <2>3, <2>4
<1>9. \A s \in DOMAIN f : s + Size(f, s) <= Len(k) + 1
  <2> SUFFICES ASSUME NEW s \in DOMAIN f PROVE s + Size(f, s) <= Len(k) + 1
    OBVIOUS
  <2>1. CASE s = z
    BY <1>1, <1>2, <1>3, <1>4, <1>6, <2>1
  <2>2. CASE s # z
    <3>1. s < z /\ Size(f, s) = Size(now, s) /\ s \in DOMAIN now
      BY <1>3, <1>8, <2>2
    <3>2. s + Size(now, s) <= z
      BY <1>1, <1>4, <3>1 DEF Layout
    <3> QED BY <1>1, <1>2, <1>5, <1>6, <3>1, <3>2
  <2> QED BY <2>1, <2>2
<1>10. Layout(f, k)
  <2>1. f \in [DOMAIN f -> Segment] /\ DOMAIN f \subseteq Nat \ {0}
    BY <1>2, <1>3
  <2>2. \A s \in DOMAIN f : f[s].torn => \A t \in DOMAIN f : t <= s
    BY <1>1, <1>3, <1>4, <1>8 DEF Layout
  <2>3. ASSUME NEW s \in DOMAIN f, NEW i \in 1..Size(f, s)
        PROVE  f[s].recs[i] = Upto(k, s + i - 1)
    <3>1. s + i - 1 \in 0..Len(k) /\ i \in 1..Size(now, s) /\ s \in DOMAIN now
      BY <1>1, <1>2, <1>3, <1>6, <1>9
    <3>2. f[s].recs[i] = now[s].recs[i] /\ now[s].recs[i] = Upto(g, s + i - 1)
      BY <1>1, <1>3, <3>1 DEF Layout
    <3> QED BY <1>7, <3>1, <3>2
  <2>4. ASSUME NEW s \in DOMAIN f, NEW t \in DOMAIN f, s < t
        PROVE  s + Size(f, s) <= t
    <3>1. s # z
      BY <1>2, <1>3, <1>4, <2>4
    <3> QED BY <1>1, <1>3, <1>8, <2>4, <3>1 DEF Layout
  <2> QED BY <1>9, <2>1, <2>2, <2>3, <2>4 DEF Layout
<1>11. \A n \in 1..Len(k) : InSegment(now, n) => InSegment(f, n)
  <2> SUFFICES ASSUME NEW n \in 1..Len(k), NEW s \in DOMAIN now, s <= n, n < s + Size(now, s)
               PROVE  s \in DOMAIN f /\ n < s + Size(f, s)
    BY DEF InSegment
  <2>1. CASE s = z
    <3>1. n + 1 < z + Size(now, z) /\ n \in Nat
      BY <1>1, <1>2, <1>4, <1>6
    <3>2. z \in DOMAIN f
      BY <1>2, <1>4, <2>1, <3>1
    <3> QED BY <1>2, <1>3, <1>4, <2>1, <3>1, <3>2
  <2>2. CASE s # z
    BY <1>8, <2>2
  <2> QED BY <2>1, <2>2
<1>12. \A n \in 1..Len(k) : n \in 1..Len(g)
  BY <1>1, <1>6
<1>13. Complete(f, ckpt, k) /\ (Whole(seg, h) => Whole(f, k))
  BY <1>1, <1>11, <1>12 DEF Complete, Whole
<1> QED BY <1>3, <1>4, <1>5, <1>6, <1>10, <1>13 DEF Survives, k

-----------------------------------------------------------------------------
(* Steps: each takes the history h to a history g.                         *)

(* The history grows by the value being appended, or loses the one in      *)
(* doubt, and the callers are told what is there.                          *)
LogStep(h, g) ==
    \/ g = h /\ acked' = acked
    \/ g = h /\ acked' = h
    \/ Len(acked) = Len(h) /\ (\E v \in Value : g = Append(h, v)) /\ acked' = acked
    \/ InDoubt(h) /\ g = Upto(h, Len(h) - 1) /\ Len(h) > 0 /\ acked' = acked

Moves(h, g) ==
    /\ Holds(g)' /\ LogStep(h, g)
    /\ MaxRot <= 1 /\ Spare(h) => Spare(g)'

(* What holds a prefix keeps it.                                           *)
LEMMA PrefixMoves ==
    ASSUME NEW h \in History, NEW g \in History, NEW p \in History, Prefix(p, h),
           \/ g = h \/ \E v \in Value : g = Append(h, v)
           \/ \E m \in 0..Len(h) : g = Upto(h, m) /\ Len(p) <= m
    PROVE  Prefix(p, g) /\ Len(p) \in Nat
<1>1. Len(h) \in Nat /\ Len(p) \in Nat /\ Len(p) <= Len(h) /\ p = Upto(h, Len(p))
  BY LenProperties DEF Prefix, History
<1>2. CASE g = h
  BY <1>1, <1>2 DEF Prefix
<1>3. ASSUME NEW v \in Value, g = Append(h, v) PROVE Prefix(p, g)
  <2>1. g = h \o <<v>> /\ <<v>> \in Seq(Value) /\ Len(<<v>>) = 1
    BY <1>3, AppendIsConcat DEF History
  <2>2. Len(g) = Len(h) + 1 /\ \A n \in 0..Len(h) : Upto(g, n) = Upto(h, n)
    BY <2>1, Longer
  <2> QED BY <1>1, <2>2 DEF Prefix
<1>4. ASSUME NEW m \in 0..Len(h), g = Upto(h, m), Len(p) <= m PROVE Prefix(p, g)
  <2>1. Len(g) = m /\ Upto(g, Len(p)) = Upto(h, Len(p))
    BY <1>1, <1>4, UptoIs, UptoUpto
  <2> QED BY <1>1, <1>4, <2>1 DEF Prefix
<1> QED BY <1>1, <1>2, <1>3, <1>4

(* Checkpoints, manifest and callers do not mind.                          *)
LEMMA VouchedMoves ==
    ASSUME NEW h, NEW g, h \in History, g \in History, Vouched(h),
           \/ g = h
           \/ Len(acked) = Len(h) /\ \E v \in Value : g = Append(h, v)
           \/ InDoubt(h) /\ g = Upto(h, Len(h) - 1) /\ Len(h) > 0
    PROVE  Vouched(g)
<1>1. Len(h) \in Nat /\ Len(acked) \in Nat /\ Len(manifest) \in Nat
  BY LenProperties DEF Vouched, History
<1>2. CASE g = h
  BY <1>2
<1>3. CASE Len(acked) = Len(h) /\ \E v \in Value : g = Append(h, v)
  <2>1. Len(g) = Len(h) + 1
    BY <1>3, AppendProperties DEF History
  <2>2. Prefix(manifest, g) /\ Prefix(acked, g)
    BY <1>3, PrefixMoves DEF Vouched
  <2>3. \A i \in DOMAIN ckpt : ckpt[i].at \in History /\ Prefix(ckpt[i].at, h)
    BY DEF Vouched
  <2>4. \A i \in DOMAIN ckpt : Prefix(ckpt[i].at, g)
    BY <1>3, <2>3, PrefixMoves
  <2> QED BY <1>1, <1>3, <2>1, <2>2, <2>4 DEF Vouched
<1>4. CASE InDoubt(h) /\ g = Upto(h, Len(h) - 1) /\ Len(h) > 0
  <2> DEFINE m == Len(h) - 1
  <2>1. m \in 0..Len(h) /\ Len(manifest) <= m /\ Len(acked) <= m /\ g = Upto(h, m)
    BY <1>1, <1>4 DEF InDoubt
  <2>2. Len(g) = m
    BY <2>1, UptoIs
  <2>3. Prefix(manifest, g) /\ Prefix(acked, g)
    BY <2>1, PrefixMoves DEF Vouched
  <2>4. ASSUME NEW i \in DOMAIN ckpt PROVE Prefix(ckpt[i].at, g)
    <3>1. /\ ckpt[i].at \in History /\ Prefix(ckpt[i].at, h) /\ Len(ckpt[i].at) <= Len(acked)
      BY DEF Vouched
    <3>2. Len(ckpt[i].at) \in Nat
      BY <3>1, LenProperties DEF History
    <3>3. Len(ckpt[i].at) <= m
      BY <1>1, <2>1, <3>1, <3>2
    <3> QED BY <2>1, <3>1, <3>3, PrefixMoves
  <2>5. Len(g) <= Len(acked) + 1
    BY <1>1, <2>1, <2>2 DEF Vouched
  <2> QED BY <2>3, <2>4, <2>5 DEF Vouched
<1> QED BY <1>2, <1>3, <1>4

LEMMA Healthy ==
    ASSUME NEW h, Holds(h), pc # "idle" \/ status = "healthy"
    PROVE  status = "healthy" /\ Writing(h) /\ h = last
  BY DEF Holds, Writing

LEMMA CallMoves ==
    ASSUME NEW h, Holds(h), NEW v \in Value, Call(v)
    PROVE  Moves(h, h)
<1>1. /\ status = "healthy" /\ pc = "idle" /\ pc' = "write" /\ arg' = <<v>>
      /\ seg' = seg /\ manifest' = manifest /\ ckpt' = ckpt /\ status' = status
      /\ last' = last /\ open' = open /\ safe' = safe /\ acked' = acked /\ count' = count
  BY DEF Call, Idle
<1>2. Writing(h)
  BY <1>1, Healthy
<1>3. arg' \in Seq(Value) /\ Len(arg') = 1
  BY <1>1
<1>4. Writing(h)'
  BY <1>1, <1>2, <1>3 DEF Writing
<1>5. Lasting(seg, h)' /\ Vouched(h)' /\ Compacting'
  BY <1>1 DEF Holds, Lasting, InDoubt, Vouched, Compacting
<1>6. Holds(h)'
  BY <1>1, <1>4, <1>5 DEF Holds, Point
<1>7. Spare(h) => Spare(h)'
  BY <1>1 DEF Spare, Enough, Readable
<1> QED BY <1>1, <1>6, <1>7 DEF Moves, LogStep

LEMMA WriteMoves ==
    ASSUME NEW h, Holds(h), WriteRecord
    PROVE  \E g : Moves(h, g)
<1>0. PICK g : g = h \o arg
  OBVIOUS
<1>1. /\ pc = "write" /\ pc' = "sync" /\ arg' = <<>> /\ last' = last \o arg
      /\ seg' = Written /\ manifest' = manifest /\ ckpt' = ckpt /\ status' = status
      /\ open' = Target /\ safe' = safe /\ acked' = acked /\ count' = count
  BY DEF WriteRecord
<1>2. status = "healthy" /\ Writing(h) /\ h = last /\ Len(acked) = Len(h)
  BY <1>1, Healthy DEF Writing
<1>3. /\ Image(Written, h, g) /\ DOMAIN Written = DOMAIN Opened
      /\ \A s \in DOMAIN Written : ~Written[s].torn
      /\ \A s \in DOMAIN Written : s <= Target
      /\ Target \in DOMAIN Written /\ Target + Size(Written, Target) = Len(g) + 1
      /\ count.stop = 0 => \A s \in DOMAIN Written : Tight(Written, s) \/ s = Target
  BY <1>0, <1>1, <1>2, WrittenImage
<1>4. h \in History /\ arg \in Seq(Value) /\ Len(arg) = 1 /\ Vouched(h)
  BY <1>1, <1>2 DEF Writing, Holds
<1>5. /\ g \in History /\ Len(g) = Len(h) + 1 /\ \E v \in Value : g = Append(h, v)
  BY <1>0, <1>4, Longer
<1>6. Layout(Written, g) /\ Complete(Written, ckpt, g) /\ Lasting(Written, g)
  BY <1>3 DEF Image
<1>7. Vouched(g) /\ Len(h) \in Nat /\ Len(manifest) \in Nat /\ Len(manifest) <= Len(h)
  BY <1>2, <1>4, <1>5, VouchedMoves, LenProperties DEF Vouched, Prefix, History
<1>8. Target \in Nat \ {0} /\ Target # 0
  BY <1>3, <1>6, SegmentFields
<1>9. Lasting(seg, g)' /\ Vouched(g)' /\ Compacting'
  <2>1. Lasting(seg, g)'
    BY <1>1, <1>6 DEF Lasting, InDoubt
  <2>2. Vouched(g)'
    BY <1>1, <1>7 DEF Vouched
  <2> QED BY <1>1, <2>1, <2>2 DEF Compacting
<1>10. Writing(g)'
  <2>1. g = last' /\ arg' \in Seq(Value) /\ Len(arg') = 0
    BY <1>0, <1>1, <1>2
  <2>2. Len(acked') < Len(g) /\ Len(manifest') < Len(g)
    BY <1>1, <1>2, <1>5, <1>7
  <2>3. count'.stop = 0 => \A s \in DOMAIN seg' : Tight(seg', s) \/ s = open'
    BY <1>1, <1>3
  <2>4. /\ open' \in DOMAIN seg' /\ \A s \in DOMAIN seg' : s <= open' /\ ~seg'[s].torn
        /\ open' + Size(seg', open') = Len(g) + 1 /\ open' # 0
    BY <1>1, <1>3, <1>8
  <2> QED BY <1>1, <2>1, <2>2, <2>3, <2>4 DEF Writing
<1>11. Holds(g)'
  <2>1. /\ Layout(seg, g)' /\ Complete(seg, ckpt, g)' /\ open' \in Nat
        /\ status' = "healthy" /\ pc' = "sync"
    BY <1>1, <1>2, <1>6, <1>8
  <2> QED BY <1>1, <1>5, <1>9, <1>10, <2>1 DEF Holds, Point
<1>12. Spare(h) => Spare(g)'
  <2>1. (Enough => Enough') /\ (Whole(seg, h) => Whole(seg', g))
    BY <1>1, <1>3 DEF Enough, Readable, Image
  <2> QED BY <1>1, <2>1 DEF Spare
<1> QED BY <1>1, <1>2, <1>5, <1>11, <1>12 DEF Moves, LogStep

LEMMA SyncMoves ==
    ASSUME NEW h, Holds(h), SyncRecord
    PROVE  Moves(h, h)
<1>1. /\ pc = "sync" /\ pc' = "manifest" /\ arg' = arg /\ last' = last
      /\ seg' = Flushed /\ manifest' = manifest /\ ckpt' = ckpt /\ status' = status
      /\ open' = open /\ safe' = safe /\ acked' = acked /\ count' = count
  BY DEF SyncRecord
<1>2. status = "healthy" /\ Writing(h) /\ h = last /\ open \in DOMAIN seg /\ open # 0
  BY <1>1, Healthy DEF Writing
<1>3. Layout(seg, h) /\ Complete(seg, ckpt, h) /\ Lasting(seg, h)
  BY DEF Holds
<1>4. /\ SameRecords(seg, seg') /\ DOMAIN seg' = DOMAIN seg
      /\ \A s \in DOMAIN seg :
           /\ seg'[s].linked = seg[s].linked /\ seg'[s].torn = seg[s].torn
           /\ seg'[s].synced = IF s = open THEN Size(seg, s) ELSE seg[s].synced
  BY <1>1, <1>2, <1>3, FlushedIs
<1>5. /\ Layout(seg', h) /\ \A s \in DOMAIN seg : Size(seg', s) = Size(seg, s)
      /\ Complete(seg', ckpt', h)
      /\ Whole(seg, h) => Whole(seg', h)
  BY <1>1, <1>3, <1>4, SameLayout, ZenonT(60)
<1>6. \A s \in DOMAIN seg : Size(seg, s) \in Nat /\ seg[s].synced \in Nat
  BY <1>3, SegmentFields
<1>7. Lasting(seg, h)'
  <2> SUFFICES ASSUME count.stop = 0, NEW s \in DOMAIN seg
               PROVE  Tight(seg', s) \/ (Loose(seg', s, h) /\ (Size(seg', s) = 0 \/ InDoubt(h)))
    BY <1>1, <1>4 DEF Lasting, InDoubt
  <2>1. CASE Tight(seg, s)
    BY <1>4, <1>5, <2>1 DEF Tight
  <2>2. CASE Loose(seg, s, h) /\ (Size(seg, s) = 0 \/ InDoubt(h))
    BY <1>4, <1>5, <1>6, <2>2 DEF Loose
  <2> QED BY <1>3, <2>1, <2>2 DEF Lasting
<1>8. Vouched(h)' /\ Compacting'
  BY <1>1 DEF Holds, Vouched, Compacting
<1>9. Writing(h)'
  <2>1. count.stop = 0 => \A s \in DOMAIN seg : seg'[s].synced = Size(seg', s)
    BY <1>1, <1>2, <1>4, <1>5 DEF Writing, Tight
  <2> QED BY <1>1, <1>2, <1>4, <1>5, <2>1 DEF Writing
<1>10. Holds(h)'
  BY <1>1, <1>2, <1>5, <1>7, <1>8, <1>9 DEF Holds, Point
<1>11. Spare(h) => Spare(h)'
  BY <1>1, <1>5 DEF Spare, Enough, Readable
<1> QED BY <1>1, <1>10, <1>11 DEF Moves, LogStep

(* A history is a prefix of itself.                                        *)
LEMMA PrefixSelf ==
    ASSUME NEW h \in History
    PROVE  Prefix(h, h) /\ Len(h) \in Nat
<1>1. Len(h) \in Nat
  BY LenProperties DEF History
<1> QED BY <1>1, UptoIs DEF Prefix

(* Renaming a file over the manifest, or a checkpoint into place, syncs    *)
(* the directory.                                                          *)
LEMMA LinkedMoves ==
    ASSUME NEW h, Layout(seg, h), Complete(seg, ckpt, h), seg' = Linked(seg)
    PROVE  /\ Layout(seg', h) /\ DOMAIN seg' = DOMAIN seg
           /\ \A c : Complete(seg, c, h) => Complete(seg', c, h)
           /\ Whole(seg, h) => Whole(seg', h)
           /\ \A s \in DOMAIN seg : /\ Size(seg', s) = Size(seg, s) /\ seg'[s].torn = seg[s].torn
                                    /\ seg[s].synced = Size(seg, s) => Tight(seg', s)
<1>1. /\ SameRecords(seg, seg') /\ DOMAIN seg' = DOMAIN seg
      /\ \A s \in DOMAIN seg : /\ seg'[s].linked /\ seg'[s].synced = seg[s].synced
                               /\ seg'[s].torn = seg[s].torn
  BY LinkedIs
<1>2. /\ Layout(seg', h) /\ \A s \in DOMAIN seg : Size(seg', s) = Size(seg, s)
      /\ \A n : InSegment(seg', n) <=> InSegment(seg, n)
  BY <1>1, SameLayout
<1>3. \A s \in DOMAIN seg : seg[s].synced = Size(seg, s) => Tight(seg', s)
  BY <1>1, <1>2 DEF Tight
<1> QED BY <1>1, <1>2, <1>3 DEF Complete, Whole

(* The new manifest names a record that is synced.                         *)
LEMMA ManifestKeeps ==
    ASSUME NEW h, Holds(h), pc = "manifest", manifest' = last, seg' = Linked(seg),
           ckpt' = ckpt, acked' = acked, count'.ckpt = count.ckpt, count'.stop = count.stop
    PROVE  /\ Layout(seg', h) /\ Complete(seg', ckpt', h) /\ Vouched(h)'
           /\ count'.stop = 0 => \A s \in DOMAIN seg' : Tight(seg', s)
           /\ Whole(seg, h) => Whole(seg', h)
           /\ DOMAIN seg' = DOMAIN seg
           /\ \A s \in DOMAIN seg : Size(seg', s) = Size(seg, s) /\ seg'[s].torn = seg[s].torn
<1>1. Writing(h) /\ h = last /\ Layout(seg, h) /\ Complete(seg, ckpt, h) /\ h \in History
  BY Healthy DEF Holds
<1>2. /\ Layout(seg', h) /\ DOMAIN seg' = DOMAIN seg
      /\ Complete(seg', ckpt', h)
      /\ Whole(seg, h) => Whole(seg', h)
      /\ \A s \in DOMAIN seg : /\ Size(seg', s) = Size(seg, s) /\ seg'[s].torn = seg[s].torn
                               /\ seg[s].synced = Size(seg, s) => Tight(seg', s)
  BY <1>1, LinkedMoves
<1>3. count'.stop = 0 => \A s \in DOMAIN seg' : Tight(seg', s)
  BY <1>1, <1>2 DEF Writing
<1>4. Vouched(h)'
  BY <1>1, PrefixSelf DEF Holds, Vouched
<1> QED BY <1>2, <1>3, <1>4

LEMMA ManifestMoves ==
    ASSUME NEW h, Holds(h), WriteManifest
    PROVE  Moves(h, h)
<1>1. /\ pc = "manifest" /\ pc' = "ack" /\ arg' = arg /\ last' = last
      /\ seg' = Linked(seg) /\ manifest' = last /\ ckpt' = ckpt /\ status' = status
      /\ open' = open /\ safe' = safe /\ acked' = acked /\ count' = count
  BY DEF WriteManifest
<1>2. status = "healthy" /\ Writing(h)
  BY <1>1, Healthy
<1>3. /\ Layout(seg', h) /\ Complete(seg', ckpt', h) /\ Vouched(h)'
      /\ count'.stop = 0 => \A s \in DOMAIN seg' : Tight(seg', s)
      /\ Whole(seg, h) => Whole(seg', h)
      /\ DOMAIN seg' = DOMAIN seg
      /\ \A s \in DOMAIN seg : Size(seg', s) = Size(seg, s) /\ seg'[s].torn = seg[s].torn
  BY <1>1, ManifestKeeps
<1>4. Writing(h)'
  BY <1>1, <1>2, <1>3 DEF Writing
<1>5. Lasting(seg, h)' /\ Compacting'
  BY <1>1, <1>3 DEF Lasting, Compacting
<1>6. Holds(h)'
  BY <1>1, <1>2, <1>3, <1>4, <1>5 DEF Holds, Point
<1>7. Spare(h) => Spare(h)'
  BY <1>1, <1>3 DEF Spare, Enough, Readable
<1> QED BY <1>1, <1>6, <1>7 DEF Moves, LogStep

LEMMA AcknowledgeMoves ==
    ASSUME NEW h, Holds(h), Acknowledge
    PROVE  Moves(h, h)
<1>1. /\ pc = "ack" /\ pc' = "idle" /\ arg' = arg /\ last' = last
      /\ seg' = seg /\ manifest' = manifest /\ ckpt' = ckpt /\ status' = status
      /\ open' = open /\ safe' = safe /\ acked' = last /\ count' = count
  BY DEF Acknowledge
<1>2. status = "healthy" /\ Writing(h) /\ h = last /\ h \in History
  BY <1>1, Healthy DEF Holds
<1>3. Prefix(h, h) /\ Len(h) \in Nat
  BY <1>2, PrefixSelf
<1>4. Vouched(h)'
  <2>1. \A i \in DOMAIN ckpt : Len(ckpt[i].at) <= Len(h)
    BY DEF Holds, Vouched, Prefix
  <2> QED BY <1>1, <1>2, <1>3, <2>1 DEF Holds, Vouched
<1>5. Writing(h)'
  BY <1>1, <1>2 DEF Writing
<1>6. Lasting(seg, h)' /\ Compacting'
  BY <1>1, <1>2 DEF Lasting, Compacting, Writing
<1>7. Holds(h)'
  BY <1>1, <1>2, <1>4, <1>5, <1>6 DEF Holds, Point
<1>8. Spare(h) => Spare(h)'
  BY <1>1 DEF Spare, Enough, Readable
<1> QED BY <1>1, <1>2, <1>7, <1>8 DEF Moves, LogStep

LEMMA CallCheckpointMoves ==
    ASSUME NEW h, Holds(h), CallCheckpoint
    PROVE  Moves(h, h)
<1>1. /\ status = "healthy" /\ pc = "idle" /\ pc' = "snapshot" /\ arg' = arg /\ last' = last
      /\ seg' = seg /\ manifest' = manifest /\ ckpt' = ckpt /\ status' = status
      /\ open' = open /\ safe' = safe /\ acked' = acked
      /\ count' = [count EXCEPT !["ckpt"] = @ + 1]
  BY DEF CallCheckpoint, Idle, Counted
<1>2. Writing(h) /\ count \in Counts
  BY <1>1, Healthy DEF Holds
<1>3. /\ count' \in Counts /\ count'.ckpt = count.ckpt + 1 /\ count'.stop = count.stop
      /\ count'.power = count.power /\ count'.rot = count.rot /\ count.ckpt \in Nat
  BY <1>1, <1>2 DEF Counts
<1>4. DOMAIN ckpt \subseteq 1..count'.ckpt /\ count'.ckpt \notin DOMAIN ckpt
  <2>1. DOMAIN ckpt \subseteq 1..count.ckpt
    BY DEF Holds, Vouched
  <2> QED BY <1>3, <2>1
<1>5. Vouched(h)'
  BY <1>1, <1>4 DEF Holds, Vouched
<1>6. Writing(h)'
  BY <1>1, <1>2, <1>3 DEF Writing
<1>7. Lasting(seg, h)' /\ Compacting'
  BY <1>1, <1>3 DEF Holds, Lasting, InDoubt, Compacting
<1>8. Holds(h)'
  BY <1>1, <1>3, <1>4, <1>5, <1>6, <1>7 DEF Holds, Point
<1>9. Spare(h) => Spare(h)'
  BY <1>1, <1>3 DEF Spare, Enough, Readable
<1> QED BY <1>1, <1>8, <1>9 DEF Moves, LogStep

(* The new checkpoint summarises all of the history.                       *)
LEMMA RenamedKeeps ==
    ASSUME NEW h, Holds(h), pc = "snapshot", ckpt' = Renamed, seg' = Linked(seg),
           manifest' = manifest, acked' = acked, count'.ckpt = count.ckpt,
           count'.stop = count.stop
    PROVE  /\ Layout(seg', h) /\ Complete(seg', ckpt', h) /\ Vouched(h)'
           /\ count'.stop = 0 => \A s \in DOMAIN seg' : Tight(seg', s)
           /\ Whole(seg, h) => Whole(seg', h)
           /\ DOMAIN seg' = DOMAIN seg
           /\ \A s \in DOMAIN seg : Size(seg', s) = Size(seg, s) /\ seg'[s].torn = seg[s].torn
           /\ Readable \subseteq Readable' /\ count.ckpt \in DOMAIN ckpt'
<1>1. /\ Writing(h) /\ h = last /\ Layout(seg, h) /\ Complete(seg, ckpt, h) /\ h \in History
      /\ count \in Counts /\ Vouched(h) /\ count.ckpt \notin DOMAIN ckpt /\ Len(acked) = Len(h)
  BY Healthy DEF Holds, Writing
<1>2. Prefix(h, h) /\ Len(h) \in Nat /\ count.ckpt \in Nat
  BY <1>1, PrefixSelf DEF Counts
<1>3. /\ DOMAIN ckpt' = DOMAIN ckpt \cup {count.ckpt}
      /\ ckpt' = [i \in DOMAIN ckpt' |-> ckpt'[i]]
      /\ ckpt'[count.ckpt] = [at |-> h, readable |-> TRUE]
      /\ \A i \in DOMAIN ckpt : ckpt'[i] = ckpt[i]
  BY <1>1 DEF Renamed
<1>4. Complete(seg, ckpt', h)
  <2> SUFFICES ASSUME NEW n \in 1..Len(h), ~InSegment(seg, n), NEW i \in DOMAIN ckpt',
                      ckpt'[i].readable
               PROVE  n <= Len(ckpt'[i].at)
    BY <1>3 DEF Complete
  <2>1. CASE i \in DOMAIN ckpt
    BY <1>1, <1>3, <2>1 DEF Complete
  <2>2. CASE i = count.ckpt
    BY <1>2, <1>3, <2>2
  <2> QED BY <1>3, <2>1, <2>2
<1>5. /\ Layout(seg', h) /\ DOMAIN seg' = DOMAIN seg /\ Complete(seg', ckpt', h)
      /\ Whole(seg, h) => Whole(seg', h)
      /\ \A s \in DOMAIN seg : /\ Size(seg', s) = Size(seg, s) /\ seg'[s].torn = seg[s].torn
                               /\ seg[s].synced = Size(seg, s) => Tight(seg', s)
  BY <1>1, <1>4, LinkedMoves
<1>6. count'.stop = 0 => \A s \in DOMAIN seg' : Tight(seg', s)
  BY <1>1, <1>5 DEF Writing, Tight
<1>7. Vouched(h)'
  <2>1. ckpt' \in [DOMAIN ckpt' -> [at : History, readable : BOOLEAN]]
    <3>1. \A i \in DOMAIN ckpt : ckpt[i] \in [at : History, readable : BOOLEAN]
      BY <1>1 DEF Vouched
    <3>2. ckpt'[count.ckpt] \in [at : History, readable : BOOLEAN]
      BY <1>1, <1>3
    <3> QED BY <1>3, <3>1, <3>2
  <2>2. DOMAIN ckpt' \subseteq 1..count.ckpt
    <3>1. count.ckpt \in 1..count.ckpt
      BY <1>2 DEF Holds
    <3> QED BY <1>1, <1>3, <3>1 DEF Vouched
  <2>3. \A i \in DOMAIN ckpt' : Prefix(ckpt'[i].at, h) /\ Len(ckpt'[i].at) <= Len(acked)
    BY <1>1, <1>2, <1>3 DEF Vouched
  <2> QED BY <1>1, <2>1, <2>2, <2>3 DEF Vouched
<1>8. Readable \subseteq Readable'
  BY <1>3 DEF Readable
<1> QED BY <1>3, <1>5, <1>6, <1>7, <1>8

LEMMA RenameMoves ==
    ASSUME NEW h, Holds(h), RenameCheckpoint
    PROVE  Moves(h, h)
<1>1. /\ pc = "snapshot" /\ pc' = "prune" /\ arg' = arg /\ last' = last
      /\ seg' = Linked(seg) /\ manifest' = manifest /\ ckpt' = Renamed /\ status' = status
      /\ open' = open /\ safe' = safe /\ acked' = acked /\ count' = count
  BY DEF RenameCheckpoint
<1>2. status = "healthy" /\ Writing(h)
  BY <1>1, Healthy
<1>3. /\ Layout(seg', h) /\ Complete(seg', ckpt', h) /\ Vouched(h)'
      /\ count'.stop = 0 => \A s \in DOMAIN seg' : Tight(seg', s)
      /\ Whole(seg, h) => Whole(seg', h)
      /\ DOMAIN seg' = DOMAIN seg
      /\ \A s \in DOMAIN seg : Size(seg', s) = Size(seg, s) /\ seg'[s].torn = seg[s].torn
      /\ Readable \subseteq Readable' /\ count.ckpt \in DOMAIN ckpt'
  BY <1>1, RenamedKeeps
<1>4. Writing(h)'
  BY <1>1, <1>2, <1>3 DEF Writing
<1>5. Lasting(seg, h)' /\ Compacting'
  BY <1>1, <1>3 DEF Lasting, Compacting
<1>6. Holds(h)'
  BY <1>1, <1>2, <1>3, <1>4, <1>5 DEF Holds, Point
<1>7. Spare(h) => Spare(h)'
  <2>1. Enough => Enough'
    BY <1>1, <1>3 DEF Enough
  <2> QED BY <1>1, <1>3, <2>1 DEF Spare
<1> QED BY <1>1, <1>6, <1>7 DEF Moves, LogStep

(* Two checkpoints are ordered.                                            *)
LEMMA BeforeIs ==
    ASSUME NEW h, h \in History, Vouched(h), count.ckpt \in Nat,
           NEW i \in DOMAIN ckpt, NEW j \in DOMAIN ckpt, i # j
    PROVE  /\ Before(i, j) \/ Before(j, i)
           /\ ~(Before(i, j) /\ Before(j, i))
           /\ Before(i, j) => Len(ckpt[i].at) <= Len(ckpt[j].at)
<1>1. Len(ckpt[i].at) \in Nat /\ Len(ckpt[j].at) \in Nat
  <2>1. ckpt[i].at \in History /\ ckpt[j].at \in History
    BY DEF Vouched
  <2> QED BY <2>1, LenProperties DEF History
<1>2. i \in Nat /\ j \in Nat
  BY DEF Vouched
<1> QED BY <1>1, <1>2 DEF Before

LEMMA Irreflexive ==
    ASSUME NEW h, h \in History, Vouched(h), NEW i \in DOMAIN ckpt
    PROVE  ~Before(i, i)
<1>1. Len(ckpt[i].at) \in Nat /\ i \in Nat
  <2>1. ckpt[i].at \in History /\ i \in Nat
    BY DEF Vouched
  <2> QED BY <2>1, LenProperties DEF History
<1> QED BY <1>1 DEF Before

(* The newest readable checkpoint is kept, and a second one if there is.   *)
LEMMA PruneKeeps ==
    ASSUME NEW h, Holds(h)
    PROVE  /\ Readable # {} => Readable \ Obsolete # {}
           /\ (\E i, j \in Readable : i # j) => \E i, j \in Readable \ Obsolete : i # j
<1>1. h \in History /\ Vouched(h) /\ count.ckpt \in Nat /\ Readable \subseteq DOMAIN ckpt
  BY DEF Holds, Counts, Readable
<1> DEFINE i == Newest(Readable)
           j == Newest(Readable \ {i})
<1>2. ASSUME Readable # {} PROVE i \in Readable \ Obsolete
  <2>1. i \in Readable /\ \A k \in Readable \ {i} : Before(k, i)
    BY <1>1, <1>2, NewestIs
  <2> HIDE DEF i
  <2>2. \A k \in Readable : ~Before(i, k)
    <3> SUFFICES ASSUME NEW k \in Readable, Before(i, k) PROVE FALSE
      OBVIOUS
    <3>1. CASE k = i
      BY <1>1, <2>1, <3>1, Irreflexive
    <3>2. CASE k # i
      BY <1>1, <2>1, <3>2, BeforeIs
    <3> QED BY <3>1, <3>2
  <2>3. {k \in Readable : Before(i, k)} = {}
    BY <2>2
  <2>4. Cardinality({k \in Readable : Before(i, k)}) = 0
    BY <2>3, FS_EmptySet
  <2> QED BY <2>1, <2>4 DEF Obsolete
<1>3. ASSUME Readable \ {i} # {} PROVE j \in Readable \ Obsolete /\ j # i
  <2>1. j \in Readable \ {i} /\ \A k \in (Readable \ {i}) \ {j} : Before(k, j)
    BY <1>1, <1>3, NewestIs
  <2> HIDE DEF i, j
  <2> DEFINE K == {k \in Readable : Before(j, k)}
  <2>2. K \subseteq {i}
    <3> SUFFICES ASSUME NEW k \in Readable, Before(j, k), k # i PROVE FALSE
      OBVIOUS
    <3>1. CASE k = j
      BY <1>1, <2>1, <3>1, Irreflexive
    <3>2. CASE k # j
      BY <1>1, <2>1, <3>2, BeforeIs
    <3> QED BY <3>1, <3>2
  <2>3. IsFiniteSet({i}) /\ Cardinality({i}) = 1
    BY FS_Singleton
  <2> HIDE DEF K
  <2>4. IsFiniteSet(K) /\ Cardinality(K) <= 1
    BY <2>2, <2>3, FS_Subset
  <2>5. Cardinality(K) \in Nat
    BY <2>4, FS_CardinalityType
  <2>6. ~(Cardinality(K) >= 2)
    BY <2>4, <2>5
  <2> QED BY <2>1, <2>6 DEF Obsolete, K
<1> HIDE DEF i, j
<1> QED BY <1>2, <1>3

(* A set of checkpoints has an eldest one.                                 *)
LEMMA EldestIs ==
    ASSUME NEW h, h \in History, Vouched(h), count.ckpt \in Nat,
           NEW I \in SUBSET DOMAIN ckpt, I # {}
    PROVE  Eldest(I) \in I /\ \A j \in I : Len(ckpt[Eldest(I)].at) <= Len(ckpt[j].at)
<1> DEFINE L(i) == Len(ckpt[i].at)
<1>1. I \subseteq Nat /\ \A i \in I : L(i) \in Nat
  <2> SUFFICES ASSUME NEW i \in I PROVE i \in Nat /\ L(i) \in Nat
    OBVIOUS
  <2>1. ckpt[i].at \in History /\ i \in Nat
    BY DEF Vouched
  <2> QED BY <2>1, LenProperties DEF History
<1>2. PICK n \in {L(i) : i \in I} : \A m \in {L(i) : i \in I} : n <= m
  <2> DEFINE N == {L(i) : i \in I}
  <2>1. N # {} /\ N \subseteq Nat
    BY <1>1
  <2> HIDE DEF N
  <2>2. \E n \in N : \A m \in N : n <= m
    BY <2>1, Least
  <2> QED BY <2>2 DEF N
<1> DEFINE J == {i \in I : L(i) = n}
<1>3. J # {} /\ J \subseteq Nat
  BY <1>1, <1>2
<1>4. PICK i \in J : \A j \in J : i <= j
  BY <1>3, Least
<1>5. ASSUME NEW j \in I \ {i} PROVE Before(i, j)
  <2>1. n <= L(j) /\ L(i) = n /\ L(j) \in Nat /\ n \in Nat
    BY <1>1, <1>2, <1>4
  <2>2. CASE L(j) = n
    <3>1. i <= j /\ j \in Nat /\ i \in Nat /\ j # i
      BY <1>1, <1>4, <2>2
    <3> QED BY <2>1, <2>2, <3>1 DEF Before
  <2> QED BY <2>1, <2>2 DEF Before
<1>6. \E k \in I : \A j \in I \ {k} : Before(k, j)
  BY <1>4, <1>5
<1> DEFINE e == Eldest(I)
<1>7. e \in I /\ \A j \in I \ {e} : Before(e, j)
  BY <1>6 DEF Eldest
<1> HIDE DEF e
<1>8. ASSUME NEW j \in I PROVE L(e) <= L(j)
  <2>1. CASE j = e
    BY <1>1, <1>7, <2>1
  <2>2. CASE j # e
    BY <1>7, <2>2, BeforeIs
  <2> QED BY <2>1, <2>2
<1> QED BY <1>7, <1>8 DEF e

(* Dropping the old checkpoints: the ones kept still hold what no segment  *)
(* does, and two are kept before segments are deleted.                     *)
LEMMA PruneMoves ==
    ASSUME NEW h, Holds(h), PruneCheckpoints
    PROVE  Moves(h, h)
<1> DEFINE kept == Readable \ Obsolete
<1>1. /\ pc = "prune" /\ arg' = arg /\ last' = last /\ ckpt[count.ckpt].readable
      /\ manifest' = manifest /\ status' = status /\ acked' = acked /\ count' = count
      /\ ckpt' = [i \in DOMAIN ckpt \ Obsolete |-> ckpt[i]]
      /\ \/ /\ Cardinality(kept) = 2 /\ pc' = "compact" /\ open' = 0 /\ seg' = Flushed
            /\ safe' = Len(ckpt[Eldest(kept)].at)
         \/ pc' = "idle" /\ seg' = seg /\ open' = open /\ safe' = safe
  BY DEF PruneCheckpoints
<1>2. status = "healthy" /\ Writing(h) /\ h = last
  BY <1>1, Healthy
<1>3. /\ h \in History /\ count.ckpt \in Nat /\ Layout(seg, h) /\ Complete(seg, ckpt, h)
      /\ Vouched(h) /\ count.ckpt \in DOMAIN ckpt /\ safe \in Nat /\ open \in Nat
  BY <1>1 DEF Holds, Counts
<1>4. Readable # {} /\ kept # {} /\ kept \subseteq DOMAIN ckpt
  <2>1. count.ckpt \in Readable
    BY <1>1, <1>3 DEF Readable
  <2> QED BY <2>1, PruneKeeps DEF Readable
<1>5. /\ DOMAIN ckpt' = DOMAIN ckpt \ Obsolete
      /\ \A i \in DOMAIN ckpt' : ckpt'[i] = ckpt[i]
  BY <1>1
<1>6. Readable' = kept /\ kept \subseteq DOMAIN ckpt'
  BY <1>4, <1>5 DEF Readable
<1>7. Complete(seg, ckpt', h) /\ DOMAIN ckpt' # {}
  <2>1. DOMAIN ckpt' # {}
    BY <1>4, <1>6
  <2> QED BY <1>3, <1>5, <2>1 DEF Complete
<1>8. Vouched(h)'
  BY <1>1, <1>3, <1>5 DEF Vouched
<1>9. /\ Layout(seg', h) /\ DOMAIN seg' = DOMAIN seg
      /\ Complete(seg', ckpt', h)
      /\ Whole(seg, h) => Whole(seg', h)
      /\ \A s \in DOMAIN seg : /\ Size(seg', s) = Size(seg, s) /\ seg'[s].torn = seg[s].torn
                               /\ Tight(seg, s) => Tight(seg', s)
  <2>1. CASE seg' = seg
    BY <1>3, <1>7, <2>1
  <2>2. CASE seg' = Flushed
    <3>1. /\ SameRecords(seg, seg') /\ DOMAIN seg' = DOMAIN seg
          /\ \A s \in DOMAIN seg :
               /\ seg'[s].linked = seg[s].linked /\ seg'[s].torn = seg[s].torn
               /\ seg'[s].synced = IF s = open THEN Size(seg, s) ELSE seg[s].synced
      BY <1>2, <1>3, <2>2, FlushedIs DEF Writing
    <3>2. /\ Layout(seg', h) /\ \A s \in DOMAIN seg : Size(seg', s) = Size(seg, s)
          /\ Complete(seg', ckpt', h)
          /\ Whole(seg, h) => Whole(seg', h)
      BY <1>3, <1>7, <3>1, SameLayout
    <3>3. \A s \in DOMAIN seg : Tight(seg, s) => Tight(seg', s)
      BY <3>1, <3>2 DEF Tight
    <3> QED BY <3>1, <3>2, <3>3
  <2> QED BY <1>1, <2>1, <2>2
<1>10. /\ safe' \in Nat /\ open' \in Nat
       /\ Compacting'
  <2>1. CASE pc' = "compact"
    <3>1. /\ Eldest(kept) \in DOMAIN ckpt
          /\ \A j \in kept : Len(ckpt[Eldest(kept)].at) <= Len(ckpt[j].at)
      BY <1>3, <1>4, EldestIs
    <3>2. safe' = Len(ckpt[Eldest(kept)].at) /\ open' = 0
      BY <1>1, <2>1
    <3>3. ckpt[Eldest(kept)].at \in History
      BY <1>3, <3>1 DEF Vouched
    <3>4. safe' \in Nat
      BY <3>2, <3>3, LenProperties DEF History
    <3>5. \A i \in DOMAIN ckpt' : ckpt'[i].readable => safe' <= Len(ckpt'[i].at)
      BY <1>5, <1>6, <3>1, <3>2 DEF Readable
    <3> QED BY <1>7, <3>2, <3>4, <3>5 DEF Compacting
  <2>2. CASE pc' # "compact"
    BY <1>1, <1>3, <2>2 DEF Compacting
  <2> QED BY <2>1, <2>2
<1>11. Writing(h)'
  <2>1. count.stop = 0 => \A s \in DOMAIN seg' : Tight(seg', s)
    BY <1>1, <1>2, <1>9 DEF Writing
  <2>2. /\ h = last' /\ arg' \in Seq(Value) /\ Len(arg') = 0 /\ Len(acked') = Len(h)
        /\ \A s \in DOMAIN seg' : ~seg'[s].torn
    BY <1>1, <1>2, <1>9 DEF Writing
  <2>3. open' # 0 => /\ open' \in DOMAIN seg' /\ \A s \in DOMAIN seg' : s <= open'
                     /\ open' + Size(seg', open') = Len(h) + 1
    BY <1>1, <1>2, <1>9 DEF Writing
  <2>4. pc' \in {"idle", "compact"} /\ (pc' = "compact" => open' = 0)
    BY <1>1
  <2> QED BY <1>1, <2>1, <2>2, <2>3, <2>4 DEF Writing
<1>12. Lasting(seg, h)'
  BY <1>1, <1>2, <1>9 DEF Lasting, Writing
<1>13. Holds(h)'
  <2>1. pc' \in {"idle", "compact"}
    BY <1>1
  <2> QED BY <1>1, <1>2, <1>8, <1>9, <1>10, <1>11, <1>12, <2>1 DEF Holds, Point
<1>14. Spare(h) => Spare(h)'
  <2>1. Enough => Enough'
    BY <1>1, <1>4, <1>6, PruneKeeps DEF Enough
  <2>2. pc' = "compact" => Enough'
    <3> SUFFICES ASSUME Cardinality(kept) = 2 PROVE \E i, j \in kept : i # j
      BY <1>1, <1>6 DEF Enough
    <3>1. PICK i \in kept : TRUE
      BY <1>4
    <3>2. Cardinality({i}) = 1
      BY FS_Singleton
    <3> HIDE DEF kept
    <3>3. kept # {i}
      BY <3>2
    <3> QED BY <3>1, <3>3
  <2> QED BY <1>9, <2>1, <2>2 DEF Spare
<1> QED BY <1>1, <1>13, <1>14 DEF Moves, LogStep

(* What is left when a segment goes.                                       *)
Without(f, n) == [s \in DOMAIN f \ {n} |-> f[s]]

LEMMA WithoutIs ==
    ASSUME NEW f, NEW h, Layout(f, h), NEW n
    PROVE  /\ Layout(Without(f, n), h) /\ DOMAIN Without(f, n) = DOMAIN f \ {n}
           /\ \A s \in DOMAIN Without(f, n) :
                Without(f, n)[s] = f[s] /\ Size(Without(f, n), s) = Size(f, s)
<1> DEFINE w == Without(f, n)
<1>1. DOMAIN w = DOMAIN f \ {n} /\ \A s \in DOMAIN w : w[s] = f[s]
  BY DEF Without
<1>2. \A s \in DOMAIN w : Size(w, s) = Size(f, s)
  BY <1>1 DEF Size
<1>3. w \in [DOMAIN w -> Segment]
  BY DEF Without, Layout
<1> HIDE DEF w
<1>4. Layout(w, h)
  BY <1>1, <1>2, <1>3 DEF Layout
<1> QED BY <1>1, <1>2, <1>4 DEF w

(* A segment is deleted only if every readable checkpoint is past it.      *)
LEMMA DeleteMoves ==
    ASSUME NEW h, Holds(h), DeleteSegment
    PROVE  Moves(h, h)
<1>0. PICK n, f : n = Min(Deletable) /\ f = Without(seg, n)
  OBVIOUS
<1>1. /\ pc = "compact" /\ pc' = pc /\ arg' = arg /\ last' = last /\ Deletable # {}
      /\ seg' = Linked(f) /\ manifest' = manifest /\ ckpt' = ckpt /\ status' = status
      /\ open' = open /\ safe' = safe /\ acked' = acked /\ count' = count
  BY <1>0 DEF DeleteSegment, Without
<1>2. status = "healthy" /\ Writing(h) /\ open = 0
  BY <1>1, Healthy DEF Writing
<1>3. /\ Layout(seg, h) /\ Complete(seg, ckpt, h) /\ Compacting /\ safe \in Nat
      /\ h \in History /\ Len(h) \in Nat /\ Vouched(h)
  BY LenProperties DEF Holds, History
<1>4. \A s \in DOMAIN seg : s \in Nat \ {0} /\ Size(seg, s) \in Nat
  BY <1>3, SegmentFields
<1>5. n \in Deletable
  <2>1. Deletable \subseteq Nat
    BY <1>4 DEF Deletable
  <2> QED BY <1>0, <1>1, <2>1, MinIs
<1>6. PICK t \in DOMAIN seg : t > n /\ t - 1 <= safe /\ n \in DOMAIN seg
  BY <1>5 DEF Deletable
<1>7. /\ Layout(f, h) /\ DOMAIN f = DOMAIN seg \ {n}
      /\ \A s \in DOMAIN f : f[s] = seg[s] /\ Size(f, s) = Size(seg, s)
  BY <1>0, <1>3, WithoutIs, ZenonT(60)
<1>8. Complete(f, ckpt, h)
  <2> SUFFICES ASSUME NEW m \in 1..Len(h), ~InSegment(f, m)
               PROVE  DOMAIN ckpt # {} /\ \A i \in DOMAIN ckpt : ckpt[i].readable => m <= Len(ckpt[i].at)
    BY DEF Complete
  <2>1. CASE ~InSegment(seg, m)
    BY <1>3, <2>1 DEF Complete
  <2>2. CASE InSegment(seg, m)
    <3>1. PICK s \in DOMAIN seg : s <= m /\ m < s + Size(seg, s)
      BY <2>2 DEF InSegment
    <3>2. s = n
      BY <1>7, <3>1 DEF InSegment
    <3>3. n + Size(seg, n) <= t
      BY <1>3, <1>4, <1>6 DEF Layout
    <3>4. m <= safe
      BY <1>3, <1>4, <1>6, <3>1, <3>2, <3>3
    <3>5. ASSUME NEW i \in DOMAIN ckpt, ckpt[i].readable PROVE m <= Len(ckpt[i].at)
      <4>1. safe <= Len(ckpt[i].at)
        BY <1>1, <1>3, <3>5 DEF Compacting
      <4>2. ckpt[i].at \in History
        BY <1>3 DEF Vouched
      <4>3. Len(ckpt[i].at) \in Nat
        BY <4>2, LenProperties DEF History
      <4> QED BY <1>3, <3>4, <4>1, <4>3
    <3> QED BY <1>1, <1>3, <3>5 DEF Compacting
  <2> QED BY <2>1, <2>2
<1>9. /\ SameRecords(f, seg') /\ DOMAIN seg' = DOMAIN f
      /\ \A s \in DOMAIN f : /\ seg'[s].linked /\ seg'[s].synced = f[s].synced
                             /\ seg'[s].torn = f[s].torn
  BY <1>1, <1>7, LinkedIs
<1>10. /\ Layout(seg', h) /\ Complete(seg', ckpt, h)
       /\ \A s \in DOMAIN f : Size(seg', s) = Size(f, s)
  BY <1>7, <1>8, <1>9, SameLayout
<1>11. count.stop = 0 => \A s \in DOMAIN seg' : Tight(seg', s)
  BY <1>1, <1>2, <1>7, <1>9, <1>10 DEF Writing, Tight
<1>12. Writing(h)'
  BY <1>1, <1>2, <1>7, <1>9, <1>10, <1>11 DEF Writing
<1>13. Lasting(seg, h)' /\ Compacting' /\ Vouched(h)'
  BY <1>1, <1>3, <1>11 DEF Lasting, Compacting, Vouched
<1>14. Holds(h)'
  BY <1>1, <1>2, <1>10, <1>12, <1>13 DEF Holds, Point
<1>15. Spare(h) => Spare(h)'
  BY <1>1 DEF Spare, Enough, Readable
<1> QED BY <1>1, <1>14, <1>15 DEF Moves, LogStep

LEMMA CompactedMoves ==
    ASSUME NEW h, Holds(h), Compacted
    PROVE  Moves(h, h)
<1>1. /\ pc = "compact" /\ pc' = "idle" /\ arg' = arg /\ last' = last
      /\ seg' = seg /\ manifest' = manifest /\ ckpt' = ckpt /\ status' = status
      /\ open' = open /\ safe' = 0 /\ acked' = acked /\ count' = count
  BY DEF Compacted
<1>2. status = "healthy" /\ Writing(h)
  BY <1>1, Healthy
<1>3. Writing(h)'
  BY <1>1, <1>2 DEF Writing
<1>4. Lasting(seg, h)' /\ Compacting' /\ Vouched(h)'
  BY <1>1 DEF Holds, Lasting, InDoubt, Compacting, Vouched
<1>5. Holds(h)'
  BY <1>1, <1>2, <1>3, <1>4 DEF Holds, Point
<1>6. Spare(h) => Spare(h)'
  BY <1>1 DEF Spare, Enough, Readable
<1> QED BY <1>1, <1>5, <1>6 DEF Moves, LogStep

-----------------------------------------------------------------------------
(* What goes wrong: the writer is gone and its files are what it left.     *)

(* The new history is told to nobody, and the callers rely on the old one. *)
LEMMA ImageStep ==
    ASSUME NEW h, Holds(h), NEW now, NEW g, Image(now, h, g), acked' = acked
    PROVE  LogStep(h, g) /\ Vouched(g) /\ g \in History
<1>1. g \in History /\ Vouched(h) /\ h \in History
  BY DEF Holds, Image
<1>2. Vouched(g)
  BY <1>1, VouchedMoves DEF Image
<1> QED BY <1>1, <1>2 DEF LogStep, Image

(* A writer that stopped, with the files of a history g.                   *)
Stopped(g) ==
    /\ g \in History /\ count' \in Counts /\ safe' = 0 /\ open' = 0 /\ pc' = "idle"
    /\ arg' = <<>> /\ status' \in {"recovery_required", "down"}
    /\ status' = "down" /\ count'.stop = 0 => \A s \in DOMAIN seg' : Tight(seg', s)
    /\ count'.stop = 0 \/ count'.power = 0
    /\ Layout(seg', g) /\ Complete(seg', ckpt', g) /\ Lasting(seg, g)'
    /\ Vouched(g)'

LEMMA StoppedHolds ==
    ASSUME NEW g, Stopped(g)
    PROVE  Holds(g)'
  BY DEF Stopped, Holds, Point, Compacting

LEMMA StoppedSpare ==
    ASSUME NEW h, NEW g, Spare(h), pc' = "idle", Whole(seg, h) => Whole(seg', g),
           Enough => Enough'
    PROVE  Spare(g)'
  BY DEF Spare

(* An I/O error.                                                           *)
LEMMA FailMoves ==
    ASSUME NEW h, Holds(h), WriterFails
    PROVE  \E g : Moves(h, g)
<1>1. /\ status = "healthy" /\ status' = "recovery_required" /\ pc' = "idle" /\ open' = 0
      /\ arg' = <<>> /\ safe' = 0 /\ acked' = acked
      /\ count' = count \/ count' = [count EXCEPT !["fail"] = @ + 1]
  BY DEF WriterFails, Counted
<1>2. /\ count' \in Counts /\ count'.ckpt = count.ckpt /\ count'.stop = count.stop
      /\ count'.power = count.power /\ count'.rot = count.rot
      /\ count.stop = 0 \/ count.power = 0
  BY <1>1 DEF Holds, Counts
<1>3. CASE seg' \in Partial /\ UNCHANGED <<manifest, ckpt>>
  <2>1. PICK g : Image(seg', h, g)
    BY <1>3, PartialImage
  <2>2. LogStep(h, g) /\ Vouched(g) /\ g \in History
    BY <1>1, <2>1, ImageStep
  <2>3. Vouched(g)' /\ Lasting(seg, g)' /\ Layout(seg', g) /\ Complete(seg', ckpt', g)
    BY <1>1, <1>2, <1>3, <2>1, <2>2 DEF Vouched, Lasting, InDoubt, Image
  <2>4. Holds(g)'
    BY <1>1, <1>2, <2>2, <2>3, StoppedHolds DEF Stopped
  <2>5. Spare(h) => Spare(g)'
    <3>1. Enough => Enough'
      BY <1>2, <1>3 DEF Enough, Readable
    <3> QED BY <1>1, <2>1, <3>1, StoppedSpare DEF Image
  <2> QED BY <2>2, <2>4, <2>5 DEF Moves
<1>4. CASE pc = "manifest" /\ manifest' = last /\ seg' = Linked(seg) /\ UNCHANGED ckpt
  <2>1. /\ Layout(seg', h) /\ Complete(seg', ckpt', h) /\ Vouched(h)'
        /\ count'.stop = 0 => \A s \in DOMAIN seg' : Tight(seg', s)
        /\ Whole(seg, h) => Whole(seg', h)
    BY <1>1, <1>2, <1>4, ManifestKeeps
  <2>2. Holds(h)'
    BY <1>1, <1>2, <2>1, StoppedHolds DEF Stopped, Holds, Lasting
  <2>3. Spare(h) => Spare(h)'
    <3>1. Enough => Enough'
      BY <1>2, <1>4 DEF Enough, Readable
    <3> QED BY <1>1, <2>1, <3>1, StoppedSpare
  <2> QED BY <1>1, <2>2, <2>3 DEF Moves, LogStep
<1>5. CASE pc = "snapshot" /\ ckpt' = Renamed /\ seg' = Linked(seg) /\ UNCHANGED manifest
  <2>1. /\ Layout(seg', h) /\ Complete(seg', ckpt', h) /\ Vouched(h)'
        /\ count'.stop = 0 => \A s \in DOMAIN seg' : Tight(seg', s)
        /\ Whole(seg, h) => Whole(seg', h)
        /\ Readable \subseteq Readable'
    BY <1>1, <1>2, <1>5, RenamedKeeps
  <2>2. Holds(h)'
    BY <1>1, <1>2, <2>1, StoppedHolds DEF Stopped, Holds, Lasting
  <2>3. Spare(h) => Spare(h)'
    <3>1. Enough => Enough'
      BY <1>2, <2>1 DEF Enough
    <3> QED BY <1>1, <2>1, <3>1, StoppedSpare
  <2> QED BY <1>1, <2>2, <2>3 DEF Moves, LogStep
<1> QED BY <1>3, <1>4, <1>5 DEF WriterFails

(* A checkpoint becomes unreadable.                                        *)
LEMMA RotMoves ==
    ASSUME NEW h, Holds(h), NEW i \in DOMAIN ckpt, Rot(i)
    PROVE  Moves(h, h)
<1>1. /\ count.rot < MaxRot /\ ckpt' = [ckpt EXCEPT ![i].readable = FALSE]
      /\ count' = [count EXCEPT !["rot"] = @ + 1]
      /\ seg' = seg /\ manifest' = manifest /\ status' = status /\ pc' = pc /\ arg' = arg
      /\ last' = last /\ open' = open /\ safe' = safe /\ acked' = acked
  BY DEF Rot, Counted, writer
<1>2. /\ count' \in Counts /\ count'.ckpt = count.ckpt /\ count'.stop = count.stop
      /\ count'.power = count.power /\ count'.rot = count.rot + 1 /\ count.rot \in Nat
  BY <1>1 DEF Holds, Counts
<1>3. Vouched(h) /\ Complete(seg, ckpt, h) /\ Compacting
  BY DEF Holds
<1>4. \A j \in DOMAIN ckpt : ckpt[j] \in [at : History, readable : BOOLEAN]
  BY <1>3 DEF Vouched
<1>5. /\ DOMAIN ckpt' = DOMAIN ckpt /\ ckpt' \in [DOMAIN ckpt -> [at : History, readable : BOOLEAN]]
      /\ \A j \in DOMAIN ckpt : /\ ckpt'[j].at = ckpt[j].at
                                /\ ckpt'[j].readable = (ckpt[j].readable /\ j # i)
  <2>1. ckpt' = [j \in DOMAIN ckpt |-> IF j = i THEN [ckpt[j] EXCEPT !.readable = FALSE] ELSE ckpt[j]]
    BY <1>1, <1>3 DEF Vouched
  <2>2. ASSUME NEW j \in DOMAIN ckpt
        PROVE  /\ ckpt'[j] \in [at : History, readable : BOOLEAN] /\ ckpt'[j].at = ckpt[j].at
               /\ ckpt'[j].readable = (ckpt[j].readable /\ j # i)
    BY <1>4, <2>1
  <2>3. DOMAIN ckpt' = DOMAIN ckpt /\ ckpt' = [j \in DOMAIN ckpt |-> ckpt'[j]]
    BY <2>1
  <2> QED BY <2>2, <2>3
<1>6. Vouched(h)' /\ Complete(seg, ckpt, h)' /\ Compacting'
  <2>1. Complete(seg, ckpt, h)'
    BY <1>1, <1>3, <1>5 DEF Complete
  <2>2. Vouched(h)'
    BY <1>1, <1>2, <1>3, <1>5 DEF Vouched
  <2> QED BY <1>1, <1>3, <1>5, <2>1, <2>2 DEF Compacting
<1>7. Lasting(seg, h)' /\ (status = "healthy" => Writing(h)')
  BY <1>1, <1>2 DEF Holds, Lasting, InDoubt, Writing
<1>8. Holds(h)'
  BY <1>1, <1>2, <1>5, <1>6, <1>7 DEF Holds
<1>9. MaxRot <= 1 /\ Enough => Enough'
  <2> SUFFICES ASSUME MaxRot <= 1, Enough PROVE Enough'
    OBVIOUS
  <2>1. MaxRot \in Nat
    BY JournalAssumption
  <2>2. count.rot = 0 /\ count'.rot > 0
    BY <1>1, <1>2, <2>1
  <2>3. Readable' = Readable \ {i}
    BY <1>5 DEF Readable
  <2> QED BY <2>2, <2>3 DEF Enough
<1>10. MaxRot <= 1 /\ Spare(h) => Spare(h)'
  BY <1>1, <1>9 DEF Spare
<1> QED BY <1>1, <1>8, <1>10 DEF Moves, LogStep

LEMMA StopEnds ==
    ASSUME OneKindOfEnd, count \in Counts, Ended("stop")
    PROVE  /\ count' \in Counts /\ count'.ckpt = count.ckpt /\ count'.rot = count.rot
           /\ count'.stop # 0 /\ count'.power = 0
<1>1. count' = [count EXCEPT !["stop"] = @ + 1]
  BY DEF Ended, Counted
<1>2. /\ count' \in Counts /\ count'.ckpt = count.ckpt /\ count'.rot = count.rot
      /\ count'.stop \in Nat /\ count'.stop > 0 /\ count'.power \in Nat
  BY <1>1 DEF Counts
<1>3. PICK e \in Ends : count'.stop <= e.stop /\ count'.power <= e.power
  BY DEF Ended
<1>4. e.stop \in Nat /\ e.power \in Nat /\ (e.stop = 0 \/ e.power = 0)
  BY JournalAssumption DEF OneKindOfEnd
<1> QED BY <1>2, <1>3, <1>4

LEMMA PowerEnds ==
    ASSUME OneKindOfEnd, count \in Counts, Ended("power")
    PROVE  /\ count' \in Counts /\ count'.ckpt = count.ckpt /\ count'.rot = count.rot
           /\ count.stop = 0 /\ count'.stop = 0
<1>1. count' = [count EXCEPT !["power"] = @ + 1]
  BY DEF Ended, Counted
<1>2. /\ count' \in Counts /\ count'.ckpt = count.ckpt /\ count'.rot = count.rot
      /\ count'.stop \in Nat /\ count'.stop = count.stop
      /\ count'.power \in Nat /\ count'.power > 0
  BY <1>1 DEF Counts
<1>3. PICK e \in Ends : count'.stop <= e.stop /\ count'.power <= e.power
  BY DEF Ended
<1>4. e.stop \in Nat /\ e.power \in Nat /\ (e.stop = 0 \/ e.power = 0)
  BY JournalAssumption DEF OneKindOfEnd
<1> QED BY <1>2, <1>3, <1>4

LEMMA CloseMoves ==
    ASSUME NEW h, Holds(h), OneKindOfEnd, Close
    PROVE  Moves(h, h)
<1>1. /\ status' = "down" /\ pc' = "idle" /\ open' = 0 /\ arg' = <<>> /\ safe' = 0
      /\ acked' = acked /\ seg' = Flushed /\ Ended("stop") /\ manifest' = manifest
      /\ ckpt' = ckpt /\ pc = "idle"
  BY DEF Close, Gone
<1>2. /\ count' \in Counts /\ count'.ckpt = count.ckpt /\ count'.rot = count.rot
      /\ count'.stop # 0 /\ count'.power = 0
  BY <1>1, StopEnds DEF Holds
<1>3. Layout(seg, h) /\ Complete(seg, ckpt, h) /\ (open # 0 => open \in DOMAIN seg)
  BY DEF Holds, Writing
<1>4. SameRecords(seg, seg')
  BY <1>1, <1>3, FlushedIs
<1>5. /\ Layout(seg', h) /\ Complete(seg', ckpt', h)
      /\ Whole(seg, h) => Whole(seg', h)
  BY <1>1, <1>3, <1>4, SameLayout
<1>6. Vouched(h)' /\ Lasting(seg, h)' /\ h \in History
  BY <1>1, <1>2 DEF Holds, Vouched, Lasting
<1>7. Holds(h)'
  BY <1>1, <1>2, <1>5, <1>6, StoppedHolds DEF Stopped
<1>8. Spare(h) => Spare(h)'
  <2>1. Enough => Enough'
    BY <1>1, <1>2 DEF Enough, Readable
  <2> QED BY <1>1, <1>5, <2>1, StoppedSpare
<1> QED BY <1>1, <1>7, <1>8 DEF Moves, LogStep

LEMMA KillMoves ==
    ASSUME NEW h, Holds(h), OneKindOfEnd, Kill
    PROVE  \E g : Moves(h, g)
<1>1. /\ status' = "down" /\ pc' = "idle" /\ open' = 0 /\ arg' = <<>> /\ safe' = 0
      /\ acked' = acked /\ seg' \in Partial /\ Ended("stop") /\ manifest' = manifest
      /\ ckpt' = ckpt
  BY DEF Kill, Gone
<1>2. /\ count' \in Counts /\ count'.ckpt = count.ckpt /\ count'.rot = count.rot
      /\ count'.stop # 0 /\ count'.power = 0
  BY <1>1, StopEnds DEF Holds
<1>3. PICK g : Image(seg', h, g)
  BY <1>1, PartialImage
<1>4. LogStep(h, g) /\ Vouched(g) /\ g \in History
  BY <1>1, <1>3, ImageStep
<1>5. Vouched(g)' /\ Lasting(seg, g)' /\ Layout(seg', g) /\ Complete(seg', ckpt', g)
  BY <1>1, <1>2, <1>3, <1>4 DEF Vouched, Lasting, Image
<1>6. Holds(g)'
  BY <1>1, <1>2, <1>4, <1>5, StoppedHolds DEF Stopped
<1>7. Spare(h) => Spare(g)'
  <2>1. Enough => Enough'
    BY <1>1, <1>2 DEF Enough, Readable
  <2> QED BY <1>1, <1>3, <2>1, StoppedSpare DEF Image
<1> QED BY <1>4, <1>6, <1>7 DEF Moves

(* What survives of an image is a step of the log.                         *)
LEMMA SurvivesStep ==
    ASSUME NEW h, Holds(h), NEW now, NEW g, Image(now, h, g), NEW f, NEW k,
           Survives(f, h, g, k), acked' = acked
    PROVE  LogStep(h, k) /\ Vouched(k) /\ k \in History
<1>1. LogStep(h, g) /\ Vouched(g) /\ g \in History /\ h \in History
  BY ImageStep DEF Holds
<1>2. k \in History /\ (k = g \/ (InDoubt(g) /\ k = Upto(g, Len(g) - 1) /\ Len(g) > 0))
  BY DEF Survives
<1>3. Vouched(k)
  BY <1>1, <1>2, VouchedMoves
<1>4. CASE k = g
  BY <1>1, <1>2, <1>3, <1>4
<1>5. CASE g = h /\ k # g
  BY <1>1, <1>2, <1>3, <1>5 DEF LogStep
<1>6. ASSUME NEW v \in Value, g = Append(h, v), k # g PROVE k = h
  <2>1. g = h \o <<v>> /\ <<v>> \in Seq(Value) /\ Len(<<v>>) = 1 /\ Len(h) \in Nat
    BY <1>1, <1>6, AppendIsConcat, LenProperties DEF History
  <2>2. Len(g) = Len(h) + 1 /\ \A n \in 0..Len(h) : Upto(g, n) = Upto(h, n)
    BY <1>1, <2>1, Longer
  <2>3. Len(g) - 1 = Len(h) /\ Upto(h, Len(h)) = h
    BY <1>1, <2>1, <2>2, UptoIs
  <2> QED BY <1>2, <1>6, <2>1, <2>2, <2>3
<1>7. CASE k = h
  BY <1>2, <1>3, <1>7 DEF LogStep
<1> QED BY <1>4, <1>5, <1>6, <1>7 DEF Image

LEMMA PowerMoves ==
    ASSUME NEW h, Holds(h), OneKindOfEnd, PowerLoss
    PROVE  \E g : Moves(h, g)
<1>1. /\ status' = "down" /\ pc' = "idle" /\ open' = 0 /\ arg' = <<>> /\ safe' = 0
      /\ acked' = acked /\ Ended("power") /\ manifest' = manifest /\ ckpt' = ckpt
  BY DEF PowerLoss, Gone
<1>2. /\ count' \in Counts /\ count'.ckpt = count.ckpt /\ count'.rot = count.rot
      /\ count.stop = 0 /\ count'.stop = 0
  BY <1>1, PowerEnds DEF Holds
<1>3. PICK now \in Partial : CutTo(now, seg')
  <2>0. PICK now \in Partial :
          \E D \in SUBSET DOMAIN now :
            /\ \A s \in DOMAIN now \ D : ~now[s].linked
            /\ seg' \in {f \in [D -> UNION {Remains(now[s]) : s \in D}] :
                            \A s \in D : f[s] \in Remains(now[s])}
    BY DEF PowerLoss
  <2>1. PICK D \in SUBSET DOMAIN now :
          /\ \A s \in DOMAIN now \ D : ~now[s].linked
          /\ seg' \in {f \in [D -> UNION {Remains(now[s]) : s \in D}] :
                          \A s \in D : f[s] \in Remains(now[s])}
    BY <2>0
  <2>2. seg' \in [D -> UNION {Remains(now[s]) : s \in D}] /\ \A s \in D : seg'[s] \in Remains(now[s])
    BY <2>1
  <2>3. DOMAIN seg' = D /\ seg' = [s \in D |-> seg'[s]]
    BY <2>2
  <2>4. CutTo(now, seg')
    BY <2>1, <2>2, <2>3 DEF CutTo
  <2> QED BY <2>4
<1>4. PICK g : Image(now, h, g)
  BY PartialImage
<1>5. PICK k : Survives(seg', h, g, k)
  <2>1. CASE Lost(now, seg') = {}
    BY <1>2, <1>3, <1>4, <2>1, CutNothing
  <2>2. CASE Lost(now, seg') # {}
    BY <1>2, <1>3, <1>4, <2>2, CutRecord
  <2> QED BY <2>1, <2>2
<1>6. LogStep(h, k) /\ Vouched(k) /\ k \in History
  BY <1>1, <1>4, <1>5, SurvivesStep
<1>7. /\ Vouched(k)' /\ Lasting(seg, k)' /\ Layout(seg', k) /\ Complete(seg', ckpt', k)
      /\ \A s \in DOMAIN seg' : Tight(seg', s)
  BY <1>1, <1>2, <1>5, <1>6 DEF Vouched, Lasting, Survives
<1>8. Holds(k)'
  BY <1>1, <1>2, <1>6, <1>7, StoppedHolds DEF Stopped
<1>9. Spare(h) => Spare(k)'
  <2>1. Enough => Enough'
    BY <1>1, <1>2 DEF Enough, Readable
  <2> QED BY <1>1, <1>5, <2>1, StoppedSpare DEF Survives
<1> QED BY <1>6, <1>8, <1>9 DEF Moves

-----------------------------------------------------------------------------
(* The next start.                                                         *)

(* A start that accepts the files finds h.                                 *)
LEMMA AcceptedIs ==
    ASSUME NEW h, Holds(h), DOMAIN ckpt # {} => Readable # {}
    PROVE  Recovers /\ RecoveredHistory = h
<1>1. Numbered(h) /\ Complete(seg, ckpt, h)
  BY DEF Holds, Numbered, Counts
<1>2. Readable # {} \/ Whole(seg, h)
  BY <1>1 DEF Complete, Whole
<1>3. RecoveredHistory = h /\ OnlyTailTorn /\ Chained /\ ManifestFits
  BY <1>1, <1>2, Recovery
<1> QED BY <1>3 DEF Recovers

(* The incomplete line at the end of segment m is cut off.                 *)
Mended(f, m) == [f EXCEPT ![m].torn = FALSE, ![m].synced = Len(f[m].recs)]

LEMMA MendedIs ==
    ASSUME NEW f, NEW h, Layout(f, h), NEW m \in DOMAIN f, f[m].torn
    PROVE  /\ Layout(Mended(f, m), h) /\ SameRecords(f, Mended(f, m))
           /\ DOMAIN Mended(f, m) = DOMAIN f /\ Max(DOMAIN f) = m
           /\ \A s \in DOMAIN f : /\ ~Mended(f, m)[s].torn
                                  /\ Tight(f, s) => Tight(Mended(f, m), s)
<1> DEFINE w == Mended(f, m)
<1>1. \A s \in DOMAIN f : /\ f[s] \in Segment /\ s \in Nat /\ f[s].torn \in BOOLEAN
                          /\ Len(f[s].recs) \in Nat /\ Size(f, s) = Len(f[s].recs)
  BY SegmentFields DEF Size
<1>2. \A s \in DOMAIN f : (s <= m) /\ (f[s].torn => s = m)
  BY <1>1 DEF Layout
<1>3. Max(DOMAIN f) = m
  BY <1>1, <1>2, MaxIs
<1>4. DOMAIN w = DOMAIN f /\ w = [s \in DOMAIN f |-> w[s]]
  BY DEF Mended, Layout
<1>5. ASSUME NEW s \in DOMAIN f
      PROVE  w[s] = IF s = m THEN [[f[s] EXCEPT !.torn = FALSE] EXCEPT !.synced = Len(f[s].recs)]
                    ELSE f[s]
  BY DEF Mended
<1> HIDE DEF w
<1>6. ASSUME NEW s \in DOMAIN f
      PROVE  /\ w[s] \in Segment /\ w[s].recs = f[s].recs /\ w[s].linked = f[s].linked
             /\ w[s].torn = (f[s].torn /\ s # m)
             /\ w[s].synced = IF s = m THEN Len(f[s].recs) ELSE f[s].synced
  BY <1>1, <1>5, ZenonT(60) DEF Segment
<1>7. SameRecords(f, w)
  BY <1>4, <1>6 DEF SameRecords
<1>8. Layout(w, h) /\ \A s \in DOMAIN f : Size(w, s) = Size(f, s)
  BY <1>7, SameLayout
<1>9. \A s \in DOMAIN f : ~w[s].torn /\ (Tight(f, s) => Tight(w, s))
  BY <1>1, <1>2, <1>6, <1>8, ZenonT(60) DEF Tight
<1> QED BY <1>3, <1>4, <1>7, <1>8, <1>9 DEF w

LEMMA BootMoves ==
    ASSUME NEW h, Holds(h), Boot
    PROVE  Moves(h, h)
<1>1. /\ status = "down" /\ manifest' = manifest /\ ckpt' = ckpt /\ pc' = pc /\ arg' = arg
      /\ open' = open /\ safe' = safe /\ count' = count
  BY DEF Boot
<1>2. /\ pc = "idle" /\ open = 0 /\ arg = <<>> /\ h \in History /\ Layout(seg, h)
      /\ Complete(seg, ckpt, h) /\ Vouched(h) /\ Prefix(h, h) /\ Len(h) \in Nat
      /\ count.stop = 0 => \A s \in DOMAIN seg : Tight(seg, s)
  BY <1>1, PrefixSelf DEF Holds
<1>3. Spare(h) /\ (Whole(seg, h) => Whole(seg', h)) => Spare(h)'
  BY <1>1 DEF Spare, Enough, Readable
<1>4. CASE ~Recovers
  <2>1. status' = "recovery_required" /\ last' = last /\ acked' = acked /\ seg' = seg
    BY <1>4 DEF Boot
  <2>2. Vouched(h)' /\ Lasting(seg, h)'
    BY <1>1, <1>2, <2>1 DEF Vouched, Lasting
  <2>3. Holds(h)'
    BY <1>1, <1>2, <2>1, <2>2 DEF Holds, Compacting
  <2> QED BY <1>3, <2>1, <2>3 DEF Moves, LogStep
<1>5. CASE Recovers
  <2>1. RecoveredHistory = h
    BY <1>5, AcceptedIs DEF Recovers
  <2>2. status' = "healthy" /\ last' = h /\ acked' = h
    BY <1>5, <2>1 DEF Boot
  <2>3. /\ Layout(seg', h) /\ Complete(seg', ckpt, h) /\ DOMAIN seg' = DOMAIN seg
        /\ Whole(seg, h) => Whole(seg', h)
        /\ \A s \in DOMAIN seg : ~seg'[s].torn /\ (Tight(seg, s) => Tight(seg', s))
    <3>1. CASE \A s \in DOMAIN seg : ~seg[s].torn
      <4>1. seg' = seg
        BY <1>5, <3>1 DEF Boot
      <4> QED BY <1>2, <3>1, <4>1
    <3>2. ASSUME NEW m \in DOMAIN seg, seg[m].torn
          PROVE  /\ Layout(seg', h) /\ Complete(seg', ckpt, h) /\ DOMAIN seg' = DOMAIN seg
                 /\ Whole(seg, h) => Whole(seg', h)
                 /\ \A s \in DOMAIN seg : ~seg'[s].torn /\ (Tight(seg, s) => Tight(seg', s))
      <4>0. PICK w : w = Mended(seg, m)
        OBVIOUS
      <4>1. /\ Layout(w, h) /\ SameRecords(seg, w) /\ DOMAIN w = DOMAIN seg
            /\ Max(DOMAIN seg) = m
            /\ \A s \in DOMAIN seg : ~w[s].torn /\ (Tight(seg, s) => Tight(w, s))
        BY <1>2, <3>2, <4>0, MendedIs
      <4>2. seg' = Linked(w)
        <5>1. seg' = Linked([seg EXCEPT ![Max(DOMAIN seg)].torn = FALSE,
                         ![Max(DOMAIN seg)].synced = Len(seg[Max(DOMAIN seg)].recs)])
          BY <1>5, <3>2 DEF Boot
        <5> QED BY <4>0, <4>1, <5>1 DEF Mended
      <4>3. /\ SameRecords(w, seg') /\ DOMAIN seg' = DOMAIN w
            /\ \A s \in DOMAIN w : /\ seg'[s].linked /\ seg'[s].synced = w[s].synced
                                   /\ seg'[s].torn = w[s].torn
        BY <4>1, <4>2, LinkedIs
      <4>4. Complete(w, ckpt, h) /\ (Whole(seg, h) => Whole(w, h))
        BY <1>2, <4>1, SameLayout
      <4>5. /\ Layout(seg', h) /\ Complete(seg', ckpt, h)
            /\ \A s \in DOMAIN w : Size(seg', s) = Size(w, s)
            /\ Whole(w, h) => Whole(seg', h)
        BY <4>1, <4>3, <4>4, SameLayout
      <4>6. \A s \in DOMAIN seg : Tight(w, s) => Tight(seg', s)
        BY <4>1, <4>3, <4>5 DEF Tight
      <4> QED BY <4>1, <4>3, <4>4, <4>5, <4>6
    <3> QED BY <3>1, <3>2
  <2>4. Vouched(h)'
    <3>1. \A i \in DOMAIN ckpt : Len(ckpt[i].at) <= Len(h)
      BY <1>2 DEF Vouched, Prefix
    <3> QED BY <1>1, <1>2, <2>2, <3>1 DEF Vouched
  <2>5. Writing(h)' /\ Lasting(seg, h)'
    BY <1>1, <1>2, <2>2, <2>3 DEF Writing, Lasting
  <2>6. Holds(h)'
    BY <1>1, <1>2, <2>2, <2>3, <2>4, <2>5 DEF Holds, Compacting
  <2> QED BY <1>3, <2>2, <2>3, <2>6 DEF Moves, LogStep
<1> QED BY <1>4, <1>5

-----------------------------------------------------------------------------
(* The theorems.                                                           *)

LEMMA InitHolds ==
    ASSUME Init
    PROVE  Holds(<<>>) /\ Spare(<<>>)
<1>1. <<>> \in History /\ Len(<<>>) = 0 /\ DOMAIN seg = {} /\ DOMAIN ckpt = {}
  BY DEF Init, History
<1>2. Prefix(<<>>, <<>>) /\ seg \in [{} -> Segment]
      /\ ckpt \in [{} -> [at : History, readable : BOOLEAN]]
  BY <1>1, PrefixSelf DEF Init
<1>3. count \in Counts /\ count.ckpt = 0 /\ count.stop = 0 /\ count.power = 0
  BY DEF Init, Counts
<1>4. Layout(seg, <<>>) /\ Complete(seg, ckpt, <<>>) /\ Lasting(seg, <<>>) /\ Whole(seg, <<>>)
  BY <1>1, <1>2 DEF Layout, Complete, Lasting, Whole
<1>5. Vouched(<<>>)
  BY <1>1, <1>2, <1>3 DEF Vouched, Init
<1>6. Writing(<<>>)
  BY <1>1 DEF Writing, Init
<1>7. Holds(<<>>)
  BY <1>1, <1>3, <1>4, <1>5, <1>6 DEF Holds, Compacting, Init, Point
<1> QED BY <1>4, <1>7 DEF Spare, Init

LEMMA StutterMoves ==
    ASSUME NEW h, Holds(h), UNCHANGED vars
    PROVE  Moves(h, h)
<1>1. /\ seg' = seg /\ manifest' = manifest /\ ckpt' = ckpt /\ status' = status /\ pc' = pc
      /\ arg' = arg /\ last' = last /\ open' = open /\ safe' = safe /\ acked' = acked
      /\ count' = count
  BY DEF vars
<1>2. Lasting(seg, h)' /\ Vouched(h)' /\ Compacting' /\ (status = "healthy" => Writing(h)')
  BY <1>1 DEF Holds, Lasting, InDoubt, Vouched, Compacting, Writing
<1>3. Holds(h)'
  BY <1>1, <1>2 DEF Holds
<1>4. Spare(h) => Spare(h)'
  BY <1>1 DEF Spare, Enough, Readable
<1> QED BY <1>1, <1>3, <1>4 DEF Moves, LogStep

(* Every step moves the history by a step of the log.                      *)
LEMMA NextMoves ==
    ASSUME OneKindOfEnd, NEW h, Holds(h), [Next]_vars
    PROVE  \E g : Moves(h, g)
<1>1. CASE \E v \in Value : Call(v)
  BY <1>1, CallMoves
<1>2. CASE WriteRecord
  BY <1>2, WriteMoves
<1>3. CASE SyncRecord
  BY <1>3, SyncMoves
<1>4. CASE WriteManifest
  BY <1>4, ManifestMoves
<1>5. CASE Acknowledge
  BY <1>5, AcknowledgeMoves
<1>6. CASE CallCheckpoint
  BY <1>6, CallCheckpointMoves
<1>7. CASE RenameCheckpoint
  BY <1>7, RenameMoves
<1>8. CASE PruneCheckpoints
  BY <1>8, PruneMoves
<1>9. CASE DeleteSegment
  BY <1>9, DeleteMoves
<1>10. CASE Compacted
  BY <1>10, CompactedMoves
<1>11. CASE WriterFails
  BY <1>11, FailMoves
<1>12. CASE \E i \in DOMAIN ckpt : Rot(i)
  BY <1>12, RotMoves
<1>13. CASE Close
  BY <1>13, CloseMoves
<1>14. CASE Kill
  BY <1>14, KillMoves
<1>15. CASE PowerLoss
  BY <1>15, PowerMoves
<1>16. CASE Boot
  BY <1>16, BootMoves
<1>17. CASE UNCHANGED vars
  BY <1>17, StutterMoves
<1> QED BY <1>1, <1>2, <1>3, <1>4, <1>5, <1>6, <1>7, <1>8, <1>9, <1>10, <1>11, <1>12,
           <1>13, <1>14, <1>15, <1>16, <1>17 DEF Next

(* Whatever was killed, cut or failed, the next start accepts the files if *)
(* one checkpoint can be read (_recover, _compact_segments).  Any number   *)
(* of starts, checkpoints, I/O errors and spoiled checkpoint files, with   *)
(* processes that are killed or a power that fails.                        *)
THEOREM JournalRecoverable ==
    ASSUME OneKindOfEnd
    PROVE  Spec => []Recoverable
<1> DEFINE Inv == \E h : Holds(h)
<1>1. Init => Inv
  BY InitHolds
<1>2. Inv /\ [Next]_vars => Inv'
  <2> SUFFICES ASSUME NEW h, Holds(h), [Next]_vars PROVE \E g : Holds(g)'
    OBVIOUS
  <2>1. PICK g : Moves(h, g)
    BY NextMoves
  <2> QED BY <2>1 DEF Moves
<1>3. Inv => Recoverable
  BY AcceptedIs DEF Recoverable
<1> QED BY <1>1, <1>2, <1>3, PTL DEF Spec

(* With a checkpoint to spare, the files hold h.                           *)
Kept == \E h : Holds(h) /\ Spare(h)
Found == \A h : Holds(h) /\ Spare(h) => RecoveredHistory = h /\ RecoveredAt = Len(h)

LEMMA FoundAlways == Found
<1> SUFFICES ASSUME NEW h, Holds(h), Spare(h)
             PROVE  RecoveredHistory = h /\ RecoveredAt = Len(h)
  BY DEF Found
<1>1. Numbered(h) /\ Complete(seg, ckpt, h)
  BY DEF Holds, Numbered, Counts
<1>2. Readable # {} \/ Whole(seg, h)
  BY DEF Spare, Enough
<1> QED BY <1>1, <1>2, Recovery

LEMMA KeptMoves ==
    ASSUME OneKindOfEnd, MaxRot <= 1
    PROVE  (Init => Kept) /\ (Kept /\ [Next]_vars => Kept')
<1>1. Init => Kept
  BY InitHolds DEF Kept
<1>2. ASSUME NEW h, Holds(h), Spare(h), [Next]_vars PROVE \E g : (Holds(g) /\ Spare(g))'
  <2>1. PICK g : Moves(h, g)
    BY <1>2, NextMoves
  <2> QED BY <1>2, <2>1 DEF Moves
<1> QED BY <1>1, <1>2 DEF Kept

(* A step of the history is a step of the log, or changes nothing of it.   *)
LEMMA LogStepIs ==
    ASSUME NEW h, Holds(h), NEW g, LogStep(h, g), RecoveredHistory = h, RecoveredHistory' = g
    PROVE  [Log!Next]_(Log!vars)
<1>1. /\ h \in History /\ acked \in History /\ Len(h) \in Nat /\ Len(acked) \in Nat
      /\ Len(acked) <= Len(h) /\ Len(h) <= Len(acked) + 1
  BY LenProperties DEF Holds, Vouched, Prefix, History
<1>2. CASE g = h /\ acked' = acked
  BY <1>2 DEF Log!vars
<1>3. CASE g = h /\ acked' = h
  <2>1. CASE Len(acked) < Len(h)
    BY <1>3, <2>1 DEF Log!Next, Log!Promise
  <2>2. CASE Len(acked) = Len(h)
    BY <1>3, <2>2 DEF Log!vars
  <2> QED BY <1>1, <2>1, <2>2
<1>4. CASE Len(acked) = Len(h) /\ (\E v \in Value : g = Append(h, v)) /\ acked' = acked
  BY <1>4 DEF Log!Next, Log!Write
<1>5. CASE InDoubt(h) /\ g = Upto(h, Len(h) - 1) /\ Len(h) > 0 /\ acked' = acked
  <2>1. Len(acked) < Len(h) /\ Len(h) - 1 = Len(acked)
    BY <1>1, <1>5 DEF InDoubt
  <2> QED BY <1>5, <2>1 DEF Log!Next, Log!Forget, Upto
<1> QED BY <1>2, <1>3, <1>4, <1>5 DEF LogStep

(* The journal implements DurableLog: a start finds every record that was  *)
(* acknowledged, unchanged, and at most the one in flight besides          *)
(* (reserve_before_send, _recover).  Where the media spoil more than one   *)
(* checkpoint, both that compaction kept may be gone.                      *)
THEOREM JournalImplementsLog ==
    ASSUME OneKindOfEnd, MaxRot <= 1
    PROVE  Spec => ImplementsLog
<1>1. Init => Kept
  BY KeptMoves
<1>2. Kept /\ [Next]_vars => Kept'
  BY KeptMoves
<1>3. Found'
  BY FoundAlways, PTL
<1>4. Init => Log!Init
  <2> SUFFICES ASSUME Init PROVE RecoveredHistory = <<>> /\ Len(acked) = 0
    BY DEF Log!Init
  <2>1. RecoveredHistory = <<>>
    BY InitHolds, FoundAlways DEF Found
  <2> QED BY <2>1 DEF Init
<1>5. Kept /\ [Next]_vars => [Log!Next]_(Log!vars)
  <2> SUFFICES ASSUME NEW h, Holds(h), Spare(h), [Next]_vars PROVE [Log!Next]_(Log!vars)
    BY DEF Kept
  <2>1. PICK g : Moves(h, g)
    BY NextMoves
  <2>2. Holds(g)' /\ Spare(g)' /\ LogStep(h, g)
    BY <2>1 DEF Moves
  <2>3. RecoveredHistory = h
    BY FoundAlways DEF Found
  <2>4. RecoveredHistory' = g
    BY <1>3, <2>2 DEF Found
  <2> QED BY <2>2, <2>3, <2>4, LogStepIs
<1> QED BY <1>1, <1>2, <1>4, <1>5, PTL DEF Spec, ImplementsLog, Log!Spec

(* What was returned was acknowledged; the media spoil nothing.            *)
Returned == told \in Nat /\ told <= Len(acked) /\ \A i \in DOMAIN ckpt : ckpt[i].readable

LEMMA ReturnedMoves ==
    ASSUME NEW h, Holds(h), NEW g, Moves(h, g), Returned, MaxRot = 0, [Next]_vars
    PROVE  Returned'
<1>1. /\ acked \in History /\ Len(acked) \in Nat /\ Len(h) \in Nat /\ Len(acked) <= Len(h)
  BY LenProperties DEF Holds, Vouched, Prefix, History
<1>2. acked' = acked \/ acked' = h
  BY DEF Moves, LogStep
<1>3. told' = told \/ (told' = Len(last) /\ acked' = last)
  BY DEF Next, vars, Call, WriteRecord, SyncRecord, WriteManifest, Acknowledge, CallCheckpoint,
         RenameCheckpoint, PruneCheckpoints, DeleteSegment, Compacted, WriterFails, Rot, Close,
         Kill, PowerLoss, Gone, Boot
<1>4. told' \in Nat /\ told' <= Len(acked')
  BY <1>1, <1>2, <1>3 DEF Returned, Acknowledge
<1>5. ASSUME NEW i \in DOMAIN ckpt, Rot(i) PROVE FALSE
  BY <1>5 DEF Rot, Holds, Counts
<1>6. ckpt' = ckpt \/ ckpt' = Renamed \/ ckpt' = [i \in DOMAIN ckpt \ Obsolete |-> ckpt[i]]
  BY <1>5 DEF Next, vars, Call, WriteRecord, SyncRecord, WriteManifest, Acknowledge,
              CallCheckpoint, RenameCheckpoint, PruneCheckpoints, DeleteSegment, Compacted,
              WriterFails, Close, Kill, PowerLoss, Boot
<1>7. \A i \in DOMAIN ckpt' : ckpt'[i].readable
  BY <1>6 DEF Returned, Renamed
<1> QED BY <1>4, <1>7 DEF Returned

(* A record that was returned to its caller is found by the next start     *)
(* (reserve_before_send), if processes are killed or the power fails but   *)
(* not both, and the checkpoint files stay readable.                       *)
THEOREM JournalReturnedDurable ==
    ASSUME OneKindOfEnd, MaxRot = 0
    PROVE  Spec => []ReturnedDurable
<1> DEFINE Inv == \E h : Holds(h) /\ Spare(h) /\ Returned
<1>1. Init => Inv
  <2> SUFFICES ASSUME Init PROVE Returned
    BY InitHolds
  <2> QED BY DEF Init, Returned
<1>2. Inv /\ [Next]_vars => Inv'
  <2> SUFFICES ASSUME NEW h, Holds(h), Spare(h), Returned, [Next]_vars
               PROVE  \E g : (Holds(g) /\ Spare(g) /\ Returned)'
    OBVIOUS
  <2>1. PICK g : Moves(h, g)
    BY NextMoves
  <2>2. Returned'
    BY <2>1, ReturnedMoves
  <2> QED BY <2>1, <2>2 DEF Moves
<1>3. Inv => ReturnedDurable
  <2> SUFFICES ASSUME NEW h, Holds(h), Spare(h), Returned
               PROVE  Recovers /\ told <= RecoveredAt
    BY DEF ReturnedDurable
  <2>1. DOMAIN ckpt # {} => Readable # {}
    BY DEF Returned, Readable
  <2>2. Recovers /\ RecoveredAt = Len(h)
    BY <2>1, AcceptedIs, FoundAlways DEF Found
  <2>3. Len(acked) \in Nat /\ Len(h) \in Nat /\ Len(acked) <= Len(h)
    BY LenProperties DEF Holds, Vouched, Prefix, History
  <2> QED BY <2>2, <2>3 DEF Returned
<1> QED BY <1>1, <1>2, <1>3, PTL DEF Spec
=============================================================================
