------------------------ MODULE LifecycleSpoolProofs ------------------------
(***************************************************************************)
(* Proofs about LifecycleSpool: a terminal event is never forgotten while  *)
(* its process lives, a record that was synced and listed stays until a    *)
(* cursor above it is written, a start reads what the last process left    *)
(* and hides no loss, and a reserved slot is always there.                 *)
(***************************************************************************)
EXTENDS LifecycleSpool, FiniteSetTheorems, SequenceTheorems, TLAPS

(* Processes are killed, or the power fails, but not both: a start lists   *)
(* what a killed process had not synced, and a power loss would take it.   *)
OneKindOfFault == ~({"kill", "power"} \subseteq Faults)

Record  == [seq : Nat, ev : Event \cup {Gap}]
Segment == [recs : Seq(Record), synced : Nat, torn : BOOLEAN, linked : BOOLEAN]
Command == [kind : {"event"}, ev : Event] \cup [kind : {"flush", "stop"}]

Size(s, i) == Len(s[i].recs)

(* A file: its sequence numbers grow, and no more is synced than is there. *)
File(f) ==
    /\ f \in Segment /\ f.synced <= Len(f.recs)
    /\ \A j, k \in 1 .. Len(f.recs) : j <= k => f.recs[j].seq <= f.recs[k].seq

(* No name and no sequence number exceeds n.                               *)
Bound(s, n) ==
    /\ DOMAIN s \subseteq 1 .. n
    /\ \A i \in DOMAIN s : \A k \in 1 .. Size(s, i) : s[i].recs[k].seq <= n

Files(s) ==
    /\ s = [i \in DOMAIN s |-> s[i]]
    /\ \E n \in Nat : Bound(s, n)
    /\ \A i \in DOMAIN s : File(s[i])

Serving  == {"idle", "batch", "append", "sync", "manifest", "failing", "drain", "dead"}
Starting == {"open", "gap", "gapsync", "opened"}
Acking   == {"put", "wait", "lock", "cursor", "rename", "manifest", "unlink"}

Memory == [status : {"healthy", "failed", "opening", "down", "corrupt"},
           accepting : BOOLEAN, queued : Int, anchor : Nat, list : SUBSET Nat]
Events == [used : SUBSET Request, accepted : SUBSET Event, promised : SUBSET Record,
           lost : BOOLEAN, cut : BOOLEAN]

Typed ==
    /\ Files(seg) /\ Files(acked) /\ cursor \in Nat
    /\ manifest \in [clean : BOOLEAN, anchor : Nat, names : SUBSET Nat]
    /\ mem \in Memory
    /\ queue \in Seq(Command) /\ flight \in Seq(Event)
    /\ wpc \in Serving \cup Starting \cup {"none"}
    /\ apc \in [at : Acking \cup {"idle"}, to : Nat]
    /\ left \in [Request -> Nat] /\ \A r \in Request : left[r] <= Budget[r]
    /\ hist \in Events

(* Only a process that serves has accepted anything, and is acknowledged.  *)
Phase ==
    /\ wpc \notin Serving => apc = Idle /\ hist.accepted = {}
    /\ mem.status \in {"healthy", "failed"} <=> wpc \in Serving
    /\ mem.status \in {"down", "corrupt"} <=> wpc = "none"
    /\ wpc \notin {"none", "open"} =>
         DOMAIN seg # {} /\ Size(seg, Current) <= SegmentCap
    /\ wpc = "gap" => seg[Current].recs = <<>>
    /\ wpc \in {"idle", "none"} \cup Starting => flight = <<>>

(* What the writer has taken: its terminal event is the last, and before a *)
(* sync all of it is in the segments.                                      *)
InFlight ==
    /\ \A k \in 1 .. Len(flight) - 1 : ~Terminal(flight[k])
    /\ wpc \in {"sync", "manifest"} =>
         \A k \in 1 .. Len(flight) : flight[k] \in EventsIn(seg) \cup EventsPromised

(* Every segment but the open one was synced and listed, and of the open   *)
(* one what was synced, unless the writer is at it.                        *)
Sealed ==
    /\ Recorded(acked) \subseteq hist.promised
    /\ wpc \in Serving => \A i \in DOMAIN seg \ {Current} :
         ToSet(seg[i].recs) \subseteq hist.promised
    /\ wpc \in {"idle", "batch", "append", "sync"} =>
         \A k \in 1 .. seg[Current].synced : seg[Current].recs[k] \in hist.promised

(* The segments being deleted are below the cursor.                        *)
Below ==
    /\ \A r \in Recorded(acked) : r.seq < cursor
    /\ \A i \in DOMAIN acked : acked[i].recs # <<>>
    /\ apc.at \in {"put", "wait", "lock", "cursor"} => apc.to > cursor
    /\ apc.at \in {"rename", "manifest", "unlink"} => apc.to = cursor
    /\ apc.at = "manifest" => DOMAIN acked # {}

(* Where power fails, only the open segment has a tail that is not synced. *)
Tidy(s) == \A i \in DOMAIN s : s[i].synced = Size(s, i)

Swept ==
    "power" \in Faults =>
        /\ Tidy(acked)
        /\ \A i \in DOMAIN seg : seg[i].synced = Size(seg, i) \/
             (i = Current /\ wpc \notin {"none", "open", "manifest", "opened"})

(* Where a promised record is safe.                                        *)
Safe(s, r) ==
    \E i \in DOMAIN s : \E k \in 1 .. Size(s, i) :
        /\ s[i].recs[k] = r
        /\ "power" \in Faults => s[i].linked /\ k <= s[i].synced

Secured == \A r \in hist.promised : r.seq >= cursor => Safe(seg, r)

Good == Typed /\ Phase /\ InFlight /\ Sealed /\ Below /\ TerminalKept
Durable == Swept /\ Secured

Moves == Good' /\ (OneKindOfFault /\ Durable => Durable')

-----------------------------------------------------------------------------
(* The least and the greatest of a set of numbers.                         *)

(* Of the sets of numbers below a member, one has no smaller one.          *)
LEMMA Least ==
    ASSUME NEW S \in SUBSET Nat, S # {}
    PROVE  \E n \in S : \A m \in S : n <= m
<1> DEFINE D(n) == {m \in S : m < n}
           T == {D(n) : n \in S}
<1>1. T \subseteq FiniteSubsetsOf(Nat)
  <2> SUFFICES ASSUME NEW n \in S PROVE D(n) \in FiniteSubsetsOf(Nat)
    OBVIOUS
  <2>1. IsFiniteSet(D(n))
    BY FS_BoundedSetOfNaturals
  <2> QED BY <2>1 DEF FiniteSubsetsOf
<1>2. PICK x \in T : \A y \in T : ~(<<y, x>> \in StrictSubsetOrdering(Nat))
  <2> DEFINE R == StrictSubsetOrdering(Nat)
             F == FiniteSubsetsOf(Nat)
  <2>1. IsWellFoundedOn(R, F)
    BY FS_StrictSubsetOrderingWellFounded
  <2>2. T # {} /\ T \subseteq F
    BY <1>1
  <2> HIDE DEF R, F, T
  <2>3. \E x \in T : \A y \in T : ~(<<y, x>> \in R)
    BY <2>1, <2>2, WFMin
  <2> QED BY <2>3 DEF R
<1>3. PICK n \in S : x = D(n)
  BY <1>2
<1>4. ASSUME NEW m \in S, m < n PROVE FALSE
  <2>1. D(m) \in T
    OBVIOUS
  <2>2. D(m) \subseteq D(n)
    <3> SUFFICES ASSUME NEW k \in S, k < m PROVE k < n
      OBVIOUS
    <3>1. k \in Nat /\ m \in Nat /\ n \in Nat
      OBVIOUS
    <3> QED BY <1>4, <3>1
  <2>3. m \in D(n) /\ m \notin D(m) /\ D(n) \subseteq Nat
    <3>1. m \in Nat /\ ~(m < m)
      OBVIOUS
    <3> QED BY <1>4, <3>1
  <2>4. <<D(m), x>> \in StrictSubsetOrdering(Nat)
    <3>1. D(m) \subseteq x /\ D(m) # x /\ x \subseteq Nat
      BY <1>3, <2>2, <2>3
    <3> HIDE DEF D
    <3> QED BY <3>1 DEF StrictSubsetOrdering
  <2> QED BY <1>2, <2>1, <2>4
<1> QED BY <1>4

LEMMA Greatest ==
    ASSUME NEW k \in Nat, NEW S \in SUBSET (0..k), S # {}
    PROVE  \E n \in S : \A m \in S : m <= n
<1> DEFINE T == {k - n : n \in S}
<1>1. T \subseteq Nat /\ T # {}
  <2>1. \A n \in S : k - n \in Nat
    OBVIOUS
  <2> QED BY <2>1
<1> HIDE DEF T
<1>2. PICK t \in T : \A u \in T : t <= u
  BY <1>1, Least
<1>3. PICK n \in S : t = k - n
  BY <1>2 DEF T
<1>4. ASSUME NEW m \in S PROVE m <= n
  <2>1. k - m \in T
    BY DEF T
  <2> QED BY <1>2, <1>3, <2>1
<1> QED BY <1>4

(* Max and Min are the greatest and the least, where there is one.         *)
LEMMA MaxIs ==
    ASSUME NEW S \in SUBSET Nat, NEW n \in S, \A m \in S : m <= n
    PROVE  Max(S) = n
<1>1. \A y \in S : n >= y
  OBVIOUS
<1>2. Max(S) \in S /\ \A y \in S : Max(S) >= y
  BY <1>1 DEF Max
<1> HIDE DEF Max
<1>3. Max(S) \in Nat /\ n \in Nat /\ Max(S) <= n /\ n <= Max(S)
  BY <1>2
<1> QED BY <1>3

LEMMA Highest ==
    ASSUME NEW k \in Nat, NEW S \in SUBSET (0 .. k), S # {}
    PROVE  Max(S) \in S /\ \A n \in S : n <= Max(S)
<1>1. PICK n \in S : \A m \in S : m <= n
  BY Greatest
<1>2. Max(S) = n
  BY <1>1, MaxIs
<1> QED BY <1>1, <1>2

-----------------------------------------------------------------------------
(* Files.                                                                  *)

LEMMA FileFields ==
    ASSUME NEW f, File(f)
    PROVE  /\ f \in Segment /\ f.recs \in Seq(Record) /\ f.synced \in Nat
           /\ f.torn \in BOOLEAN /\ f.linked \in BOOLEAN
           /\ Len(f.recs) \in Nat /\ DOMAIN f.recs = 1 .. Len(f.recs)
           /\ \A k \in 1 .. Len(f.recs) : f.recs[k] \in Record /\ f.recs[k].seq \in Nat
<1>1. f \in Segment
  BY DEF File
<1>2. f.recs \in Seq(Record) /\ f.synced \in Nat /\ f.torn \in BOOLEAN /\ f.linked \in BOOLEAN
  BY <1>1 DEF Segment
<1>3. Len(f.recs) \in Nat /\ DOMAIN f.recs = 1 .. Len(f.recs)
  BY <1>2, LenProperties
<1>4. \A k \in 1 .. Len(f.recs) : f.recs[k] \in Record
  BY <1>2, ElementOfSeq
<1> QED BY <1>1, <1>2, <1>3, <1>4 DEF Record

LEMMA RecordedIs ==
    ASSUME NEW s, Files(s), NEW r
    PROVE  r \in Recorded(s) <=> \E i \in DOMAIN s : \E k \in 1 .. Size(s, i) : s[i].recs[k] = r
<1>1. \A i \in DOMAIN s : DOMAIN s[i].recs = 1 .. Size(s, i)
  BY FileFields DEF Files, Size
<1>2. r \in Recorded(s) <=> \E i \in DOMAIN s : r \in ToSet(s[i].recs)
  BY DEF Recorded
<1>3. \A i \in DOMAIN s : r \in ToSet(s[i].recs) <=> \E k \in 1 .. Size(s, i) : s[i].recs[k] = r
  BY <1>1 DEF ToSet
<1> QED BY <1>2, <1>3

LEMMA HighestName ==
    ASSUME NEW s, Files(s)
    PROVE  /\ DOMAIN s \subseteq Nat \ {0}
           /\ DOMAIN s # {} =>
                Max(DOMAIN s) \in DOMAIN s /\ \A i \in DOMAIN s : i <= Max(DOMAIN s)
<1>1. PICK n \in Nat : Bound(s, n)
  BY DEF Files
<1>2. DOMAIN s \subseteq 0 .. n /\ DOMAIN s \subseteq Nat \ {0}
  BY <1>1 DEF Bound
<1> QED BY <1>2, Highest

(* The sequence numbers of the files, with another number.                 *)
LEMMA HighestSeq ==
    ASSUME NEW s, Files(s), NEW a \in Nat
    PROVE  /\ Max({a} \cup {r.seq : r \in Recorded(s)}) \in Nat
           /\ \A r \in Recorded(s) : r.seq \in Nat /\ r.seq <= Max({a} \cup {x.seq : x \in Recorded(s)})
<1> DEFINE S == {a} \cup {r.seq : r \in Recorded(s)}
<1>1. PICK n \in Nat : Bound(s, n)
  BY DEF Files
<1>2. ASSUME NEW r \in Recorded(s) PROVE r.seq \in 0 .. n
  <2>1. PICK i \in DOMAIN s : \E k \in 1 .. Size(s, i) : s[i].recs[k] = r
    BY RecordedIs
  <2>2. PICK k \in 1 .. Size(s, i) : s[i].recs[k] = r
    BY <2>1
  <2>3. File(s[i])
    BY DEF Files
  <2>4. s[i].recs[k].seq \in Nat
    BY <2>3, FileFields DEF Size
  <2> QED BY <1>1, <2>2, <2>4 DEF Bound
<1>3. PICK m \in Nat : a <= m /\ n <= m
  <2>1. CASE a <= n
    BY <2>1
  <2>2. CASE n <= a
    BY <2>2
  <2> QED BY <2>1, <2>2
<1>4. S \subseteq 0 .. m /\ S # {}
  BY <1>2, <1>3
<1> HIDE DEF S
<1>5. Max(S) \in S /\ \A n1 \in S : n1 <= Max(S)
  BY <1>4, Highest
<1>6. Max(S) \in Nat
  <2>1. \A x \in 0 .. m : x \in Nat
    BY <1>3
  <2> QED BY <1>4, <1>5, <2>1
<1>7. \A r \in Recorded(s) : r.seq \in S
  BY DEF S
<1> QED BY <1>2, <1>5, <1>6, <1>7 DEF S

(* The same of the set of the numbers alone.                               *)
LEMMA HighestOf ==
    ASSUME NEW s, Files(s), Recorded(s) # {}
    PROVE  Max({r.seq : r \in Recorded(s)}) \in Nat
<1>1. PICK n \in Nat : Bound(s, n)
  BY DEF Files
<1> DEFINE S == {r.seq : r \in Recorded(s)}
<1>2. S \subseteq 0 .. n /\ S # {}
  <2> SUFFICES ASSUME NEW r \in Recorded(s) PROVE r.seq \in 0 .. n
    OBVIOUS
  <2>1. PICK i \in DOMAIN s : \E k \in 1 .. Size(s, i) : s[i].recs[k] = r
    BY RecordedIs
  <2>2. PICK k \in 1 .. Size(s, i) : s[i].recs[k] = r
    BY <2>1
  <2>3. File(s[i])
    BY DEF Files
  <2>4. s[i].recs[k].seq \in Nat
    BY <2>3, FileFields DEF Size
  <2> QED BY <1>1, <2>2, <2>4 DEF Bound
<1> HIDE DEF S
<1>3. Max(S) \in S
  BY <1>2, Highest
<1> QED BY <1>2, <1>3 DEF S

(* A step that changes no record.                                          *)
Same(s, t) ==
    /\ DOMAIN t = DOMAIN s /\ t = [i \in DOMAIN t |-> t[i]]
    /\ \A i \in DOMAIN s : t[i] \in Segment /\ t[i].recs = s[i].recs /\ t[i].synced <= Size(s, i)

LEMMA SameFiles ==
    ASSUME NEW s, NEW t, Files(s), Same(s, t)
    PROVE  /\ Files(t) /\ Recorded(t) = Recorded(s)
           /\ \A i \in DOMAIN s : Size(t, i) = Size(s, i)
<1>1. \A i \in DOMAIN s : Size(t, i) = Size(s, i)
  BY DEF Same, Size
<1>2. \A i \in DOMAIN s : File(t[i])
  BY DEF Files, File, Same, Size
<1>3. \E n \in Nat : Bound(t, n)
  BY <1>1 DEF Files, Bound, Same
<1>4. Recorded(t) = Recorded(s)
  BY DEF Recorded, Same
<1> QED BY <1>1, <1>2, <1>3, <1>4 DEF Files, Same

LEMMA LinkedIs ==
    ASSUME NEW s, Files(s)
    PROVE  /\ Same(s, Linked(s)) /\ DOMAIN Linked(s) = DOMAIN s
           /\ \A i \in DOMAIN s : Linked(s)[i].linked /\ Linked(s)[i].synced = s[i].synced
<1>1. \A i \in DOMAIN s : s[i] \in Segment /\ s[i].synced <= Size(s, i)
  BY DEF Files, File, Size
<1> QED BY <1>1 DEF Same, Linked, Segment

LEMMA SyncedIs ==
    ASSUME Files(seg), DOMAIN seg # {}
    PROVE  /\ Same(seg, Synced(seg)) /\ DOMAIN Synced(seg) = DOMAIN seg
           /\ \A i \in DOMAIN seg :
                /\ Synced(seg)[i].linked = seg[i].linked
                /\ Synced(seg)[i].synced = IF i = Current THEN Size(seg, i) ELSE seg[i].synced
<1>1. \A i \in DOMAIN seg : /\ seg[i] \in Segment /\ seg[i].synced <= Size(seg, i)
                            /\ Size(seg, i) \in Nat
  BY FileFields DEF Files, File, Size
<1>2. DOMAIN Synced(seg) = DOMAIN seg
  BY DEF Synced
<1>3. ASSUME NEW i \in DOMAIN seg
      PROVE  Synced(seg)[i] = IF i = Current THEN [seg[i] EXCEPT !.synced = Size(seg, i)] ELSE seg[i]
  BY DEF Synced, Size
<1>4. ASSUME NEW i \in DOMAIN seg
      PROVE  /\ Synced(seg)[i] \in Segment /\ Synced(seg)[i].recs = seg[i].recs
             /\ Synced(seg)[i].linked = seg[i].linked
             /\ Synced(seg)[i].synced = IF i = Current THEN Size(seg, i) ELSE seg[i].synced
  BY <1>1, <1>3 DEF Segment
<1>5. Synced(seg) = [i \in DOMAIN seg |-> Synced(seg)[i]]
  BY DEF Synced, Files
<1>6. ASSUME NEW i \in DOMAIN seg PROVE Synced(seg)[i].synced <= Size(seg, i)
  BY <1>1, <1>4
<1> HIDE DEF Synced
<1> QED BY <1>2, <1>4, <1>5, <1>6 DEF Same

(* A record more in file c.                                                *)
Added(s, c, r) == [s EXCEPT ![c].recs = Append(@, r)]

Appended(s, t, c, r) ==
    /\ Files(t) /\ DOMAIN t = DOMAIN s /\ Recorded(t) = Recorded(s) \cup {r}
    /\ \A i \in DOMAIN s : /\ t[i].synced = s[i].synced /\ t[i].linked = s[i].linked
                           /\ Size(t, i) = Size(s, i) + (IF i = c THEN 1 ELSE 0)
                           /\ i # c => t[i].recs = s[i].recs
                           /\ \A k \in 1 .. Size(s, i) : t[i].recs[k] = s[i].recs[k]

LEMMA AddedIs ==
    ASSUME NEW s, Files(s), NEW c \in DOMAIN s, NEW r \in Record,
           \A x \in Recorded(s) : x.seq <= r.seq
    PROVE  Appended(s, Added(s, c, r), c, r)
<1> DEFINE t == Added(s, c, r)
<1>1. \A i \in DOMAIN s : /\ s[i] \in Segment /\ s[i].recs \in Seq(Record) /\ s[i].synced \in Nat
                          /\ Size(s, i) = Len(s[i].recs) /\ Size(s, i) \in Nat
  BY FileFields DEF Files, Size
<1>2. DOMAIN t = DOMAIN s /\ t = [i \in DOMAIN t |-> t[i]]
  BY DEF Added, Files
<1>3. t[c] = [s[c] EXCEPT !.recs = Append(s[c].recs, r)] /\ \A i \in DOMAIN s \ {c} : t[i] = s[i]
  BY DEF Added
<1> HIDE DEF t
<1> DEFINE q == s[c].recs
           p == Append(q, r)
           n == Len(q)
<1>4. /\ p \in Seq(Record) /\ Len(p) = n + 1 /\ \A k \in 1 .. n : p[k] = q[k]
      /\ p[n + 1] = r /\ n \in Nat
  BY <1>1, AppendProperties
<1>5. /\ t[c].recs = p /\ t[c].synced = s[c].synced /\ t[c].linked = s[c].linked
      /\ t[c] \in Segment
  BY <1>1, <1>3, <1>4 DEF Segment
<1> HIDE DEF p
<1>6. \A k \in 1 .. n + 1 : p[k].seq <= r.seq
  <2> SUFFICES ASSUME NEW k \in 1 .. n + 1 PROVE p[k].seq <= r.seq
    OBVIOUS
  <2>1. CASE k = n + 1
    BY <1>4, <2>1 DEF Record
  <2>2. CASE k \in 1 .. n
    <3>1. q[k] \in Recorded(s)
      BY <1>1, <2>2, RecordedIs
    <3> QED BY <1>4, <2>2, <3>1
  <2> QED BY <1>4, <2>1, <2>2
<1>7. File(t[c])
  <2>1. File(s[c])
    BY DEF Files
  <2>2. t[c].synced <= Len(t[c].recs)
    BY <1>1, <1>4, <1>5, <2>1 DEF File
  <2>3. ASSUME NEW j \in 1 .. n + 1, NEW k \in 1 .. n + 1, j <= k
        PROVE  p[j].seq <= p[k].seq
    <3>1. CASE k = n + 1
      BY <1>4, <1>6, <3>1
    <3>2. CASE k \in 1 .. n
      <4>1. j \in 1 .. n
        BY <1>4, <2>3, <3>2
      <4> QED BY <1>4, <2>1, <2>3, <3>2, <4>1 DEF File
    <3> QED BY <1>4, <3>1, <3>2
  <2> QED BY <1>4, <1>5, <2>2, <2>3 DEF File
<1>8. \A i \in DOMAIN s : File(t[i])
  BY <1>3, <1>7 DEF Files
<1>9. \A i \in DOMAIN s : /\ t[i].synced = s[i].synced /\ t[i].linked = s[i].linked
                          /\ Size(t, i) = Size(s, i) + (IF i = c THEN 1 ELSE 0)
                          /\ i # c => t[i].recs = s[i].recs
                          /\ \A k \in 1 .. Size(s, i) : t[i].recs[k] = s[i].recs[k]
  <2> SUFFICES ASSUME NEW i \in DOMAIN s
               PROVE  /\ t[i].synced = s[i].synced /\ t[i].linked = s[i].linked
                      /\ Size(t, i) = Size(s, i) + (IF i = c THEN 1 ELSE 0)
                      /\ i # c => t[i].recs = s[i].recs
                      /\ \A k \in 1 .. Size(s, i) : t[i].recs[k] = s[i].recs[k]
    OBVIOUS
  <2>1. CASE i = c
    BY <1>1, <1>4, <1>5, <2>1 DEF Size
  <2>2. CASE i # c
    BY <1>1, <1>3, <2>2 DEF Size
  <2> QED BY <2>1, <2>2
<1>10. \E m \in Nat : Bound(t, m)
  <2>1. PICK m \in Nat : Bound(s, m)
    BY DEF Files
  <2>2. PICK b \in Nat : m <= b /\ r.seq <= b
    <3>1. r.seq \in Nat
      BY DEF Record
    <3>2. CASE m <= r.seq
      BY <3>1, <3>2
    <3>3. CASE r.seq <= m
      BY <3>1, <3>3
    <3> QED BY <3>1, <3>2, <3>3
  <2>3. DOMAIN t \subseteq 1 .. b
    BY <1>2, <2>1, <2>2 DEF Bound
  <2>4. ASSUME NEW i \in DOMAIN t, NEW k \in 1 .. Size(t, i) PROVE t[i].recs[k].seq <= b
    <3>1. CASE i = c
      <4>1. t[i].recs[k] = p[k] /\ k \in 1 .. n + 1
        BY <1>4, <1>5, <2>4, <3>1 DEF Size
      <4>2. p[k] \in Record
        BY <1>4, <4>1, ElementOfSeq
      <4>3. p[k].seq \in Nat /\ r.seq \in Nat
        BY <4>2 DEF Record
      <4> QED BY <1>6, <2>2, <4>1, <4>3
    <3>2. CASE i # c
      <4>1. t[i].recs = s[i].recs /\ k \in 1 .. Size(s, i) /\ i \in DOMAIN s
        BY <1>2, <1>3, <3>2 DEF Size
      <4>2. File(s[i])
        BY <4>1 DEF Files
      <4>3. s[i].recs[k].seq \in Nat
        BY <1>1, <4>1, <4>2, FileFields
      <4>4. s[i].recs[k].seq <= m
        BY <2>1, <4>1 DEF Bound
      <4> QED BY <2>2, <4>1, <4>3, <4>4
    <3> QED BY <3>1, <3>2
  <2> QED BY <2>3, <2>4 DEF Bound
<1>11. Files(t)
  BY <1>2, <1>8, <1>10 DEF Files
<1>12. Recorded(t) = Recorded(s) \cup {r}
  <2>1. \A x : x \in Recorded(t) <=> \E i \in DOMAIN t : \E k \in 1 .. Size(t, i) : t[i].recs[k] = x
    BY <1>11, RecordedIs
  <2>2. \A x : x \in Recorded(s) <=> \E i \in DOMAIN s : \E k \in 1 .. Size(s, i) : s[i].recs[k] = x
    BY RecordedIs
  <2>3. ASSUME NEW x \in Recorded(s) PROVE x \in Recorded(t)
    <3>1. PICK i \in DOMAIN s : \E k \in 1 .. Size(s, i) : s[i].recs[k] = x
      BY <2>2
    <3>2. PICK k \in 1 .. Size(s, i) : s[i].recs[k] = x
      BY <3>1
    <3>3. k \in 1 .. Size(t, i) /\ t[i].recs[k] = x /\ i \in DOMAIN t
      BY <1>1, <1>2, <1>9, <3>2
    <3> QED BY <2>1, <3>3
  <2>4. r \in Recorded(t)
    <3>1. n + 1 \in 1 .. Size(t, c) /\ t[c].recs[n + 1] = r
      BY <1>4, <1>5 DEF Size
    <3> QED BY <1>2, <2>1, <3>1
  <2>5. ASSUME NEW x \in Recorded(t), x # r PROVE x \in Recorded(s)
    <3>1. PICK i \in DOMAIN t : \E k \in 1 .. Size(t, i) : t[i].recs[k] = x
      BY <2>1
    <3>2. PICK k \in 1 .. Size(t, i) : t[i].recs[k] = x
      BY <3>1
    <3>3. k \in 1 .. Size(s, i) /\ i \in DOMAIN s
      <4>1. CASE i = c
        <5>1. k \in 1 .. n + 1 /\ k # n + 1
          BY <1>4, <1>5, <2>5, <3>2, <4>1 DEF Size
        <5> QED BY <1>1, <1>2, <1>4, <4>1, <5>1
      <4>2. CASE i # c
        BY <1>1, <1>2, <1>9, <3>2, <4>2
      <4> QED BY <4>1, <4>2
    <3> QED BY <1>9, <2>2, <3>2, <3>3
  <2> QED BY <2>3, <2>4, <2>5
<1> QED BY <1>2, <1>9, <1>11, <1>12 DEF Appended, t

(* A file more.                                                            *)
Widened(s, t, i, f) ==
    /\ Files(t) /\ DOMAIN t = DOMAIN s \cup {i}
    /\ t[i] = f /\ \A j \in DOMAIN s \ {i} : t[j] = s[j]

LEMMA WithIs ==
    ASSUME NEW s, Files(s), NEW i \in Nat \ {0}, NEW f, File(f)
    PROVE  Widened(s, With(s, i, f), i, f)
<1> DEFINE t == With(s, i, f)
<1>1. /\ DOMAIN t = DOMAIN s \cup {i} /\ t = [j \in DOMAIN t |-> t[j]]
      /\ t[i] = f /\ \A j \in DOMAIN s \ {i} : t[j] = s[j]
  BY DEF With
<1> HIDE DEF t
<1>2. \A j \in DOMAIN t : File(t[j])
  BY <1>1 DEF Files
<1>3. PICK n \in Nat : Bound(s, n)
  BY DEF Files
<1> DEFINE L == Len(f.recs)
<1>4. L \in Nat /\ \A k \in 1 .. L : f.recs[k].seq \in Nat
  BY FileFields
<1>5. \E m \in Nat : \A k \in 1 .. L : f.recs[k].seq <= m
  <2>1. CASE L = 0
    BY <2>1
  <2>2. CASE L # 0
    <3>1. L \in 1 .. L
      BY <1>4, <2>2
    <3>2. \A k \in 1 .. L : f.recs[k].seq <= f.recs[L].seq
      BY <1>4, <3>1 DEF File
    <3> QED BY <1>4, <3>1, <3>2
  <2> QED BY <2>1, <2>2
<1>6. PICK m \in Nat : \A k \in 1 .. L : f.recs[k].seq <= m
  BY <1>5
<1> DEFINE b == n + m + i
<1>7. b \in Nat /\ n <= b /\ m <= b /\ i <= b
  OBVIOUS
<1> HIDE DEF b
<1>8. DOMAIN t \subseteq 1 .. b
  BY <1>1, <1>3, <1>7 DEF Bound
<1>9. ASSUME NEW j \in DOMAIN t, NEW k \in 1 .. Size(t, j) PROVE t[j].recs[k].seq <= b
  <2>0. t[j].recs[k].seq \in Nat
    BY <1>2, FileFields DEF Size
  <2>1. CASE j = i
    BY <1>1, <1>6, <1>7, <1>9, <2>0, <2>1 DEF Size
  <2>2. CASE j # i
    <3>1. t[j] = s[j] /\ j \in DOMAIN s
      BY <1>1, <2>2
    <3>2. t[j].recs[k].seq <= n
      BY <1>3, <1>9, <3>1 DEF Bound, Size
    <3> QED BY <1>7, <2>0, <3>2
  <2> QED BY <2>1, <2>2
<1>10. Files(t)
  BY <1>1, <1>2, <1>7, <1>8, <1>9 DEF Files, Bound
<1> QED BY <1>1, <1>10 DEF t, Widened

(* Fewer files, or files cut.                                              *)
Less(s, t) ==
    /\ DOMAIN t \subseteq DOMAIN s /\ t = [i \in DOMAIN t |-> t[i]]
    /\ \A i \in DOMAIN t : /\ t[i] \in Segment /\ t[i].synced <= Size(t, i)
                           /\ Size(t, i) <= Size(s, i)
                           /\ \A k \in 1 .. Size(t, i) : t[i].recs[k] = s[i].recs[k]

LEMMA LessFiles ==
    ASSUME NEW s, Files(s), NEW t, Less(s, t)
    PROVE  Files(t) /\ Recorded(t) \subseteq Recorded(s)
<1>1. \A i \in DOMAIN t : Size(t, i) \in Nat /\ Size(s, i) \in Nat /\ i \in DOMAIN s
  <2> SUFFICES ASSUME NEW i \in DOMAIN t PROVE Size(t, i) \in Nat /\ Size(s, i) \in Nat /\ i \in DOMAIN s
    OBVIOUS
  <2>1. i \in DOMAIN s /\ t[i].recs \in Seq(Record)
    BY DEF Less, Segment
  <2>2. Size(t, i) \in Nat
    BY <2>1, LenProperties DEF Size
  <2>3. File(s[i])
    BY <2>1 DEF Files
  <2> QED BY <2>1, <2>2, <2>3, FileFields DEF Size
<1>2. \A i \in DOMAIN t : \A k \in 1 .. Size(t, i) : k \in 1 .. Size(s, i) /\ t[i].recs[k] = s[i].recs[k]
  BY <1>1 DEF Less
<1>3. ASSUME NEW i \in DOMAIN t PROVE File(t[i])
  <2>1. File(s[i])
    BY <1>1 DEF Files
  <2>2. \A j, k \in 1 .. Size(t, i) : j <= k => t[i].recs[j].seq <= t[i].recs[k].seq
    BY <1>2, <2>1 DEF File, Size
  <2> QED BY <2>2 DEF File, Less, Size
<1>4. \E n \in Nat : Bound(t, n)
  <2>1. PICK n \in Nat : Bound(s, n)
    BY DEF Files
  <2>2. \A i \in DOMAIN t : \A k \in 1 .. Size(t, i) : t[i].recs[k].seq <= n
    BY <1>1, <1>2, <2>1 DEF Bound
  <2> QED BY <1>1, <2>1, <2>2 DEF Bound
<1>5. Files(t)
  BY <1>3, <1>4 DEF Files, Less
<1>6. ASSUME NEW x \in Recorded(t) PROVE x \in Recorded(s)
  <2>1. PICK i \in DOMAIN t : \E k \in 1 .. Size(t, i) : t[i].recs[k] = x
    BY <1>5, RecordedIs
  <2> QED BY <1>1, <1>2, <2>1, RecordedIs
<1> QED BY <1>5, <1>6

-----------------------------------------------------------------------------
(* Where an event may be.                                                  *)

EventsOf(q) == {q[i].ev : i \in {j \in 1 .. Len(q) : q[j].kind = "event"}}

Near == Queued \cup ToSet(flight) \cup kept
Far  == EventsIn(seg) \cup EventsIn(acked) \cup EventsPromised

LEMMA QueueAppend ==
    ASSUME NEW q \in Seq(Command), NEW c \in Command
    PROVE  /\ Append(q, c) \in Seq(Command) /\ EventsOf(q) \subseteq EventsOf(Append(q, c))
           /\ c.kind = "event" => c.ev \in EventsOf(Append(q, c))
<1> DEFINE p == Append(q, c)
           n == Len(q)
<1>1. /\ p \in Seq(Command) /\ Len(p) = n + 1 /\ \A i \in 1 .. n : p[i] = q[i]
      /\ p[n + 1] = c /\ n \in Nat
  BY AppendProperties, LenProperties
<1> HIDE DEF p
<1>2. \A i \in 1 .. n : i \in 1 .. Len(p) /\ p[i] = q[i]
  BY <1>1
<1>3. n + 1 \in 1 .. Len(p)
  BY <1>1
<1>4. EventsOf(q) \subseteq EventsOf(p)
  <2> SUFFICES ASSUME NEW i \in 1 .. n, q[i].kind = "event" PROVE q[i].ev \in EventsOf(p)
    BY DEF EventsOf
  <2> QED BY <1>2 DEF EventsOf
<1>5. ASSUME c.kind = "event" PROVE c.ev \in EventsOf(p)
  BY <1>1, <1>3, <1>5 DEF EventsOf
<1> QED BY <1>1, <1>4, <1>5 DEF p

(* What is left of the queue when its first n commands are taken.          *)
LEMMA QueueRest ==
    ASSUME NEW q \in Seq(Command), NEW n \in 0 .. Len(q)
    PROVE  /\ SubSeq(q, n + 1, Len(q)) \in Seq(Command)
           /\ \A e \in EventsOf(q) : \/ e \in EventsOf(SubSeq(q, n + 1, Len(q)))
                                     \/ \E i \in 1 .. n : q[i].kind = "event" /\ q[i].ev = e
<1> DEFINE m == Len(q)
           p == SubSeq(q, n + 1, m)
<1>1. m \in Nat /\ n \in Nat /\ n <= m
  BY LenProperties
<1>2. \A i \in (n + 1) .. m : q[i] \in Command
  BY <1>1, ElementOfSeq
<1>3. /\ p \in Seq(Command) /\ Len(p) = m - n
      /\ \A i \in 1 .. (m - n) : p[i] = q[n + i]
  BY <1>1, <1>2, SubSeqProperties
<1> HIDE DEF p
<1>4. ASSUME NEW i \in 1 .. m, q[i].kind = "event", i > n PROVE q[i].ev \in EventsOf(p)
  <2>1. i - n \in 1 .. Len(p) /\ p[i - n] = q[i]
    BY <1>1, <1>3, <1>4
  <2> QED BY <1>4, <2>1 DEF EventsOf
<1>5. ASSUME NEW e \in EventsOf(q), e \notin EventsOf(p)
      PROVE  \E i \in 1 .. n : q[i].kind = "event" /\ q[i].ev = e
  <2>1. PICK i \in 1 .. m : q[i].kind = "event" /\ q[i].ev = e
    BY DEF EventsOf
  <2>2. i \in 1 .. n
    BY <1>1, <1>4, <1>5, <2>1
  <2> QED BY <2>1, <2>2
<1> QED BY <1>3, <1>5 DEF p

(* A control command at the head goes.                                     *)
LEMMA QueueTail ==
    ASSUME NEW q \in Seq(Command), q # <<>>, Head(q).kind # "event"
    PROVE  Tail(q) \in Seq(Command) /\ EventsOf(q) \subseteq EventsOf(Tail(q))
<1> DEFINE p == Tail(q)
           n == Len(q)
<1>1. /\ p \in Seq(Command) /\ Len(p) = n - 1 /\ n \in Nat /\ n > 0
      /\ \A i \in 1 .. (n - 1) : p[i] = q[i + 1]
  BY HeadTailProperties, LenProperties, EmptySeq
<1>2. Head(q) = q[1]
  BY <1>1
<1> HIDE DEF p
<1>3. ASSUME NEW i \in 1 .. n, q[i].kind = "event" PROVE q[i].ev \in EventsOf(p)
  <2>1. i # 1
    BY <1>2, <1>3
  <2>2. i - 1 \in 1 .. Len(p) /\ p[i - 1] = q[i]
    BY <1>1, <2>1
  <2> QED BY <1>3, <2>2 DEF EventsOf
<1> QED BY <1>1, <1>3 DEF EventsOf, p

LEMMA FarMoves ==
    ASSUME Recorded(seg) \cup Recorded(acked) \cup hist.promised
             \subseteq Recorded(seg') \cup Recorded(acked') \cup hist'.promised
    PROVE  Far \subseteq Far'
<1> SUFFICES ASSUME NEW x \in Recorded(seg) \cup Recorded(acked) \cup hist.promised
             PROVE  x.ev \in Far'
  BY DEF Far, EventsIn, EventsPromised
<1>1. x \in Recorded(seg') \/ x \in Recorded(acked') \/ x \in hist'.promised
  OBVIOUS
<1> QED BY <1>1 DEF Far, EventsIn, EventsPromised

LEMMA KeptMoves ==
    ASSUME TerminalKept,
           Recorded(seg) \cup Recorded(acked) \cup hist.promised
             \subseteq Recorded(seg') \cup Recorded(acked') \cup hist'.promised,
           \A e \in hist'.accepted : Terminal(e) =>
              e \in Near' \cup Far' \/ (e \in hist.accepted /\ (e \in Near => e \in Near' \cup Far'))
    PROVE  TerminalKept'
<1>1. Far \subseteq Far'
  BY FarMoves
<1>2. \A e \in hist.accepted : Terminal(e) => e \in Near \cup Far
  BY DEF TerminalKept, Near, Far
<1>3. \A e \in hist'.accepted : Terminal(e) => e \in Near' \cup Far'
  BY <1>1, <1>2
<1> QED BY <1>3 DEF TerminalKept, Near, Far

-----------------------------------------------------------------------------
(* Steps that leave the files and what was promised alone.                 *)

Still ==
    /\ seg' = seg /\ acked' = acked /\ cursor' = cursor /\ hist'.promised = hist.promised
    /\ manifest' = manifest

LEMMA StillFiles ==
    ASSUME Good, Still, wpc' = wpc \/ (wpc \in Serving /\ wpc' \in Serving \ {"manifest"}),
           wpc' \in {"idle", "batch", "append", "sync"} => wpc \in {"idle", "batch", "append", "sync"}
    PROVE  /\ Files(seg') /\ Files(acked') /\ Sealed'
           /\ Durable => Durable'
<1>1. Sealed /\ Files(seg) /\ Files(acked)
  BY DEF Good, Typed
<1>2. Sealed'
  BY <1>1 DEF Sealed, Still, Current
<1>3. Secured => Secured'
  BY DEF Secured, Still
<1>4. Swept => Swept'
  BY DEF Swept, Still, Current, Serving
<1> QED BY <1>1, <1>2, <1>3, <1>4 DEF Durable, Still

LEMMA StillKept ==
    ASSUME TerminalKept, Still,
           \A e \in hist'.accepted : Terminal(e) =>
              e \in Near' \/ (e \in hist.accepted /\ (e \in Near => e \in Near' \cup Far'))
    PROVE  TerminalKept'
  BY KeptMoves DEF Still

LEMMA EventIs ==
    ASSUME NEW r \in Request, NEW n \in 1 .. Budget[r]
    PROVE  [req |-> r, n |-> n] \in Event
<1>1. [req |-> r, n |-> n] \in [req : {r}, n : 1 .. Budget[r]]
  OBVIOUS
<1> QED BY <1>1 DEF Event

(* An event moves from its reservation to the queue.                       *)
LEMMA SubmitMoves ==
    ASSUME Good, NEW r \in Request, NEW e \in Event, e.req = r, NEW rest \in Nat,
           rest <= Budget[r], Submit(e, rest), UNCHANGED <<disk, flight, wpc, apc, kept, count>>
    PROVE  Moves
<1>1. /\ mem.status = "healthy" /\ left' = [left EXCEPT ![r] = rest]
      /\ queue' = Append(queue, EventCommand(e)) /\ mem' = [mem EXCEPT !.queued = @ + 1]
      /\ hist' = [hist EXCEPT !.accepted = @ \cup {e}, !.used = @ \cup {r}]
      /\ seg' = seg /\ acked' = acked /\ manifest' = manifest /\ cursor' = cursor
      /\ flight' = flight /\ wpc' = wpc /\ apc' = apc /\ kept' = kept
  BY DEF Submit, disk
<1>2. Typed /\ Phase /\ InFlight /\ Below /\ TerminalKept
  BY DEF Good
<1>3. /\ hist'.promised = hist.promised /\ hist'.accepted = hist.accepted \cup {e}
      /\ hist' \in Events
  <2>1. hist \in Events
    BY <1>2 DEF Typed
  <2> QED BY <1>1, <2>1 DEF Events
<1>4. /\ queue' \in Seq(Command) /\ Queued \subseteq Queued' /\ e \in Queued'
  <2>1. EventCommand(e) \in Command /\ EventCommand(e).kind = "event" /\ EventCommand(e).ev = e
    BY DEF EventCommand, Command
  <2>2. queue \in Seq(Command)
    BY <1>2 DEF Typed
  <2>3. queue' \in Seq(Command) /\ EventsOf(queue) \subseteq EventsOf(queue') /\ e \in EventsOf(queue')
    BY <1>1, <2>1, <2>2, QueueAppend
  <2> QED BY <2>3 DEF Queued, EventsOf
<1>5. Still
  BY <1>1, <1>3 DEF Still
<1>7. mem' \in Memory /\ mem'.status = mem.status
  <2>1. mem \in Memory
    BY <1>2 DEF Typed
  <2> QED BY <1>1, <2>1, SMTT(30) DEF Memory
<1>6. Typed'
  <2>0. left \in [Request -> Nat] /\ \A q \in Request : left[q] <= Budget[q]
    BY <1>2 DEF Typed
  <2>1. left' \in [Request -> Nat] /\ \A q \in Request : left'[q] <= Budget[q]
    BY <1>1, <2>0
  <2> QED BY <1>1, <1>2, <1>3, <1>4, <1>7, <2>1 DEF Typed
<1>8. Phase'
  <2>1. wpc \in Serving
    BY <1>1, <1>2 DEF Phase
  <2> QED BY <1>1, <1>2, <1>7, <2>1 DEF Phase, Current
<1>9. InFlight' /\ Below'
  BY <1>1, <1>2, <1>3 DEF InFlight, Below, EventsPromised
<1>10. TerminalKept'
  <2>1. \A x \in hist'.accepted : x \in Near' \/ (x \in hist.accepted /\ (x \in Near => x \in Near'))
    BY <1>1, <1>3, <1>4 DEF Near
  <2> QED BY <1>2, <1>5, <2>1, StillKept
<1>11. Sealed' /\ (Durable => Durable')
  BY <1>1, <1>5, StillFiles
<1> QED BY <1>6, <1>8, <1>9, <1>10, <1>11 DEF Moves, Good

LEMMA RequestMoves ==
    ASSUME Good, NEW r \in Request,
           Reserve(r) \/ Emit(r) \/ EmitTerminal(r)
    PROVE  Moves
<1>1. Budget[r] \in Nat /\ Budget[r] >= 2 /\ left[r] \in Nat /\ left[r] <= Budget[r]
  BY SpoolAssumption DEF Good, Typed
<1>2. CASE Reserve(r)
  <2>1. [req |-> r, n |-> 1] \in Event
    BY <1>1, EventIs
  <2>2. [req |-> r, n |-> 1].req = r /\ Budget[r] - 1 \in Nat /\ Budget[r] - 1 <= Budget[r]
    BY <1>1
  <2> QED BY <1>2, <2>1, <2>2, SubmitMoves DEF Reserve
<1>3. CASE Emit(r)
  <2> DEFINE n == Budget[r] - left[r] + 1
  <2>1. n \in 1 .. Budget[r] /\ left[r] - 1 \in Nat /\ left[r] - 1 <= Budget[r]
    BY <1>1, <1>3 DEF Emit
  <2>2. Submit([req |-> r, n |-> n], left[r] - 1) /\ UNCHANGED <<disk, flight, wpc, apc, kept, count>>
    BY <1>3 DEF Emit
  <2> HIDE DEF n
  <2>3. [req |-> r, n |-> n] \in Event /\ [req |-> r, n |-> n].req = r
    BY <2>1, EventIs
  <2> QED BY <2>1, <2>2, <2>3, SubmitMoves
<1>4. CASE EmitTerminal(r)
  <2>1. Budget[r] \in 1 .. Budget[r] /\ 0 <= Budget[r]
    BY <1>1
  <2>2. [req |-> r, n |-> Budget[r]] \in Event /\ [req |-> r, n |-> Budget[r]].req = r
    BY <2>1, EventIs
  <2> QED BY <1>4, <2>1, <2>2, SubmitMoves DEF EmitTerminal
<1> QED BY <1>2, <1>3, <1>4

(* Such a step of a process that serves.                                   *)
Early == {"idle", "batch", "append", "sync"}
Pointer == [at : Acking \cup {"idle"}, to : Nat]
Slots == {f \in [Request -> Nat] : \A r \in Request : f[r] <= Budget[r]}

StillStep ==
    /\ Still /\ wpc \in Serving /\ wpc' \in Serving /\ (wpc' \in Early => wpc \in Early)
    /\ wpc' = wpc \/ wpc' # "manifest"
    /\ mem' \in Memory /\ mem'.status \in {"healthy", "failed"} /\ queue' \in Seq(Command)
    /\ flight' \in Seq(Event) /\ left' \in Slots /\ hist' \in Events /\ apc' \in Pointer
    /\ wpc' = "idle" => flight' = <<>>

LEMMA StillMoves ==
    ASSUME Good, StillStep, InFlight', Below',
           \A e \in hist'.accepted : Terminal(e) =>
              e \in Near' \/ (e \in hist.accepted /\ (e \in Near => e \in Near' \cup Far'))
    PROVE  Moves
<1>1. Typed /\ Phase /\ TerminalKept
  BY DEF Good
<1>2. Sealed' /\ (Durable => Durable') /\ Files(seg') /\ Files(acked')
  BY StillFiles DEF StillStep, Early
<1>3. Typed'
  BY <1>1, <1>2 DEF Typed, StillStep, Still, Slots, Pointer
<1>4. Phase'
  BY <1>1 DEF Phase, StillStep, Still, Current, Serving, Starting
<1>5. TerminalKept'
  BY <1>1, StillKept DEF StillStep
<1> QED BY <1>2, <1>3, <1>4, <1>5 DEF Moves, Good

(* The types of what such a step leaves alone.                             *)
LEMMA Types ==
    ASSUME Good
    PROVE  /\ mem \in Memory /\ queue \in Seq(Command) /\ flight \in Seq(Event) /\ left \in Slots
           /\ hist \in Events /\ apc \in Pointer /\ cursor \in Nat
           /\ mem.status \in {"healthy", "failed"} <=> wpc \in Serving
           /\ apc # Idle => wpc \in Serving
           /\ Files(seg) /\ Files(acked)
  BY DEF Good, Typed, Phase, Slots, Pointer

LEMMA PreserveMoves ==
    ASSUME Good, NEW r \in Request, PreserveTerminal(r)
    PROVE  Moves
<1> DEFINE e == [req |-> r, n |-> Budget[r]]
<1>1. /\ mem.status = "failed" /\ left' = [left EXCEPT ![r] = 0] /\ kept' = kept \cup {e}
      /\ hist' = [hist EXCEPT !.accepted = @ \cup {e}]
      /\ seg' = seg /\ acked' = acked /\ manifest' = manifest /\ cursor' = cursor
      /\ mem' = mem /\ queue' = queue /\ flight' = flight /\ wpc' = wpc /\ apc' = apc
  BY DEF PreserveTerminal, disk
<1>2. Budget[r] \in Nat /\ Budget[r] >= 2
  BY SpoolAssumption
<1>3. e \in Event
  <2>1. Budget[r] \in 1 .. Budget[r]
    BY <1>2
  <2> QED BY <2>1, EventIs
<1> HIDE DEF e
<1>4. /\ hist' \in Events /\ hist'.promised = hist.promised
      /\ hist'.accepted = hist.accepted \cup {e}
  BY <1>1, <1>3, Types DEF Events
<1>5. left' \in Slots
  <2>1. left \in [Request -> Nat] /\ \A q \in Request : left[q] <= Budget[q]
    BY Types DEF Slots
  <2> QED BY <1>1, <1>2, <2>1 DEF Slots
<1>6. StillStep
  BY <1>1, <1>4, <1>5, Types DEF StillStep, Still, Good, Phase, Starting
<1>7. InFlight' /\ Below'
  BY <1>1, <1>4 DEF Good, InFlight, Below, EventsPromised
<1>8. \A x \in hist'.accepted : x \in Near' \/ (x \in hist.accepted /\ (x \in Near => x \in Near'))
  BY <1>1, <1>4 DEF Near, Queued
<1> QED BY <1>6, <1>7, <1>8, StillMoves

LEMMA TakeMoves ==
    ASSUME Good, TakeBatch
    PROVE  Moves
<1>1. /\ wpc = "idle" /\ wpc' = "batch" /\ mem' = mem /\ left' = left /\ kept' = kept
      /\ seg' = seg /\ acked' = acked /\ manifest' = manifest /\ cursor' = cursor
      /\ hist' = hist /\ apc' = apc
  BY DEF TakeBatch, disk
<1>2. PICK n \in Batches : /\ flight' = [i \in 1 .. n |-> queue[i].ev]
                           /\ queue' = SubSeq(queue, n + 1, Len(queue))
  BY DEF TakeBatch
<1>3. /\ n \in Nat /\ n >= 1 /\ n <= Len(queue) /\ Len(queue) \in Nat
      /\ \A i \in 1 .. n : queue[i].kind = "event"
      /\ \A i \in 1 .. n - 1 : ~Terminal(queue[i].ev)
  BY Types, LenProperties, SpoolAssumption DEF Batches
<1>4. ASSUME NEW i \in 1 .. n PROVE queue[i].ev \in Event
  <2>1. queue[i] \in Command
    BY <1>3, Types, ElementOfSeq
  <2> QED BY <1>3, <2>1 DEF Command
<1>5. flight' \in Seq(Event) /\ Len(flight') = n /\ \A i \in 1 .. n : flight'[i] = queue[i].ev
  <2>1. flight' \in [1 .. n -> Event] /\ \A i \in 1 .. n : flight'[i] = queue[i].ev
    BY <1>2, <1>4
  <2>2. flight' \in Seq(Event) /\ Len(flight') = n
    BY <1>3, <2>1
  <2> QED BY <2>1, <2>2
<1>6. /\ queue' \in Seq(Command)
      /\ \A e \in Queued : e \in Queued' \/ e \in ToSet(flight')
  <2>1. /\ queue' \in Seq(Command)
        /\ \A e \in EventsOf(queue) : \/ e \in EventsOf(queue')
                                      \/ \E i \in 1 .. n : queue[i].kind = "event" /\ queue[i].ev = e
    BY <1>2, <1>3, Types, QueueRest
  <2>2. DOMAIN flight' = 1 .. n
    BY <1>2
  <2>3. \A i \in 1 .. n : queue[i].ev \in ToSet(flight')
    BY <1>5, <2>2 DEF ToSet
  <2> QED BY <2>1, <2>3 DEF Queued, EventsOf
<1>7. StillStep
  BY <1>1, <1>5, <1>6, Types DEF StillStep, Still, Serving, Early
<1>8. InFlight' /\ Below'
  <2>1. \A k \in 1 .. Len(flight') - 1 : ~Terminal(flight'[k])
    BY <1>3, <1>5
  <2> QED BY <1>1, <2>1 DEF Good, InFlight, Below
<1>9. \A e \in hist'.accepted : e \in hist.accepted /\ (e \in Near => e \in Near')
  <2>1. flight = <<>>
    BY <1>1 DEF Good, Phase
  <2>2. ToSet(flight) = {}
    BY <2>1 DEF ToSet
  <2> QED BY <1>1, <1>6, <2>2 DEF Near
<1> QED BY <1>7, <1>8, <1>9, StillMoves

(* The batch ends; all of it is written.                                   *)
LEMMA WrittenIs ==
    ASSUME flight \in Seq(Event), Written = Len(flight)
    PROVE  \A k \in 1 .. Len(flight) : flight[k] \in EventsIn(seg)
<1> DEFINE n == Len(flight)
           W == {k \in 1 .. n : flight[k] \in EventsIn(seg)}
<1>1. n \in Nat
  BY LenProperties
<1>2. IsFiniteSet(1 .. n) /\ Cardinality(1 .. n) = n
  <2>1. 1 \in Int /\ n \in Int /\ (IF 1 > n THEN 0 ELSE n - 1 + 1) = n
    BY <1>1
  <2> HIDE DEF n
  <2>2. IsFiniteSet(1 .. n) /\ Cardinality(1 .. n) = IF 1 > n THEN 0 ELSE n - 1 + 1
    BY <2>1, FS_Interval
  <2> QED BY <2>1, <2>2
<1>3. W \subseteq 1 .. n /\ Cardinality(W) = n
  BY DEF Written
<1> HIDE DEF W
<1>4. W = 1 .. n
  BY <1>2, <1>3, FS_Subset
<1> QED BY <1>4 DEF W

LEMMA EndMoves ==
    ASSUME Good, EndBatch
    PROVE  Moves
<1>1. /\ wpc = "append" /\ Written = Len(flight) /\ mem' = mem /\ left' = left /\ kept' = kept
      /\ seg' = seg /\ acked' = acked /\ manifest' = manifest /\ cursor' = cursor
      /\ hist' = hist /\ apc' = apc /\ queue' = queue
      /\ wpc' \in {"sync", "idle"} /\ (wpc' = "idle" => ~Terminal(Last(flight)))
      /\ flight' = IF wpc' = "idle" THEN <<>> ELSE flight
  BY DEF EndBatch, disk
<1>2. flight' \in Seq(Event)
  BY <1>1, Types
<1>3. StillStep
  BY <1>1, <1>2, Types DEF StillStep, Still, Serving, Early
<1>4. InFlight'
  <2>1. \A k \in 1 .. Len(flight) : flight[k] \in EventsIn(seg)
    BY <1>1, WrittenIs, Types
  <2>2. CASE wpc' = "sync"
    BY <1>1, <2>1, <2>2 DEF Good, InFlight
  <2>3. CASE wpc' = "idle"
    <3>1. flight' = <<>> /\ Len(flight') = 0
      BY <1>1, <2>3
    <3> QED BY <2>3, <3>1 DEF InFlight
  <2> QED BY <1>1, <2>2, <2>3
<1>5. \A e \in hist'.accepted : Terminal(e) => e \in hist.accepted /\ (e \in Near => e \in Near')
  <2> SUFFICES ASSUME NEW e \in ToSet(flight), wpc' = "idle" PROVE ~Terminal(e)
    BY <1>1 DEF Near, Queued
  <2>1. flight \in Seq(Event) /\ Len(flight) \in Nat /\ DOMAIN flight = 1 .. Len(flight)
    BY Types, LenProperties
  <2>2. PICK k \in 1 .. Len(flight) : e = flight[k]
    BY <2>1 DEF ToSet
  <2>3. CASE k = Len(flight)
    BY <1>1, <2>2, <2>3 DEF Last
  <2>4. CASE k # Len(flight)
    <3> DEFINE m == Len(flight)
    <3>0. m \in Nat /\ k \in 1 .. m /\ k # m
      BY <2>1, <2>4
    <3> HIDE DEF m
    <3>1. k \in 1 .. m - 1
      BY <3>0
    <3> QED BY <2>2, <3>1 DEF Good, InFlight, m
  <2> QED BY <2>3, <2>4
<1>6. Below'
  BY <1>1 DEF Good, Below
<1> QED BY <1>3, <1>4, <1>5, <1>6, StillMoves

(* A step of a process that serves, of its writer or its consumer, that    *)
(* leaves what is reserved and what was accepted alone.                    *)
LEMMA QuietMoves ==
    ASSUME Good, wpc \in Serving, wpc' \in Serving, wpc' \in Early => wpc \in Early,
           wpc' = wpc \/ wpc' # "manifest",
           seg' = seg, acked' = acked, manifest' = manifest, cursor' = cursor,
           left' = left, hist' = hist, flight' = flight,
           mem' \in Memory, mem'.status \in {"healthy", "failed"},
           queue' \in Seq(Command), apc' \in Pointer, kept \subseteq kept',
           \A e \in Queued : e \in Queued' \/ (Terminal(e) => e \in kept'),
           wpc' = wpc \/ wpc' \notin {"idle", "sync"} \/ flight = <<>>, Below'
    PROVE  Moves
<1>1. StillStep
  <2>1. wpc' = "idle" => flight' = <<>>
    <3>1. wpc = "idle" => flight = <<>>
      BY DEF Good, Phase
    <3> QED BY <3>1
  <2> QED BY <2>1, Types DEF StillStep, Still
<1>2. InFlight'
  <2>1. flight = <<>> => Len(flight) = 0
    OBVIOUS
  <2>2. flight = <<>> => \A k \in 1 .. Len(flight) : FALSE
    BY <2>1
  <2> QED BY <2>2 DEF Good, InFlight, EventsPromised
<1>3. \A e \in hist'.accepted : Terminal(e) => e \in hist.accepted /\ (e \in Near => e \in Near')
  BY DEF Near
<1> QED BY <1>1, <1>2, <1>3, StillMoves

LEMMA WriterQuietMoves ==
    ASSUME Good, StartAppend \/ SyncIdle \/ WriterFailed \/ FlushDone \/ Drain
    PROVE  Moves
<1>1. CASE StartAppend \/ SyncIdle
  <2>1. /\ seg' = seg /\ acked' = acked /\ manifest' = manifest /\ cursor' = cursor
        /\ left' = left /\ hist' = hist /\ flight' = flight /\ mem' = mem /\ queue' = queue
        /\ apc' = apc /\ kept' = kept
        /\ wpc \in Serving /\ wpc' \in Serving /\ wpc \in Early /\ wpc' # "manifest"
        /\ wpc' # "idle" /\ (wpc' = "sync" => wpc = "idle")
    BY <1>1 DEF StartAppend, SyncIdle, disk, Serving, Early
  <2>2. Queued' = Queued
    BY <2>1 DEF Queued
  <2>3. wpc = "idle" => flight = <<>>
    BY DEF Good, Phase
  <2>4. Below'
    BY <2>1 DEF Good, Below
  <2> QED BY <2>1, <2>2, <2>3, <2>4, Types, QuietMoves
<1>2. CASE WriterFailed
  <2>1. /\ seg' = seg /\ acked' = acked /\ manifest' = manifest /\ cursor' = cursor
        /\ left' = left /\ hist' = hist /\ flight' = flight /\ queue' = queue
        /\ apc' = apc /\ kept' = kept /\ wpc \in Serving /\ wpc' = "drain"
        /\ mem' = [mem EXCEPT !.status = "failed", !.accepting = FALSE]
    BY <1>2 DEF WriterFailed, disk, Serving
  <2>2. Queued' = Queued
    BY <2>1 DEF Queued
  <2>3. mem' \in Memory /\ mem'.status = "failed"
    BY <2>1, Types DEF Memory
  <2>4. Below'
    BY <2>1 DEF Good, Below
  <2>5. wpc' \in Serving /\ wpc' \notin Early /\ wpc' # "manifest" /\ wpc' \notin {"idle", "sync"}
    BY <2>1 DEF Serving, Early
  <2> QED BY <2>1, <2>2, <2>3, <2>4, <2>5, Types, QuietMoves
<1>3. CASE FlushDone
  <2>1. /\ seg' = seg /\ acked' = acked /\ manifest' = manifest /\ cursor' = cursor
        /\ left' = left /\ hist' = hist /\ flight' = flight /\ mem' = mem
        /\ queue # <<>> /\ Head(queue).kind # "event" /\ queue' = Tail(queue)
        /\ apc' = (IF apc.at = "wait" THEN [apc EXCEPT !.at = "lock"] ELSE apc)
        /\ kept' = kept /\ wpc' = wpc /\ wpc = "idle"
    BY <1>3 DEF FlushDone, disk
  <2>2. queue' \in Seq(Command) /\ Queued \subseteq Queued'
    <3>1. queue' \in Seq(Command) /\ EventsOf(queue) \subseteq EventsOf(queue')
      BY <2>1, Types, QueueTail
    <3> QED BY <3>1 DEF Queued, EventsOf
  <2>3. /\ apc' \in Pointer /\ apc'.to = apc.to
        /\ apc'.at = apc.at \/ (apc.at = "wait" /\ apc'.at = "lock")
    BY <2>1, Types DEF Pointer, Acking
  <2>4. Below'
    BY <2>1, <2>3 DEF Good, Below
  <2>5. wpc \in Serving
    BY <2>1 DEF Serving
  <2> QED BY <2>1, <2>2, <2>3, <2>4, <2>5, Types, QuietMoves
<1>4. CASE Drain
  <2>1. /\ seg' = seg /\ acked' = acked /\ manifest' = manifest /\ cursor' = cursor
        /\ left' = left /\ hist' = hist /\ flight' = flight /\ mem' = mem
        /\ queue' = <<>> /\ kept' = kept \cup {e \in Queued : Terminal(e)}
        /\ apc' = (IF apc.at = "wait" THEN Idle ELSE apc)
        /\ wpc \in Serving /\ wpc' = "dead"
    BY <1>4 DEF Drain, KeepTerminals, disk, Serving
  <2>2. queue' \in Seq(Command)
    BY <2>1
  <2>3. apc' \in Pointer /\ (apc'.at # apc.at => apc'.at = "idle") /\ (apc'.at # "idle" => apc'.to = apc.to)
    BY <2>1, Types DEF Pointer, Acking, Idle
  <2>4. Below'
    BY <2>1, <2>3 DEF Good, Below
  <2>5. wpc' \in Serving /\ wpc' \notin Early /\ wpc' # "manifest" /\ wpc' \notin {"idle", "sync"}
    BY <2>1 DEF Serving, Early
  <2> QED BY <2>1, <2>2, <2>3, <2>4, <2>5, Types, QuietMoves
<1> QED BY <1>1, <1>2, <1>3, <1>4

(* The consumer, while it changes no file, and close.                      *)
LEMMA ConsumerQuietMoves ==
    ASSUME Good, \/ \E c \in 1 .. LastSeq : AckStart(c)
                 \/ AckFlush \/ FlushTimesOut \/ AckLock \/ Renamed \/ AckFails \/ Close
    PROVE  Moves
<1> DEFINE K == /\ seg' = seg /\ acked' = acked /\ manifest' = manifest /\ cursor' = cursor
                /\ left' = left /\ hist' = hist /\ flight' = flight /\ wpc' = wpc /\ kept' = kept
<1>1. K
  BY DEF AckStart, AckFlush, FlushTimesOut, AckLock, Renamed, AckFails, Close, disk
<1>2. mem' \in Memory /\ mem'.status \in {"healthy", "failed"} /\ wpc \in Serving
  <2>1. CASE \E c \in 1 .. LastSeq : AckStart(c)
    BY <2>1, Types DEF AckStart
  <2>2. CASE AckFlush \/ FlushTimesOut \/ AckLock \/ Renamed
    <3>1. mem' = mem /\ apc.at # "idle"
      BY <2>2 DEF AckFlush, FlushTimesOut, AckLock, Renamed
    <3> QED BY <3>1, Types DEF Idle
  <2>3. CASE AckFails
    <3>1. mem' = [mem EXCEPT !.status = "failed", !.accepting = FALSE] /\ apc.at # "idle"
      BY <2>3 DEF AckFails, MaintenanceFree
    <3>2. wpc \in Serving
      BY <3>1, Types DEF Idle
    <3>3. mem' \in Memory /\ mem'.status = "failed"
      BY <3>1, Types DEF Memory
    <3> QED BY <3>2, <3>3
  <2>4. CASE Close
    <3>1. mem.status = "healthy" /\ mem' = [mem EXCEPT !.accepting = FALSE]
      BY <2>4 DEF Close
    <3> QED BY <3>1, Types DEF Memory
  <2> QED BY <2>1, <2>2, <2>3, <2>4
<1>3. queue' \in Seq(Command) /\ Queued \subseteq Queued'
  <2>1. CASE AckFlush \/ Close
    <3>1. Control("flush") \in Command /\ Control("stop") \in Command
      BY DEF Control, Command
    <3>2. PICK c \in Command : queue' = Append(queue, c)
      BY <2>1, <3>1 DEF AckFlush, Close
    <3>3. queue' \in Seq(Command) /\ EventsOf(queue) \subseteq EventsOf(queue')
      BY <3>2, Types, QueueAppend
    <3> QED BY <3>3 DEF Queued, EventsOf
  <2>2. CASE ~(AckFlush \/ Close)
    <3>1. queue' = queue
      BY <2>2 DEF AckStart, FlushTimesOut, AckLock, Renamed, AckFails
    <3> QED BY <3>1, Types DEF Queued
  <2> QED BY <2>1, <2>2
<1>4. apc' \in Pointer /\ Below'
  <2>0. apc \in Pointer /\ Below /\ cursor \in Nat
    BY Types DEF Good
  <2>1. CASE \E c \in 1 .. LastSeq : AckStart(c)
    <3>1. PICK c \in 1 .. LastSeq : AckStart(c)
      BY <2>1
    <3>2. c > cursor /\ c \in Replayable /\ apc' = [at |-> "put", to |-> c]
      BY <3>1 DEF AckStart
    <3>3. c \in Nat
      BY <3>2, Types, HighestSeq DEF Replayable
    <3> QED BY <1>1, <2>0, <3>2, <3>3 DEF Pointer, Acking, Below
  <2>2. CASE AckFlush \/ AckLock
    <3>1. /\ apc.at \in {"put", "lock"}
          /\ apc' = [apc EXCEPT !.at = "wait"] \/ apc' = [apc EXCEPT !.at = "cursor"]
      BY <2>2 DEF AckFlush, AckLock
    <3>2. apc' \in Pointer /\ apc'.at \in {"wait", "cursor"} /\ apc'.to = apc.to
      BY <2>0, <3>1 DEF Pointer, Acking
    <3> QED BY <1>1, <2>0, <3>1, <3>2 DEF Below
  <2>3. CASE FlushTimesOut \/ AckFails \/ (Renamed /\ acked = <<>>)
    <3>1. apc' = Idle
      BY <2>3 DEF FlushTimesOut, AckFails, Renamed
    <3>2. apc' \in Pointer /\ apc'.at = "idle"
      BY <3>1 DEF Pointer, Idle
    <3> QED BY <1>1, <2>0, <3>2 DEF Below
  <2>4. CASE Renamed /\ acked # <<>>
    <3>1. apc.at = "rename" /\ apc' = [apc EXCEPT !.at = "manifest"]
      BY <2>4 DEF Renamed
    <3>2. apc' \in Pointer /\ apc'.at = "manifest" /\ apc'.to = apc.to
      BY <2>0, <3>1 DEF Pointer, Acking
    <3>3. DOMAIN acked # {}
      <4>1. acked = [i \in DOMAIN acked |-> acked[i]]
        BY Types DEF Files
      <4>2. DOMAIN <<>> = {} /\ <<>> = [i \in {} |-> acked[i]]
        OBVIOUS
      <4> QED BY <2>4, <4>1, <4>2
    <3> QED BY <1>1, <2>0, <3>1, <3>2, <3>3 DEF Below
  <2>5. CASE Close
    <3>1. apc' = apc
      BY <2>5 DEF Close
    <3> QED BY <1>1, <2>0, <3>1 DEF Below
  <2> QED BY <2>1, <2>2, <2>3, <2>4, <2>5
<1> QED BY <1>1, <1>2, <1>3, <1>4, QuietMoves

-----------------------------------------------------------------------------
(* Steps that sync or list segments: no record changes.                    *)

SameStep ==
    /\ Same(seg, seg') /\ acked' = acked /\ cursor' = cursor
    /\ \A i \in DOMAIN seg : /\ seg[i].linked => seg'[i].linked
                             /\ seg[i].synced <= seg'[i].synced
    /\ hist.promised \subseteq hist'.promised
    /\ hist'.promised \subseteq hist.promised \cup Recorded(seg)

LEMMA SameKnown ==
    ASSUME Good, SameStep
    PROVE  /\ Files(seg') /\ Files(acked') /\ DOMAIN seg' = DOMAIN seg /\ Current' = Current
           /\ Recorded(seg') = Recorded(seg) /\ EventsIn(seg') = EventsIn(seg)
           /\ \A i \in DOMAIN seg : Size(seg', i) = Size(seg, i) /\ seg'[i].recs = seg[i].recs
<1>1. Files(seg) /\ Files(acked)
  BY Types
<1>2. /\ Files(seg') /\ Recorded(seg') = Recorded(seg)
      /\ \A i \in DOMAIN seg : Size(seg', i) = Size(seg, i)
  BY <1>1, SameFiles DEF SameStep
<1>3. DOMAIN seg' = DOMAIN seg /\ \A i \in DOMAIN seg : seg'[i].recs = seg[i].recs
  BY DEF SameStep, Same
<1>4. Current' = Current /\ EventsIn(seg') = EventsIn(seg)
  BY <1>2, <1>3 DEF Current, EventsIn
<1> QED BY <1>1, <1>2, <1>3, <1>4 DEF SameStep

LEMMA SameSecured ==
    ASSUME Good, SameStep, Secured,
           \/ hist'.promised = hist.promised
           \/ "power" \in Faults => /\ \A i \in DOMAIN seg' : seg'[i].linked
                                    /\ Tidy(seg')
    PROVE  Secured'
<1> SUFFICES ASSUME NEW r \in hist'.promised, r.seq >= cursor' PROVE Safe(seg', r)
  BY DEF Secured
<1>1. /\ DOMAIN seg' = DOMAIN seg
      /\ \A i \in DOMAIN seg : Size(seg', i) = Size(seg, i) /\ seg'[i].recs = seg[i].recs
      /\ Files(seg) /\ Files(seg')
  BY SameKnown, Types
<1>2. CASE r \in hist.promised
  <2>1. Safe(seg, r)
    BY <1>2 DEF Secured, SameStep
  <2>2. PICK i \in DOMAIN seg : \E k \in 1 .. Size(seg, i) :
             seg[i].recs[k] = r /\ ("power" \in Faults => seg[i].linked /\ k <= seg[i].synced)
    BY <2>1 DEF Safe
  <2>3. PICK k \in 1 .. Size(seg, i) :
             seg[i].recs[k] = r /\ ("power" \in Faults => seg[i].linked /\ k <= seg[i].synced)
    BY <2>2
  <2>4. seg[i].synced \in Nat /\ seg'[i].synced \in Nat /\ Size(seg, i) \in Nat
    BY <1>1, FileFields DEF Files, Size
  <2>5. "power" \in Faults => seg'[i].linked /\ k <= seg'[i].synced
    BY <2>3, <2>4 DEF SameStep
  <2> QED BY <1>1, <2>3, <2>5 DEF Safe
<1>3. CASE r \notin hist.promised
  <2>1. r \in Recorded(seg')
    BY <1>3, SameKnown DEF SameStep
  <2>2. PICK i \in DOMAIN seg' : \E k \in 1 .. Size(seg', i) : seg'[i].recs[k] = r
    BY <1>1, <2>1, RecordedIs
  <2>3. PICK k \in 1 .. Size(seg', i) : seg'[i].recs[k] = r
    BY <2>2
  <2>4. "power" \in Faults => seg'[i].linked /\ seg'[i].synced = Size(seg', i)
    BY <1>3 DEF Tidy
  <2>5. Size(seg', i) \in Nat
    BY <1>1, FileFields DEF Files, Size
  <2>6. "power" \in Faults => seg'[i].linked /\ k <= seg'[i].synced
    BY <2>3, <2>4, <2>5
  <2> QED BY <2>3, <2>6 DEF Safe
<1> QED BY <1>2, <1>3

(* What was listed has been promised.                                      *)
LEMMA ListedSealed ==
    ASSUME Good, SameStep, Recorded(seg) \subseteq hist'.promised,
           wpc' \in Early => DOMAIN seg # {}
    PROVE  Sealed'
<1>1. /\ DOMAIN seg' = DOMAIN seg /\ Files(seg') /\ Recorded(seg') \subseteq hist'.promised
      /\ Current' = Current /\ Recorded(acked') \subseteq hist'.promised /\ Files(seg)
  BY SameKnown, Types DEF SameStep, Good, Sealed
<1>2. \A i \in DOMAIN seg' : ToSet(seg'[i].recs) \subseteq hist'.promised
  BY <1>1 DEF Recorded
<1>3. ASSUME DOMAIN seg # {} PROVE \A k \in 1 .. seg'[Current'].synced : seg'[Current'].recs[k] \in hist'.promised
  <2>1. Current' \in DOMAIN seg'
    BY <1>1, <1>3, HighestName DEF Current
  <2>2. File(seg'[Current'])
    BY <1>1, <2>1 DEF Files
  <2> DEFINE f == seg'[Current']
  <2>3. f.synced \in Nat /\ f.synced <= Len(f.recs) /\ Len(f.recs) \in Nat
    BY <2>2, FileFields DEF File
  <2>4. \A k \in 1 .. f.synced : k \in 1 .. Len(f.recs)
    BY <2>3
  <2> QED BY <1>1, <2>1, <2>4, RecordedIs DEF Size
<1> QED BY <1>1, <1>2, <1>3 DEF Sealed, Early

Paper == [clean : BOOLEAN, anchor : Nat, names : SUBSET Nat]
Places == Serving \cup Starting \cup {"none"}

(* What a step leaves in memory has its type.                              *)
Others ==
    /\ manifest' \in Paper /\ mem' \in Memory /\ queue' \in Seq(Command)
    /\ flight' \in Seq(Event) /\ wpc' \in Places /\ apc' \in Pointer
    /\ left' \in Slots /\ hist' \in Events

LEMMA OthersNow ==
    ASSUME Good
    PROVE  manifest \in Paper /\ wpc \in Places /\ SegmentCap \in Nat \ {0}
  BY SpoolAssumption DEF Good, Typed, Paper, Places

LEMMA TypedNext ==
    ASSUME Others, Files(seg'), Files(acked'), cursor' \in Nat
    PROVE  Typed'
  BY DEF Others, Typed, Paper, Places, Slots, Pointer

LEMMA RecordedType ==
    ASSUME NEW s, Files(s)
    PROVE  Recorded(s) \subseteq Record
<1> SUFFICES ASSUME NEW r \in Recorded(s) PROVE r \in Record
  OBVIOUS
<1>1. PICK i \in DOMAIN s : \E k \in 1 .. Size(s, i) : s[i].recs[k] = r
  BY RecordedIs
<1>2. File(s[i])
  BY DEF Files
<1> QED BY <1>1, <1>2, FileFields DEF Size

LEMMA ListedIs ==
    ASSUME Good
    PROVE  /\ Promised(seg) \in Events /\ Promised(seg).promised = hist.promised \cup Recorded(seg)
           /\ Promised(seg).accepted = hist.accepted
  BY Types, RecordedType DEF Promised, Events

(* No terminal event is dropped; what is newly promised is safe; and the   *)
(* consumer stays where it is, is done, or has listed what is left.        *)
Retained ==
    \A e \in hist'.accepted : Terminal(e) =>
        e \in hist.accepted /\ (e \in Near => e \in Near' \cup Far')

Listing ==
    \/ hist'.promised = hist.promised
    \/ Swept /\ "power" \in Faults => Tidy(seg') /\ \A i \in DOMAIN seg' : seg'[i].linked

Pointing ==
    \/ apc' = apc
    \/ apc' = Idle
    \/ apc.at = "manifest" /\ apc'.at = "unlink" /\ apc'.to = apc.to

LEMMA SameMoves ==
    ASSUME Good, SameStep, Others, Phase', InFlight', Sealed', Retained, Listing, Pointing,
           Swept => Swept'
    PROVE  Moves
<1>1. Files(seg') /\ Files(acked') /\ Recorded(seg') = Recorded(seg)
  BY SameKnown
<1>2. Typed'
  BY <1>1, Types, TypedNext DEF SameStep
<1>3. Below'
  BY DEF Good, Below, SameStep, Idle, Pointing
<1>4. TerminalKept'
  <2>1. Recorded(seg) \cup Recorded(acked) \cup hist.promised
             \subseteq Recorded(seg') \cup Recorded(acked') \cup hist'.promised
    BY <1>1 DEF SameStep
  <2> QED BY <2>1, KeptMoves DEF Good, Retained
<1>5. Durable => Durable'
  BY SameSecured DEF Durable, Listing
<1> QED BY <1>2, <1>3, <1>4, <1>5 DEF Moves, Good

(* All segments are synced but the open one, and it is now.                *)
LEMMA AllSynced ==
    ASSUME Good, Swept, DOMAIN seg # {}, wpc \notin {"none", "open"}, "power" \in Faults
    PROVE  Tidy(Synced(seg))
<1>1. Files(seg) /\ Size(Synced(seg), Current) = Size(Synced(seg), Current)
  BY Types
<1>2. /\ Same(seg, Synced(seg)) /\ DOMAIN Synced(seg) = DOMAIN seg
      /\ \A i \in DOMAIN seg : Synced(seg)[i].synced = IF i = Current THEN Size(seg, i) ELSE seg[i].synced
  BY <1>1, SyncedIs
<1>3. \A i \in DOMAIN seg : Size(Synced(seg), i) = Size(seg, i)
  BY <1>1, <1>2, SameFiles
<1> QED BY <1>2, <1>3 DEF Tidy, Swept

LEMMA SyncMoves ==
    ASSUME Good, Fdatasync \/ GapSync
    PROVE  Moves
<1>1. /\ seg' = Synced(seg) /\ acked' = acked /\ manifest' = manifest /\ cursor' = cursor
      /\ mem' = mem /\ queue' = queue /\ flight' = flight /\ apc' = apc /\ left' = left
      /\ kept' = kept /\ hist' = hist
      /\ (wpc = "sync" /\ wpc' = "manifest") \/ (wpc = "gapsync" /\ wpc' = "opened")
  BY DEF Fdatasync, GapSync
<1>2. DOMAIN seg # {}
  BY <1>1 DEF Good, Phase
<1>3. SameStep
  <2>1. /\ Same(seg, Synced(seg))
        /\ \A i \in DOMAIN seg :
                /\ Synced(seg)[i].linked = seg[i].linked
                /\ Synced(seg)[i].synced = IF i = Current THEN Size(seg, i) ELSE seg[i].synced
    BY <1>2, SyncedIs, Types
  <2>2. \A i \in DOMAIN seg : seg[i].synced \in Nat /\ seg[i].synced <= Size(seg, i)
    BY Types, FileFields DEF Files, File, Size
  <2>3. \A i \in DOMAIN seg : seg[i].synced <= Synced(seg)[i].synced
    BY <2>1, <2>2
  <2> QED BY <1>1, <2>1, <2>3 DEF SameStep
<1>4. Others
  BY <1>1, Types, OthersNow DEF Others, Places, Serving, Starting
<1>5. /\ DOMAIN seg' = DOMAIN seg /\ Current' = Current /\ EventsIn(seg') = EventsIn(seg)
      /\ \A i \in DOMAIN seg : Size(seg', i) = Size(seg, i) /\ seg'[i].recs = seg[i].recs
      /\ Current \in DOMAIN seg
  BY <1>2, <1>3, SameKnown, HighestName, Types DEF Current
<1>6. Phase'
  BY <1>1, <1>5 DEF Good, Phase, Serving, Starting
<1>7. InFlight'
  BY <1>1, <1>5 DEF Good, InFlight, EventsPromised
<1>8. Sealed'
  BY <1>1, <1>5 DEF Good, Sealed, Serving
<1>9. Retained
  BY <1>1 DEF Near, Queued, Retained
<1>10. Swept => Swept'
  <2> SUFFICES ASSUME Swept, "power" \in Faults PROVE Tidy(acked) /\ Tidy(seg')
    BY <1>1 DEF Swept, Tidy
  <2>1. Tidy(Synced(seg))
    BY <1>1, <1>2, AllSynced
  <2> QED BY <1>1, <2>1 DEF Swept
<1>11. Pointing /\ Listing
  BY <1>1 DEF Pointing, Listing
<1> QED BY <1>3, <1>4, <1>6, <1>7, <1>8, <1>9, <1>10, <1>11, SameMoves

LEMMA RotateSyncMoves ==
    ASSUME Good, RotateSync
    PROVE  Moves
<1>1. /\ seg' = Linked(Synced(seg)) /\ acked' = acked /\ manifest' = NewManifest(FALSE) /\ cursor' = cursor
      /\ mem' = mem /\ queue' = queue /\ flight' = flight /\ apc' = apc /\ left' = left
      /\ kept' = kept /\ hist' = Promised(seg) /\ wpc = "append" /\ wpc' = wpc
  BY DEF RotateSync
<1>2. DOMAIN seg # {}
  BY <1>1 DEF Good, Phase
<1>3. /\ Same(seg, Synced(seg)) /\ DOMAIN Synced(seg) = DOMAIN seg
      /\ \A i \in DOMAIN seg :
            /\ Synced(seg)[i].linked = seg[i].linked
            /\ Synced(seg)[i].synced = IF i = Current THEN Size(seg, i) ELSE seg[i].synced
  BY <1>2, SyncedIs, Types
<1>4. Files(Synced(seg)) /\ \A i \in DOMAIN seg : Size(Synced(seg), i) = Size(seg, i)
  BY <1>3, SameFiles, Types
<1>5. /\ Same(Synced(seg), seg') /\ DOMAIN seg' = DOMAIN seg
      /\ \A i \in DOMAIN seg : seg'[i].linked /\ seg'[i].synced = Synced(seg)[i].synced
  BY <1>1, <1>3, <1>4, LinkedIs
<1>6. Same(seg, seg')
  BY <1>3, <1>4, <1>5 DEF Same
<1>7. SameStep
  <2>2. \A i \in DOMAIN seg : seg[i].synced \in Nat /\ seg[i].synced <= Size(seg, i)
    BY Types, FileFields DEF Files, File, Size
  <2>3. \A i \in DOMAIN seg : seg[i].synced <= seg'[i].synced
    BY <1>3, <1>5, <2>2
  <2> QED BY <1>1, <1>5, <1>6, <2>3, ListedIs DEF SameStep
<1>8. Others
  <2>1. manifest' \in Paper
    BY <1>1, Types DEF NewManifest, Paper, Memory
  <2> QED BY <1>1, <2>1, Types, OthersNow, ListedIs DEF Others
<1>9. /\ Current' = Current /\ EventsIn(seg') = EventsIn(seg) /\ Current \in DOMAIN seg
      /\ \A i \in DOMAIN seg : Size(seg', i) = Size(seg, i) /\ seg'[i].recs = seg[i].recs
  BY <1>2, <1>7, SameKnown, HighestName, Types DEF Current
<1>10. Phase'
  BY <1>1, <1>5, <1>9, ListedIs DEF Good, Phase, Serving
<1>11. InFlight'
  BY <1>1 DEF Good, InFlight
<1>12. Sealed'
  BY <1>1, <1>2, <1>7, ListedIs, ListedSealed
<1>13. Retained
  BY <1>1, ListedIs DEF Near, Queued, Retained
<1>14. ASSUME Swept, "power" \in Faults PROVE Tidy(seg') /\ Tidy(acked')
  <2>1. Tidy(Synced(seg))
    BY <1>1, <1>2, <1>14, AllSynced
  <2>2. \A i \in DOMAIN seg : Size(seg', i) = Size(Synced(seg), i)
    BY <1>4, <1>9
  <2> QED BY <1>1, <1>3, <1>5, <1>14, <2>1, <2>2 DEF Tidy, Swept
<1>15. Swept => Swept'
  BY <1>14 DEF Swept, Tidy
<1>16. Listing
  BY <1>5, <1>14 DEF Listing
<1>17. Pointing
  BY <1>1 DEF Pointing
<1> QED BY <1>7, <1>8, <1>10, <1>11, <1>12, <1>13, <1>15, <1>16, <1>17, SameMoves

(* All records are listed, with all segments synced.                       *)
LEMMA ListMoves ==
    ASSUME Good, seg' = Linked(seg), acked' = acked, cursor' = cursor, DOMAIN seg # {},
           hist'.promised = hist.promised \cup Recorded(seg), Others, Phase', InFlight',
           Retained, Pointing, Swept /\ "power" \in Faults => Tidy(seg)
    PROVE  Moves
<1>1. /\ Same(seg, seg') /\ DOMAIN seg' = DOMAIN seg
      /\ \A i \in DOMAIN seg : seg'[i].linked /\ seg'[i].synced = seg[i].synced
  BY LinkedIs, Types
<1>2. \A i \in DOMAIN seg : seg[i].synced \in Nat
  BY Types, FileFields DEF Files
<1>3. SameStep
  BY <1>1, <1>2 DEF SameStep
<1>4. Sealed'
  BY <1>3, ListedSealed
<1>5. \A i \in DOMAIN seg : Size(seg', i) = Size(seg, i)
  BY <1>3, SameKnown
<1>6. ASSUME Swept, "power" \in Faults PROVE Tidy(seg') /\ Tidy(acked')
  BY <1>1, <1>5, <1>6 DEF Tidy, Swept
<1>7. Swept => Swept'
  BY <1>6 DEF Swept, Tidy
<1>8. Listing
  BY <1>1, <1>6 DEF Listing
<1> QED BY <1>3, <1>4, <1>7, <1>8, SameMoves

LEMMA LinkKnown ==
    ASSUME Good, seg' = Linked(seg)
    PROVE  /\ DOMAIN seg' = DOMAIN seg /\ Current' = Current /\ EventsIn(seg') = EventsIn(seg)
           /\ \A i \in DOMAIN seg : Size(seg', i) = Size(seg, i) /\ seg'[i].recs = seg[i].recs
<1>1. Same(seg, seg') /\ DOMAIN seg' = DOMAIN seg
  BY LinkedIs, Types
<1>2. Recorded(seg') = Recorded(seg) /\ \A i \in DOMAIN seg : Size(seg', i) = Size(seg, i)
  BY <1>1, Types, SameFiles
<1> QED BY <1>1, <1>2 DEF Current, EventsIn, Same

LEMMA ManifestMoves ==
    ASSUME Good, WriteManifest
    PROVE  Moves
<1>1. /\ seg' = Linked(seg) /\ acked' = acked /\ manifest' = NewManifest(FALSE) /\ cursor' = cursor
      /\ mem' = mem /\ queue' = queue /\ flight' = <<>> /\ apc' = apc /\ left' = left
      /\ kept' = kept /\ hist' = Promised(seg) /\ wpc = "manifest" /\ wpc' = "idle"
  BY DEF WriteManifest
<1>2. DOMAIN seg # {} /\ Current \in DOMAIN seg
  BY <1>1, HighestName, Types DEF Good, Phase, Current
<1>3. Others
  <2>1. manifest' \in Paper
    BY <1>1, Types DEF NewManifest, Paper, Memory
  <2>2. flight' \in Seq(Event)
    BY <1>1
  <2> QED BY <1>1, <2>1, <2>2, Types, ListedIs DEF Others, Places, Serving
<1>4. Phase'
  BY <1>1, <1>2, LinkKnown, ListedIs DEF Good, Phase, Serving
<1>5. InFlight'
  <2>1. Len(flight') = 0
    BY <1>1
  <2> QED BY <1>1, <2>1 DEF InFlight
<1>6. Retained
  <2>1. ASSUME NEW e \in ToSet(flight) PROVE e \in Far'
    <3>1. flight \in Seq(Event) /\ DOMAIN flight = 1 .. Len(flight)
      BY Types, LenProperties
    <3>2. PICK k \in 1 .. Len(flight) : e = flight[k]
      BY <2>1, <3>1 DEF ToSet
    <3>3. e \in EventsIn(seg) \cup EventsPromised
      BY <1>1, <3>2 DEF Good, InFlight
    <3>4. EventsIn(seg') = EventsIn(seg) /\ EventsPromised \subseteq EventsPromised'
      BY <1>1, LinkKnown, ListedIs DEF EventsPromised
    <3> QED BY <3>3, <3>4 DEF Far
  <2> QED BY <1>1, <2>1, ListedIs DEF Retained, Near, Queued
<1>7. Pointing
  BY <1>1 DEF Pointing
<1>8. Swept /\ "power" \in Faults => Tidy(seg)
  BY <1>1 DEF Swept, Tidy
<1>9. hist'.promised = hist.promised \cup Recorded(seg)
  BY <1>1, ListedIs
<1> QED BY <1>1, <1>2, <1>3, <1>4, <1>5, <1>6, <1>7, <1>8, <1>9, ListMoves

LEMMA OpenManifestMoves ==
    ASSUME Good, OpenManifest
    PROVE  Moves
<1>1. /\ seg' = Linked(seg) /\ acked' = acked /\ manifest' = NewManifest(FALSE) /\ cursor' = cursor
      /\ mem' = [mem EXCEPT !.status = "healthy", !.accepting = TRUE]
      /\ queue' = queue /\ flight' = flight /\ apc' = apc /\ left' = left
      /\ kept' = kept /\ hist' = [Promised(seg) EXCEPT !.lost = @ /\ seg[Current].recs = <<>>]
      /\ wpc = "opened" /\ wpc' = "idle"
  BY DEF OpenManifest
<1>2. DOMAIN seg # {} /\ Current \in DOMAIN seg /\ flight = <<>>
  BY <1>1, HighestName, Types DEF Good, Phase, Current, Starting
<1>3. /\ hist' \in Events /\ hist'.promised = hist.promised \cup Recorded(seg)
      /\ hist'.accepted = hist.accepted
  <2> DEFINE b == seg[Current].recs = <<>>
  <2>1. hist' = [Promised(seg) EXCEPT !.lost = @ /\ b]
    BY <1>1
  <2> HIDE DEF b
  <2> QED BY <2>1, ListedIs DEF Events
<1>4. mem' \in Memory /\ mem'.status = "healthy"
  BY <1>1, Types DEF Memory
<1>5. Others
  <2>1. manifest' \in Paper
    BY <1>1, Types DEF NewManifest, Paper, Memory
  <2> QED BY <1>1, <1>3, <1>4, <2>1, Types DEF Others, Places, Serving
<1>6. Phase'
  BY <1>1, <1>2, <1>4, LinkKnown DEF Good, Phase, Serving
<1>7. InFlight'
  <2>1. Len(flight') = 0
    BY <1>1, <1>2
  <2> QED BY <1>1, <2>1 DEF InFlight
<1>8. Retained
  BY <1>1, <1>3 DEF Retained, Near, Queued
<1>9. Pointing
  BY <1>1 DEF Pointing
<1>10. Swept /\ "power" \in Faults => Tidy(seg)
  BY <1>1 DEF Swept, Tidy
<1> QED BY <1>1, <1>2, <1>3, <1>5, <1>6, <1>7, <1>8, <1>9, <1>10, ListMoves

LEMMA StopMoves ==
    ASSUME Good, Stop
    PROVE  Moves
<1>1. /\ seg' = Linked(seg) /\ acked' = acked /\ manifest' = NewManifest(TRUE) /\ cursor' = cursor
      /\ mem' = [mem EXCEPT !.status = "down"]
      /\ queue' = Tail(queue) /\ flight' = flight /\ apc' = Idle /\ left' = left
      /\ hist' = [Promised(seg) EXCEPT !.accepted = {}]
      /\ wpc = "idle" /\ wpc' = "none" /\ ~Dirty /\ queue # <<>> /\ Head(queue).kind # "event"
  BY DEF Stop
<1>2. DOMAIN seg # {} /\ Current \in DOMAIN seg /\ flight = <<>>
  BY <1>1, HighestName, Types DEF Good, Phase, Current
<1>3. /\ hist' \in Events /\ hist'.promised = hist.promised \cup Recorded(seg)
      /\ hist'.accepted = {}
  BY <1>1, ListedIs DEF Events
<1>4. mem' \in Memory /\ mem'.status = "down"
  BY <1>1, Types DEF Memory
<1>5. Others
  <2>1. manifest' \in Paper
    BY <1>1, Types DEF NewManifest, Paper, Memory
  <2>2. queue' \in Seq(Command)
    BY <1>1, Types, QueueTail
  <2>3. apc' \in Pointer
    BY <1>1 DEF Idle, Pointer
  <2> QED BY <1>1, <1>3, <1>4, <2>1, <2>2, <2>3, Types DEF Others, Places
<1>6. Phase'
  BY <1>1, <1>2, <1>3, <1>4 DEF Phase, Serving, Starting
<1>7. InFlight'
  <2>1. Len(flight') = 0
    BY <1>1, <1>2
  <2> QED BY <1>1, <2>1 DEF InFlight
<1>8. Retained
  BY <1>3 DEF Retained
<1>9. Pointing
  BY <1>1 DEF Pointing
<1>10. Swept /\ "power" \in Faults => Tidy(seg)
  <2>1. seg[Current].synced = Size(seg, Current)
    <3>1. seg[Current].synced \in Nat /\ Size(seg, Current) \in Nat /\ seg[Current].synced <= Size(seg, Current)
      BY <1>2, Types, FileFields DEF Files, File, Size
    <3> QED BY <1>1, <3>1 DEF Dirty, Size
  <2> QED BY <2>1 DEF Swept, Tidy
<1> QED BY <1>1, <1>2, <1>3, <1>5, <1>6, <1>7, <1>8, <1>9, <1>10, ListMoves

(* The writer fails, and may leave a record cut in the open segment.       *)
Torn(b) == [seg EXCEPT ![Current].torn = b]

LEMMA TornIs ==
    ASSUME Files(seg), NEW b \in BOOLEAN
    PROVE  /\ Same(seg, Torn(b))
           /\ \A i \in DOMAIN seg : Torn(b)[i].linked = seg[i].linked /\ Torn(b)[i].synced = seg[i].synced
<1>1. \A i \in DOMAIN seg : seg[i] \in Segment /\ seg[i].synced <= Size(seg, i)
  BY DEF Files, File, Size
<1>2. DOMAIN Torn(b) = DOMAIN seg /\ Torn(b) = [i \in DOMAIN Torn(b) |-> Torn(b)[i]]
  BY DEF Torn, Files
<1>3. ASSUME NEW i \in DOMAIN seg
      PROVE  Torn(b)[i] = IF i = Current THEN [seg[i] EXCEPT !.torn = b] ELSE seg[i]
  BY DEF Torn
<1>4. ASSUME NEW i \in DOMAIN seg
      PROVE  /\ Torn(b)[i] \in Segment /\ Torn(b)[i].recs = seg[i].recs
             /\ Torn(b)[i].linked = seg[i].linked /\ Torn(b)[i].synced = seg[i].synced
  BY <1>1, <1>3 DEF Segment
<1> HIDE DEF Torn
<1> QED BY <1>1, <1>2, <1>4 DEF Same

LEMMA WriterFailsMoves ==
    ASSUME Good, WriterFails
    PROVE  Moves
<1>1. /\ acked' = acked /\ manifest' = manifest /\ cursor' = cursor /\ mem' = mem /\ queue' = queue
      /\ flight' = flight /\ apc' = apc /\ left' = left /\ hist' = hist
      /\ kept' = kept \cup {e \in ToSet(flight) : Terminal(e)}
      /\ wpc \in {"append", "sync", "manifest"} /\ wpc' = "failing"
  BY DEF WriterFails, KeepTerminals
<1>2. PICK b \in BOOLEAN : seg' = Torn(b)
  BY DEF WriterFails, Torn
<1>3. /\ Same(seg, seg')
      /\ \A i \in DOMAIN seg : seg'[i].linked = seg[i].linked /\ seg'[i].synced = seg[i].synced
  BY <1>2, TornIs, Types
<1>4. SameStep
  <2>1. \A i \in DOMAIN seg : seg[i].synced \in Nat
    BY Types, FileFields DEF Files
  <2> QED BY <1>1, <1>3, <2>1 DEF SameStep
<1>5. Others
  BY <1>1, Types, OthersNow DEF Others, Places, Serving
<1>6. /\ DOMAIN seg' = DOMAIN seg /\ Current' = Current
      /\ \A i \in DOMAIN seg : Size(seg', i) = Size(seg, i) /\ seg'[i].recs = seg[i].recs
  BY <1>4, SameKnown
<1>7. DOMAIN seg # {} /\ Current \in DOMAIN seg
  BY <1>1, HighestName, Types DEF Good, Phase, Current
<1>8. Phase'
  BY <1>1, <1>6, <1>7 DEF Good, Phase, Serving, Starting
<1>9. InFlight'
  BY <1>1 DEF Good, InFlight
<1>10. Sealed'
  BY <1>1, <1>6 DEF Good, Sealed, Serving
<1>11. Retained
  BY <1>1 DEF Retained, Near, Queued
<1>12. Listing /\ Pointing
  BY <1>1 DEF Listing, Pointing
<1>13. Swept => Swept'
  BY <1>1, <1>3, <1>6 DEF Swept, Tidy
<1> QED BY <1>4, <1>5, <1>8, <1>9, <1>10, <1>11, <1>12, <1>13, SameMoves

(* The manifest without the renamed segments.                              *)
LEMMA AckManifestMoves ==
    ASSUME Good, AckManifest
    PROVE  Moves
<1> DEFINE a == Max({r.seq : r \in Recorded(acked)})
<1>1. /\ seg' = Linked(seg) /\ acked' = acked /\ cursor' = cursor /\ queue' = queue
      /\ flight' = flight /\ left' = left /\ kept' = kept /\ hist' = hist /\ wpc' = wpc
      /\ apc.at = "manifest" /\ apc' = [apc EXCEPT !.at = "unlink"]
      /\ mem' = [mem EXCEPT !.list = DOMAIN seg, !.anchor = a]
      /\ manifest' = [clean |-> FALSE, anchor |-> mem'.anchor, names |-> mem'.list]
  BY DEF AckManifest
<1>2. a \in Nat
  <2>1. PICK i \in DOMAIN acked : acked[i].recs # <<>>
    BY <1>1 DEF Good, Below
  <2>2. File(acked[i])
    BY Types DEF Files
  <2>3. Size(acked, i) \in Nat /\ acked[i].recs \in Seq(Record)
    BY <2>2, FileFields DEF Size
  <2>4. Size(acked, i) # 0
    BY <2>1, <2>3, EmptySeq DEF Size
  <2>5. 1 \in 1 .. Size(acked, i)
    BY <2>3, <2>4
  <2>6. acked[i].recs[1] \in Recorded(acked)
    BY <2>5, RecordedIs, Types
  <2> QED BY <2>6, HighestOf, Types
<1> HIDE DEF a
<1>3. DOMAIN seg \in SUBSET Nat
  BY HighestName, Types
<1>4. mem' \in Memory /\ mem'.status = mem.status
  BY <1>1, <1>2, <1>3, Types DEF Memory
<1>5. apc' \in Pointer /\ apc'.at = "unlink" /\ apc'.to = apc.to
  BY <1>1, Types DEF Pointer, Acking
<1>6. Others
  <2>1. manifest' \in Paper
    BY <1>1, <1>4 DEF Paper, Memory
  <2> QED BY <1>1, <1>4, <1>5, <2>1, Types, OthersNow DEF Others
<1>7. /\ Same(seg, seg')
      /\ \A i \in DOMAIN seg : seg'[i].linked /\ seg'[i].synced = seg[i].synced
  BY <1>1, LinkedIs, Types
<1>8. SameStep
  <2>1. \A i \in DOMAIN seg : seg[i].synced \in Nat
    BY Types, FileFields DEF Files
  <2> QED BY <1>1, <1>7, <2>1 DEF SameStep
<1>9. /\ DOMAIN seg' = DOMAIN seg /\ Current' = Current /\ EventsIn(seg') = EventsIn(seg)
      /\ \A i \in DOMAIN seg : Size(seg', i) = Size(seg, i) /\ seg'[i].recs = seg[i].recs
  BY <1>8, SameKnown
<1>10. wpc \in Serving /\ DOMAIN seg # {} /\ Current \in DOMAIN seg
  <2>1. wpc \in Serving
    BY <1>1, Types DEF Idle
  <2> QED BY <2>1, HighestName, Types DEF Good, Phase, Current, Serving
<1>11. Phase'
  BY <1>1, <1>4, <1>9, <1>10 DEF Good, Phase, Serving, Starting
<1>12. InFlight'
  BY <1>1, <1>9 DEF Good, InFlight, EventsPromised
<1>13. Sealed'
  BY <1>1, <1>7, <1>9, <1>10 DEF Good, Sealed
<1>14. Retained
  BY <1>1 DEF Retained, Near, Queued
<1>15. Listing /\ Pointing
  BY <1>1, <1>5 DEF Listing, Pointing
<1>16. Swept => Swept'
  BY <1>1, <1>7, <1>9 DEF Swept, Tidy
<1> QED BY <1>6, <1>8, <1>11, <1>12, <1>13, <1>14, <1>15, <1>16, SameMoves

-----------------------------------------------------------------------------
(* Steps of the consumer that move the cursor and the acknowledged files.  *)

LEMMA Assemble ==
    ASSUME Good, Others, Files(seg'), Files(acked'), cursor' \in Nat,
           Phase', InFlight', Sealed', Below', Retained,
           Recorded(seg) \cup Recorded(acked) \cup hist.promised
             \subseteq Recorded(seg') \cup Recorded(acked') \cup hist'.promised,
           OneKindOfFault /\ Durable => Durable'
    PROVE  Moves
<1>1. TerminalKept'
  BY KeptMoves DEF Good, Retained
<1>2. Typed'
  BY TypedNext
<1> QED BY <1>1, <1>2 DEF Moves, Good

LEMMA CursorMoves ==
    ASSUME Good, WriteCursor
    PROVE  Moves
<1>1. /\ seg' = seg /\ acked' = acked /\ manifest' = manifest /\ mem' = mem /\ queue' = queue
      /\ flight' = flight /\ wpc' = wpc /\ left' = left /\ kept' = kept /\ hist' = hist
      /\ apc.at = "cursor" /\ cursor' = apc.to /\ apc' = [apc EXCEPT !.at = "rename"]
  BY DEF WriteCursor
<1>2. apc' \in Pointer /\ apc'.at = "rename" /\ apc'.to = cursor' /\ cursor' \in Nat
  BY <1>1, Types DEF Pointer, Acking
<1>3. cursor \in Nat /\ cursor' > cursor
  BY <1>1, Types DEF Good, Below
<1>4. Others
  BY <1>1, <1>2, Types, OthersNow DEF Others
<1>5. wpc \in Serving
  BY <1>1, Types DEF Idle
<1>6. Phase'
  BY <1>1, <1>5 DEF Good, Phase, Current, Serving
<1>7. InFlight' /\ Sealed'
  BY <1>1 DEF Good, InFlight, Sealed, Current, EventsPromised
<1>8. Below'
  <2>1. \A r \in Recorded(acked) : r.seq \in Nat
    BY RecordedType, Types DEF Record
  <2>2. \A r \in Recorded(acked) : r.seq < cursor'
    BY <1>2, <1>3, <2>1 DEF Good, Below
  <2> QED BY <1>1, <1>2, <2>2 DEF Good, Below
<1>9. Retained
  BY <1>1 DEF Retained, Near, Queued
<1>10. Durable => Durable'
  <2>1. Secured => Secured'
    <3> SUFFICES ASSUME Secured, NEW r \in hist.promised, r.seq >= cursor' PROVE Safe(seg, r)
      BY <1>1 DEF Secured
    <3>1. r.seq \in Nat
      BY Types DEF Events, Record
    <3>2. r.seq >= cursor
      BY <1>2, <1>3, <3>1
    <3> QED BY <3>2 DEF Secured
  <2>2. Swept => Swept'
    BY <1>1 DEF Swept, Current
  <2> QED BY <2>1, <2>2 DEF Durable
<1>11. Recorded(seg) \cup Recorded(acked) \cup hist.promised
             \subseteq Recorded(seg') \cup Recorded(acked') \cup hist'.promised
  BY <1>1
<1>12. Files(seg') /\ Files(acked')
  BY <1>1, Types
<1> QED BY <1>2, <1>4, <1>6, <1>7, <1>8, <1>9, <1>10, <1>11, <1>12, Assemble

LEMMA NoFiles ==
    Files(<< >>) /\ DOMAIN << >> = {} /\ Recorded(<< >>) = {}
<1>1. DOMAIN << >> = {} /\ << >> = [i \in {} |-> << >>[i]]
  OBVIOUS
<1>2. Bound(<< >>, 0)
  BY <1>1 DEF Bound
<1> QED BY <1>1, <1>2 DEF Files, Recorded

LEMMA UnlinkMoves ==
    ASSUME Good, Unlink
    PROVE  Moves
<1>1. /\ seg' = seg /\ acked' = << >> /\ manifest' = manifest /\ mem' = mem /\ queue' = queue
      /\ flight' = flight /\ wpc' = wpc /\ left' = left /\ kept' = kept /\ hist' = hist
      /\ cursor' = cursor /\ apc.at = "unlink" /\ apc' = Idle
  BY DEF Unlink
<1>2. Others
  <2>1. apc' \in Pointer
    BY <1>1 DEF Idle, Pointer
  <2> QED BY <1>1, <2>1, Types, OthersNow DEF Others
<1>3. wpc \in Serving
  BY <1>1, Types DEF Idle
<1>4. Phase'
  BY <1>1, <1>3 DEF Good, Phase, Current, Serving
<1>5. DOMAIN acked' = {} /\ Recorded(acked') = {} /\ Files(acked') /\ Files(seg') /\ cursor' \in Nat
  BY <1>1, NoFiles, Types
<1>6. InFlight' /\ Sealed'
  BY <1>1, <1>5 DEF Good, InFlight, Sealed, Current, EventsPromised
<1>7. Below'
  BY <1>1, <1>5 DEF Below, Idle
<1>8. Retained
  BY <1>1 DEF Retained, Near, Queued
<1>9. Durable => Durable'
  BY <1>1, <1>5 DEF Durable, Swept, Secured, Current, Tidy
<1>10. Recorded(seg) \cup Recorded(acked) \cup hist.promised
             \subseteq Recorded(seg') \cup Recorded(acked') \cup hist'.promised
  BY <1>1 DEF Good, Sealed
<1> QED BY <1>2, <1>4, <1>5, <1>6, <1>7, <1>8, <1>9, <1>10, Assemble

(* A segment that ends below the cursor is renamed.                        *)
LEMMA RenameMoves ==
    ASSUME Good, NEW n \in DOMAIN seg, Rename(n)
    PROVE  Moves
<1>1. /\ acked' = With(acked, n, seg[n]) /\ seg' = [j \in DOMAIN seg \ {n} |-> seg[j]]
      /\ manifest' = manifest /\ mem' = mem /\ queue' = queue
      /\ flight' = flight /\ wpc' = wpc /\ left' = left /\ kept' = kept /\ hist' = hist
      /\ cursor' = cursor /\ apc' = apc /\ apc.at = "rename"
      /\ n # Current /\ seg[n].recs # <<>> /\ Last(seg[n].recs).seq < apc.to
  BY DEF Rename, Deletable
<1>2. Files(seg) /\ Files(acked) /\ cursor \in Nat
  BY Types
<1>3. wpc \in Serving /\ apc.to = cursor /\ apc' \in Pointer
  BY <1>1, Types DEF Idle, Good, Below
<1>4. File(seg[n]) /\ n \in Nat \ {0}
  BY <1>2, HighestName DEF Files
<1>5. /\ Files(acked') /\ DOMAIN acked' = DOMAIN acked \cup {n} /\ acked'[n] = seg[n]
      /\ \A j \in DOMAIN acked \ {n} : acked'[j] = acked[j]
  <2> DEFINE f == seg[n]
  <2>1. acked' = With(acked, n, f) /\ File(f)
    BY <1>1, <1>4
  <2> HIDE DEF f
  <2>2. Widened(acked, With(acked, n, f), n, f)
    BY <1>2, <1>4, <2>1, WithIs
  <2>3. Widened(acked, acked', n, f)
    BY <2>1, <2>2
  <2> QED BY <2>3 DEF f, Widened
<1>6. /\ DOMAIN seg' = DOMAIN seg \ {n} /\ seg' = [j \in DOMAIN seg' |-> seg'[j]]
      /\ \A j \in DOMAIN seg' : seg'[j] = seg[j] /\ Size(seg', j) = Size(seg, j)
  BY <1>1 DEF Size
<1>7. Files(seg')
  <2>1. Less(seg, seg')
    <3> SUFFICES ASSUME NEW j \in DOMAIN seg'
                 PROVE  seg[j] \in Segment /\ seg[j].synced <= Size(seg, j) /\ Size(seg, j) \in Nat
      BY <1>6 DEF Less
    <3>1. File(seg[j])
      BY <1>2, <1>6 DEF Files
    <3> QED BY <3>1, FileFields DEF File, Size
  <2> QED BY <1>2, <2>1, LessFiles
<1>8. /\ Current' = Current /\ Current \in DOMAIN seg'
  <2>1. Current \in DOMAIN seg /\ \A j \in DOMAIN seg : j <= Current
    BY <1>2, HighestName DEF Current
  <2>2. DOMAIN seg' \subseteq Nat /\ Current \in DOMAIN seg' /\ \A j \in DOMAIN seg' : j <= Current
    BY <1>1, <1>2, <1>6, <2>1, HighestName
  <2>3. Max(DOMAIN seg') = Current
    BY <2>2, MaxIs
  <2> QED BY <2>2, <2>3 DEF Current
<1>9. ToSet(seg[n].recs) \subseteq hist.promised
  BY <1>1, <1>3 DEF Good, Sealed
<1>10. \A r \in ToSet(seg[n].recs) : r.seq < cursor
  <2> SUFFICES ASSUME NEW r \in ToSet(seg[n].recs) PROVE r.seq < cursor
    OBVIOUS
  <2> DEFINE q == seg[n].recs
             m == Len(seg[n].recs)
  <2>1. m \in Nat /\ DOMAIN q = 1 .. m /\ \A k \in 1 .. m : q[k].seq \in Nat
    BY <1>4, FileFields
  <2>2. PICK k \in 1 .. m : r = q[k]
    BY <2>1 DEF ToSet
  <2>3. m \in 1 .. m /\ k <= m
    BY <2>1
  <2>4. q[k].seq <= q[m].seq
    BY <1>4, <2>3 DEF File
  <2>5. q[m].seq < cursor
    BY <1>1, <1>3 DEF Last
  <2> HIDE DEF q, m
  <2> QED BY <1>2, <2>1, <2>2, <2>3, <2>4, <2>5
<1>11. \A r \in Recorded(acked') : r \in Recorded(acked) \/ r \in ToSet(seg[n].recs)
  BY <1>5 DEF Recorded
<1>12. \A r \in Recorded(seg) : r \in Recorded(seg') \/ r \in ToSet(seg[n].recs)
  BY <1>6 DEF Recorded
<1>13. Others
  BY <1>1, <1>3, Types, OthersNow DEF Others
<1>14. Phase'
  BY <1>1, <1>3, <1>6, <1>8 DEF Good, Phase, Serving, Starting
<1>15. InFlight'
  <2>1. EventsIn(seg) \cup EventsPromised \subseteq EventsIn(seg') \cup EventsPromised'
    BY <1>1, <1>9, <1>12 DEF EventsIn, EventsPromised
  <2> QED BY <1>1, <2>1 DEF Good, InFlight
<1>16. Sealed'
  <2>1. Recorded(acked') \subseteq hist'.promised
    BY <1>1, <1>9, <1>11 DEF Good, Sealed
  <2> QED BY <1>1, <1>6, <1>8, <2>1 DEF Good, Sealed
<1>17. Below'
  <2>1. \A r \in Recorded(acked') : r.seq < cursor'
    BY <1>1, <1>10, <1>11 DEF Good, Below
  <2>2. \A i \in DOMAIN acked' : acked'[i].recs # <<>>
    BY <1>1, <1>5 DEF Good, Below
  <2> QED BY <1>1, <1>5, <2>1, <2>2 DEF Good, Below
<1>18. Retained
  BY <1>1 DEF Retained, Near, Queued
<1>19. Swept => Swept'
  <2> SUFFICES ASSUME Swept, "power" \in Faults PROVE Swept'
    BY DEF Swept
  <2>1. Tidy(acked')
    <3>1. seg[n].synced = Size(seg, n)
      BY <1>1 DEF Swept
    <3> QED BY <1>5, <3>1 DEF Swept, Tidy, Size
  <2> QED BY <1>1, <1>6, <1>8, <2>1 DEF Swept
<1>20. Secured => Secured'
  <2> SUFFICES ASSUME Secured, NEW r \in hist.promised, r.seq >= cursor PROVE Safe(seg', r)
    BY <1>1 DEF Secured
  <2>1. PICK i \in DOMAIN seg : \E k \in 1 .. Size(seg, i) :
             seg[i].recs[k] = r /\ ("power" \in Faults => seg[i].linked /\ k <= seg[i].synced)
    BY DEF Secured, Safe
  <2>2. i # n
    <3> SUFFICES ASSUME i = n PROVE FALSE
      OBVIOUS
    <3>1. DOMAIN seg[n].recs = 1 .. Size(seg, n)
      BY <1>4, FileFields DEF Size
    <3>2. r \in ToSet(seg[n].recs)
      BY <2>1, <3>1 DEF ToSet
    <3>3. r.seq \in Nat
      BY Types DEF Events, Record
    <3> QED BY <1>2, <1>10, <3>2, <3>3
  <2> QED BY <1>6, <2>1, <2>2 DEF Safe
<1>21. Recorded(seg) \cup Recorded(acked) \cup hist.promised
             \subseteq Recorded(seg') \cup Recorded(acked') \cup hist'.promised
  BY <1>1, <1>9, <1>12 DEF Good, Sealed
<1>22. Durable => Durable'
  BY <1>19, <1>20 DEF Durable
<1>23. cursor' \in Nat
  BY <1>1, <1>2
<1> QED BY <1>5, <1>7, <1>13, <1>14, <1>15, <1>16, <1>17, <1>18, <1>21, <1>22, <1>23, Assemble

-----------------------------------------------------------------------------
(* Steps that write a record.                                              *)

AppendStep(r) ==
    /\ seg' = Added(seg, Current, r) /\ acked' = acked /\ manifest' = manifest /\ cursor' = cursor
    /\ queue' = queue /\ flight' = flight /\ apc' = apc /\ left' = left /\ kept' = kept
    /\ hist' = hist /\ mem' \in Memory /\ mem'.status = mem.status
    /\ mem'.anchor = mem.anchor /\ mem'.list = mem.list
    /\ (wpc = "append" /\ wpc' = "append") \/ (wpc = "gap" /\ wpc' = "gapsync")
    /\ r \in Record /\ r.seq = LastSeq + 1 /\ Size(seg, Current) < SegmentCap

LEMMA AppendMoves ==
    ASSUME Good, NEW r, AppendStep(r)
    PROVE  Moves
<1>1. /\ seg' = Added(seg, Current, r) /\ acked' = acked /\ manifest' = manifest /\ cursor' = cursor
      /\ queue' = queue /\ flight' = flight /\ apc' = apc /\ left' = left /\ kept' = kept
      /\ hist' = hist /\ mem' \in Memory /\ mem'.status = mem.status
      /\ (wpc = "append" /\ wpc' = "append") \/ (wpc = "gap" /\ wpc' = "gapsync")
      /\ r \in Record /\ r.seq = LastSeq + 1 /\ Size(seg, Current) < SegmentCap
  BY DEF AppendStep
<1>2. DOMAIN seg # {} /\ Current \in DOMAIN seg
  BY <1>1, HighestName, Types DEF Good, Phase, Current
<1>3. Appended(seg, seg', Current, r)
  <2>1. mem.anchor \in Nat
    BY Types DEF Memory
  <2>2. LastSeq \in Nat /\ \A x \in Recorded(seg) : x.seq \in Nat /\ x.seq <= LastSeq
    BY <2>1, Types, HighestSeq DEF LastSeq
  <2>3. \A x \in Recorded(seg) : x.seq <= r.seq
    BY <1>1, <2>2
  <2>4. Appended(seg, Added(seg, Current, r), Current, r)
    BY <1>1, <1>2, <2>3, Types, AddedIs
  <2> QED BY <1>1, <2>4
<1>4. Files(seg') /\ DOMAIN seg' = DOMAIN seg /\ Recorded(seg') = Recorded(seg) \cup {r}
  BY <1>3 DEF Appended
<1>5. Current' = Current
  BY <1>4 DEF Current
<1>6. \A i \in DOMAIN seg :
         /\ seg'[i].synced = seg[i].synced /\ seg'[i].linked = seg[i].linked
         /\ Size(seg', i) = Size(seg, i) + (IF i = Current THEN 1 ELSE 0)
         /\ i # Current => seg'[i].recs = seg[i].recs
         /\ \A k \in 1 .. Size(seg, i) : seg'[i].recs[k] = seg[i].recs[k]
  BY <1>3 DEF Appended
<1>7. \A i \in DOMAIN seg : /\ Size(seg, i) \in Nat /\ seg[i].synced \in Nat /\ seg[i].synced <= Size(seg, i)
  BY Types, FileFields DEF Files, File, Size
<1>8. Others
  BY <1>1, Types, OthersNow DEF Others, Places, Serving, Starting
<1>9. Size(seg', Current) <= SegmentCap
  <2>1. Size(seg', Current) = Size(seg, Current) + 1 /\ Size(seg, Current) \in Nat
    BY <1>2, <1>6, <1>7
  <2> QED BY <1>1, <2>1, OthersNow
<1>10. Phase'
  BY <1>1, <1>2, <1>4, <1>5, <1>9 DEF Good, Phase, Serving, Starting
<1>11. InFlight'
  BY <1>1 DEF Good, InFlight
<1>12. Sealed'
  <2>1. wpc = "append" => \A k \in 1 .. seg'[Current].synced : seg'[Current].recs[k] \in hist.promised
    <3> SUFFICES ASSUME wpc = "append", NEW k \in 1 .. seg[Current].synced
                 PROVE  seg'[Current].recs[k] \in hist.promised
      BY <1>2, <1>6
    <3>1. k \in 1 .. Size(seg, Current)
      BY <1>2, <1>7
    <3>2. seg[Current].recs[k] \in hist.promised
      BY DEF Good, Sealed
    <3> QED BY <1>2, <1>6, <3>1, <3>2
  <2> QED BY <1>1, <1>4, <1>5, <1>6, <2>1 DEF Good, Sealed, Serving
<1>13. Below'
  BY <1>1 DEF Good, Below
<1>14. Retained
  BY <1>1 DEF Retained, Near, Queued
<1>15. Swept => Swept'
  <2> SUFFICES ASSUME Swept, "power" \in Faults, NEW i \in DOMAIN seg, i # Current
               PROVE  seg'[i].synced = Size(seg', i)
    BY <1>1, <1>4, <1>5 DEF Swept
  <2>1. seg[i].synced = Size(seg, i)
    BY DEF Swept
  <2> QED BY <1>6, <1>7, <2>1
<1>16. Secured => Secured'
  <2> SUFFICES ASSUME Secured, NEW x \in hist.promised, x.seq >= cursor PROVE Safe(seg', x)
    BY <1>1 DEF Secured
  <2>1. PICK i \in DOMAIN seg : \E k \in 1 .. Size(seg, i) :
             seg[i].recs[k] = x /\ ("power" \in Faults => seg[i].linked /\ k <= seg[i].synced)
    BY DEF Secured, Safe
  <2>2. PICK k \in 1 .. Size(seg, i) :
             seg[i].recs[k] = x /\ ("power" \in Faults => seg[i].linked /\ k <= seg[i].synced)
    BY <2>1
  <2>3. k \in 1 .. Size(seg', i)
    BY <1>6, <1>7
  <2> QED BY <1>4, <1>6, <2>2, <2>3 DEF Safe
<1>17. Durable => Durable'
  BY <1>15, <1>16 DEF Durable
<1>18. Recorded(seg) \cup Recorded(acked) \cup hist.promised
             \subseteq Recorded(seg') \cup Recorded(acked') \cup hist'.promised
  BY <1>1, <1>4
<1>19. Files(acked') /\ cursor' \in Nat
  BY <1>1, Types
<1> QED BY <1>4, <1>8, <1>10, <1>11, <1>12, <1>13, <1>14, <1>17, <1>18, <1>19, Assemble

LEMMA AppendRecordIs ==
    ASSUME Good, AppendRecord
    PROVE  \E r : AppendStep(r) /\ r.ev = NextEvent
<1> DEFINE r == [seq |-> LastSeq + 1, ev |-> NextEvent]
<1>1. /\ seg' = Added(seg, Current, r) /\ acked' = acked /\ manifest' = manifest /\ cursor' = cursor
      /\ queue' = queue /\ flight' = flight /\ apc' = apc /\ left' = left /\ kept' = kept
      /\ hist' = hist /\ mem' = [mem EXCEPT !.queued = @ - 1]
      /\ wpc = "append" /\ wpc' = "append" /\ Written < Len(flight) /\ Size(seg, Current) < SegmentCap
  BY DEF AppendRecord, Added, Size
<1>2. /\ mem' \in Memory /\ mem'.status = mem.status /\ mem.anchor \in Nat
      /\ mem'.anchor = mem.anchor /\ mem'.list = mem.list
  <2>1. mem \in Memory
    BY Types
  <2> QED BY <1>1, <2>1 DEF Memory
<1>3. LastSeq \in Nat
  BY <1>2, Types, HighestSeq DEF LastSeq
<1>4. NextEvent \in Event
  <2> DEFINE n == Len(flight)
             W == {k \in 1 .. n : flight[k] \in EventsIn(seg)}
  <2>1. n \in Nat /\ flight \in Seq(Event)
    BY Types, LenProperties
  <2>2. IsFiniteSet(1 .. n)
    <3>1. 1 \in Int /\ n \in Int
      BY <2>1
    <3> HIDE DEF n
    <3> QED BY <3>1, FS_Interval
  <2>3. W \subseteq 1 .. n
    OBVIOUS
  <2>4. Cardinality(W) \in Nat
    <3> HIDE DEF n, W
    <3> QED BY <2>2, <2>3, FS_Subset, FS_CardinalityType
  <2>5. Written \in Nat
    BY <2>4 DEF Written
  <2>6. Written + 1 \in 1 .. n
    <3>1. Written < n
      BY <1>1
    <3> HIDE DEF n
    <3> QED BY <2>1, <2>5, <3>1
  <2>7. flight[Written + 1] \in Event
    BY <2>1, <2>6, ElementOfSeq
  <2> QED BY <2>7 DEF NextEvent
<1>5. r \in Record /\ r.seq = LastSeq + 1 /\ r.ev = NextEvent
  BY <1>3, <1>4 DEF Record
<1> HIDE DEF r
<1>6. AppendStep(r)
  BY <1>1, <1>2, <1>5 DEF AppendStep
<1> QED BY <1>5, <1>6

LEMMA AppendGapIs ==
    ASSUME Good, AppendGap
    PROVE  \E r : AppendStep(r) /\ r.ev = Gap
<1> DEFINE r == [seq |-> LastSeq + 1, ev |-> Gap]
<1>1. /\ seg' = Added(seg, Current, r) /\ acked' = acked /\ manifest' = manifest /\ cursor' = cursor
      /\ queue' = queue /\ flight' = flight /\ apc' = apc /\ left' = left /\ kept' = kept
      /\ hist' = hist /\ mem' = mem /\ wpc = "gap" /\ wpc' = "gapsync"
  BY DEF AppendGap, Added
<1>2. /\ mem' \in Memory /\ mem'.status = mem.status /\ mem.anchor \in Nat
      /\ mem'.anchor = mem.anchor /\ mem'.list = mem.list
  <2>1. mem \in Memory
    BY Types
  <2> QED BY <1>1, <2>1 DEF Memory
<1>3. LastSeq \in Nat
  BY <1>2, Types, HighestSeq DEF LastSeq
<1>4. Size(seg, Current) < SegmentCap
  <2>1. Size(seg, Current) = 0
    BY <1>1 DEF Good, Phase, Size
  <2> QED BY <2>1, OthersNow
<1>5. r \in Record /\ r.seq = LastSeq + 1 /\ r.ev = Gap
  BY <1>3 DEF Record
<1> HIDE DEF r
<1>6. AppendStep(r)
  BY <1>1, <1>2, <1>4, <1>5 DEF AppendStep
<1> QED BY <1>5, <1>6

LEMMA AppendsMove ==
    ASSUME Good, AppendRecord \/ AppendGap
    PROVE  Moves
  BY AppendRecordIs, AppendGapIs, AppendMoves

-----------------------------------------------------------------------------
(* Steps that open a new segment.                                          *)

LEMMA NewFile ==
    File(NewSegment) /\ NewSegment.recs = <<>> /\ NewSegment.synced = 0 /\ Len(NewSegment.recs) = 0
<1>1. NewSegment.recs = <<>> /\ NewSegment.synced = 0 /\ Len(NewSegment.recs) = 0
  BY DEF NewSegment
<1>2. NewSegment \in Segment
  BY DEF NewSegment, Segment
<1> QED BY <1>1, <1>2 DEF File

WidenStep(n) ==
    /\ seg' = With(seg, n, NewSegment) /\ acked' = acked /\ manifest' = manifest /\ cursor' = cursor
    /\ queue' = queue /\ flight' = flight /\ apc' = apc /\ left' = left /\ kept' = kept
    /\ hist' = hist /\ mem' \in Memory /\ mem'.status = mem.status
    /\ mem'.anchor = mem.anchor /\ mem'.list = mem.list \cup {n}
    /\ n \in Nat \ {0} /\ \A j \in DOMAIN seg : j < n
    /\ \/ /\ wpc = "append" /\ wpc' = "append"
          /\ seg[Current].synced = Size(seg, Current) /\ seg[Current].synced > 0
       \/ /\ wpc = "open" /\ wpc' = IF manifest.clean THEN "opened" ELSE "gap"

LEMMA WidenMoves ==
    ASSUME Good, NEW n, WidenStep(n)
    PROVE  Moves
<1>1. /\ seg' = With(seg, n, NewSegment) /\ acked' = acked /\ manifest' = manifest /\ cursor' = cursor
      /\ queue' = queue /\ flight' = flight /\ apc' = apc /\ left' = left /\ kept' = kept
      /\ hist' = hist /\ mem' \in Memory /\ mem'.status = mem.status
      /\ n \in Nat \ {0} /\ \A j \in DOMAIN seg : j < n
      /\ \/ wpc = "append" /\ wpc' = "append" /\ seg[Current].synced = Size(seg, Current)
         \/ wpc = "open" /\ wpc' \in {"gap", "opened"}
  BY DEF WidenStep
<1>2. Widened(seg, seg', n, NewSegment)
  <2>1. Widened(seg, With(seg, n, NewSegment), n, NewSegment)
    BY <1>1, Types, NewFile, WithIs
  <2> QED BY <1>1, <2>1
<1>3. DOMAIN seg \subseteq Nat /\ n \notin DOMAIN seg
  <2>1. DOMAIN seg \subseteq Nat
    BY HighestName, Types
  <2> QED BY <1>1, <2>1
<1>4. /\ Files(seg') /\ DOMAIN seg' = DOMAIN seg \cup {n} /\ seg'[n] = NewSegment
      /\ \A j \in DOMAIN seg : seg'[j] = seg[j] /\ Size(seg', j) = Size(seg, j)
  BY <1>2, <1>3 DEF Widened, Size
<1>5. Current' = n
  <2>1. \A j \in DOMAIN seg' : j <= n
    BY <1>1, <1>3, <1>4
  <2>2. DOMAIN seg' \subseteq Nat /\ n \in DOMAIN seg'
    BY <1>1, <1>3, <1>4
  <2>3. Max(DOMAIN seg') = n
    BY <2>1, <2>2, MaxIs
  <2> QED BY <2>3 DEF Current
<1>6. Recorded(seg') = Recorded(seg)
  <2>1. ToSet(NewSegment.recs) = {}
    BY NewFile DEF ToSet
  <2> QED BY <1>4, <2>1 DEF Recorded
<1>7. Others
  BY <1>1, Types, OthersNow DEF Others, Places, Serving, Starting
<1>8. Size(seg', n) = 0 /\ 0 <= SegmentCap
  BY <1>4, NewFile, OthersNow DEF Size
<1>9. Phase'
  BY <1>1, <1>4, <1>5, <1>8, NewFile DEF Good, Phase, Serving, Starting
<1>10. InFlight'
  BY <1>1 DEF Good, InFlight
<1>11. Sealed'
  <2>1. ASSUME wpc = "append", NEW i \in DOMAIN seg PROVE ToSet(seg[i].recs) \subseteq hist.promised
    <3>1. CASE i # Current
      BY <2>1, <3>1 DEF Good, Sealed, Serving
    <3>2. CASE i = Current
      <4>1. \A k \in 1 .. Size(seg, i) : seg[i].recs[k] \in hist.promised
        BY <1>1, <2>1, <3>2 DEF Good, Sealed
      <4>2. DOMAIN seg[i].recs = 1 .. Size(seg, i)
        BY Types, FileFields DEF Files, Size
      <4> QED BY <4>1, <4>2 DEF ToSet
    <3> QED BY <3>1, <3>2
  <2>2. seg'[n].synced = 0
    BY <1>4, NewFile
  <2>3. \A k \in 1 .. seg'[n].synced : FALSE
    BY <2>2
  <2> QED BY <1>1, <1>4, <1>5, <2>1, <2>3 DEF Good, Sealed, Serving
<1>12. Below'
  BY <1>1 DEF Good, Below
<1>13. Retained
  BY <1>1 DEF Retained, Near, Queued
<1>14. Swept => Swept'
  <2> SUFFICES ASSUME Swept, "power" \in Faults, NEW i \in DOMAIN seg'
               PROVE  Tidy(acked) /\ seg'[i].synced = Size(seg', i)
    BY <1>1 DEF Swept
  <2>1. CASE i = n
    BY <1>4, <1>8, <2>1, NewFile DEF Swept
  <2>2. CASE i # n
    <3>1. i \in DOMAIN seg
      BY <1>4, <2>2
    <3> QED BY <1>1, <1>4, <3>1 DEF Swept
  <2> QED BY <2>1, <2>2
<1>15. Secured => Secured'
  <2> SUFFICES ASSUME Secured, NEW x \in hist.promised, x.seq >= cursor PROVE Safe(seg', x)
    BY <1>1 DEF Secured
  <2>1. PICK i \in DOMAIN seg : \E k \in 1 .. Size(seg, i) :
             seg[i].recs[k] = x /\ ("power" \in Faults => seg[i].linked /\ k <= seg[i].synced)
    BY DEF Secured, Safe
  <2> QED BY <1>4, <2>1 DEF Safe
<1>16. Durable => Durable'
  BY <1>14, <1>15 DEF Durable
<1>17. Recorded(seg) \cup Recorded(acked) \cup hist.promised
             \subseteq Recorded(seg') \cup Recorded(acked') \cup hist'.promised
  BY <1>1, <1>6
<1>18. Files(acked') /\ cursor' \in Nat
  BY <1>1, Types
<1> QED BY <1>4, <1>7, <1>9, <1>10, <1>11, <1>12, <1>13, <1>16, <1>17, <1>18, Assemble

LEMMA RotateOpenIs ==
    ASSUME Good, RotateOpen
    PROVE  \E n : WidenStep(n)
<1> DEFINE n == Current + 1
<1>1. /\ seg' = With(seg, n, NewSegment) /\ acked' = acked /\ manifest' = manifest /\ cursor' = cursor
      /\ queue' = queue /\ flight' = flight /\ apc' = apc /\ left' = left /\ kept' = kept
      /\ hist' = hist /\ mem' = [mem EXCEPT !.list = @ \cup {n}] /\ wpc = "append" /\ wpc' = "append"
      /\ seg[Current].synced >= SegmentCap
  BY DEF RotateOpen
<1>2. /\ Current \in DOMAIN seg /\ DOMAIN seg \subseteq Nat /\ \A j \in DOMAIN seg : j <= Current
      /\ Size(seg, Current) <= SegmentCap
  BY <1>1, HighestName, Types DEF Good, Phase, Current
<1>3. n \in Nat \ {0} /\ \A j \in DOMAIN seg : j < n
  BY <1>2
<1>4. seg[Current].synced = Size(seg, Current) /\ seg[Current].synced > 0
  <2>1. /\ seg[Current].synced \in Nat /\ Size(seg, Current) \in Nat
        /\ seg[Current].synced <= Size(seg, Current)
    BY <1>2, Types, FileFields DEF Files, File, Size
  <2> QED BY <1>1, <1>2, <2>1, OthersNow
<1> HIDE DEF n
<1>5. /\ mem' \in Memory /\ mem'.status = mem.status
      /\ mem'.anchor = mem.anchor /\ mem'.list = mem.list \cup {n}
  <2>1. mem \in Memory
    BY Types
  <2> QED BY <1>1, <1>3, <2>1 DEF Memory
<1>6. WidenStep(n)
  BY <1>1, <1>3, <1>4, <1>5 DEF WidenStep
<1> QED BY <1>6

LEMMA OpenSegmentIs ==
    ASSUME Good, OpenSegment
    PROVE  \E n : WidenStep(n)
<1> DEFINE m == Max(DOMAIN seg \cup {0})
           n == m + 1
<1>1. /\ seg' = With(seg, n, NewSegment) /\ acked' = acked /\ manifest' = manifest /\ cursor' = cursor
      /\ queue' = queue /\ flight' = flight /\ apc' = apc /\ left' = left /\ kept' = kept
      /\ hist' = hist /\ mem' = [mem EXCEPT !.list = @ \cup {n}] /\ wpc = "open"
      /\ wpc' = IF manifest.clean THEN "opened" ELSE "gap"
  BY DEF OpenSegment
<1>2. m \in Nat /\ DOMAIN seg \subseteq Nat /\ \A j \in DOMAIN seg : j <= m
  <2>1. PICK b \in Nat : Bound(seg, b)
    BY Types DEF Files
  <2>2. DOMAIN seg \cup {0} \subseteq 0 .. b /\ DOMAIN seg \cup {0} # {}
    BY <2>1 DEF Bound
  <2>3. m \in DOMAIN seg \cup {0} /\ \A j \in DOMAIN seg \cup {0} : j <= m
    BY <2>2, Highest
  <2> HIDE DEF m
  <2> QED BY <2>2, <2>3
<1> HIDE DEF m
<1>3. n \in Nat \ {0} /\ \A j \in DOMAIN seg : j < n
  BY <1>2
<1> HIDE DEF n
<1>4. /\ mem' \in Memory /\ mem'.status = mem.status
      /\ mem'.anchor = mem.anchor /\ mem'.list = mem.list \cup {n}
  <2>1. mem \in Memory
    BY Types
  <2> QED BY <1>1, <1>3, <2>1 DEF Memory
<1>5. WidenStep(n)
  BY <1>1, <1>3, <1>4 DEF WidenStep
<1> QED BY <1>5

LEMMA WidensMove ==
    ASSUME Good, RotateOpen \/ OpenSegment
    PROVE  Moves
  BY RotateOpenIs, OpenSegmentIs, WidenMoves

-----------------------------------------------------------------------------
(* Starts.                                                                 *)

LEMMA RepairedIs ==
    ASSUME Good
    PROVE  /\ Files(Repaired) /\ DOMAIN seg \subseteq DOMAIN Repaired
           /\ DOMAIN Repaired \subseteq DOMAIN seg \cup DOMAIN acked
           /\ \A i \in DOMAIN seg : Repaired[i] = seg[i]
           /\ \A i \in DOMAIN Repaired \ DOMAIN seg : Repaired[i] = acked[i]
<1> DEFINE t == Repaired
<1>1. /\ DOMAIN t = DOMAIN seg \cup (DOMAIN acked \cap manifest.names)
      /\ t = [i \in DOMAIN t |-> t[i]]
      /\ \A i \in DOMAIN seg : t[i] = seg[i]
      /\ \A i \in DOMAIN t \ DOMAIN seg : t[i] = acked[i]
  BY DEF Repaired
<1> HIDE DEF t
<1>2. PICK a \in Nat : Bound(seg, a)
  BY Types DEF Files
<1>3. PICK b \in Nat : Bound(acked, b)
  BY Types DEF Files
<1>4. \A i \in DOMAIN t : File(t[i])
  BY <1>1, Types DEF Files
<1> DEFINE n == a + b
<1>5. n \in Nat /\ a <= n /\ b <= n
  OBVIOUS
<1> HIDE DEF n
<1>6. DOMAIN t \subseteq 1 .. n
  BY <1>1, <1>2, <1>3, <1>5 DEF Bound
<1>7. ASSUME NEW i \in DOMAIN t, NEW k \in 1 .. Size(t, i) PROVE t[i].recs[k].seq <= n
  <2>1. t[i].recs[k].seq \in Nat
    BY <1>4, FileFields DEF Size
  <2>2. CASE i \in DOMAIN seg
    <3>1. t[i] = seg[i]
      BY <1>1, <2>2
    <3>2. t[i].recs[k].seq <= a
      BY <1>2, <2>2, <3>1 DEF Bound, Size
    <3> QED BY <1>5, <2>1, <3>2
  <2>3. CASE i \notin DOMAIN seg
    <3>1. t[i] = acked[i] /\ i \in DOMAIN acked
      BY <1>1, <2>3
    <3>2. t[i].recs[k].seq <= b
      BY <1>3, <3>1 DEF Bound, Size
    <3> QED BY <1>5, <2>1, <3>2
  <2> QED BY <2>2, <2>3
<1>8. Files(t)
  BY <1>1, <1>4, <1>5, <1>6, <1>7 DEF Files, Bound
<1> QED BY <1>1, <1>8 DEF t

LEMMA ScannedIs ==
    ASSUME NEW s, Files(s)
    PROVE  /\ Same(s, Scanned(s)) /\ DOMAIN Scanned(s) = DOMAIN s
           /\ \A i \in DOMAIN s : /\ Scanned(s)[i].linked = s[i].linked
                                  /\ \/ Scanned(s)[i].synced = s[i].synced
                                     \/ Scanned(s)[i].synced = Size(s, i)
<1> DEFINE t == Scanned(s)
<1>1. \A i \in DOMAIN s : /\ s[i] \in Segment /\ s[i].synced <= Size(s, i) /\ Size(s, i) \in Nat
  BY FileFields DEF Files, File, Size
<1>2. DOMAIN t = DOMAIN s /\ t = [i \in DOMAIN t |-> t[i]]
  BY DEF Scanned
<1>3. \A i \in DOMAIN s : t[i] = s[i] \/ t[i] = [s[i] EXCEPT !.torn = FALSE, !.synced = Size(s, i)]
  BY DEF Scanned, Size
<1> HIDE DEF t
<1>4. ASSUME NEW i \in DOMAIN s
      PROVE  /\ t[i] \in Segment /\ t[i].recs = s[i].recs /\ t[i].linked = s[i].linked
             /\ t[i].synced = s[i].synced \/ t[i].synced = Size(s, i)
  BY <1>1, <1>3 DEF Segment
<1>5. \A i \in DOMAIN s : t[i].synced <= Size(s, i)
  BY <1>1, <1>4
<1>6. Same(s, t)
  BY <1>2, <1>4, <1>5 DEF Same
<1> QED BY <1>2, <1>4, <1>6 DEF t

LEMMA OpenMoves ==
    ASSUME Good, Open
    PROVE  Moves
<1>1. /\ manifest' = manifest /\ cursor' = cursor /\ queue' = queue /\ flight' = flight
      /\ apc' = apc /\ left' = left /\ kept' = kept /\ hist' = hist /\ mem.status = "down"
  BY DEF Open
<1>2. wpc = "none" /\ hist.accepted = {} /\ apc = Idle /\ flight = <<>>
  BY <1>1 DEF Good, Phase, Serving
<1>3. InFlight'
  <2>1. Len(flight') = 0
    BY <1>1, <1>2
  <2>2. wpc' \notin {"sync", "manifest"}
    BY <1>2 DEF Open
  <2> QED BY <2>1, <2>2 DEF InFlight
<1>4. TerminalKept'
  BY <1>1, <1>2 DEF TerminalKept
<1>5. CASE Readable(Scanned(Repaired))
  <2> DEFINE s == Scanned(Repaired)
  <2>1. /\ seg' = s /\ acked' = << >> /\ wpc' = "open"
        /\ mem' = [status |-> "opening", accepting |-> FALSE, queued |-> 0,
                   anchor |-> manifest.anchor, list |-> DOMAIN s]
    BY <1>5 DEF Open
  <2>2. /\ Same(Repaired, s) /\ DOMAIN s = DOMAIN Repaired
        /\ \A i \in DOMAIN Repaired : /\ s[i].linked = Repaired[i].linked
                                      /\ \/ s[i].synced = Repaired[i].synced
                                         \/ s[i].synced = Size(Repaired, i)
    BY RepairedIs, ScannedIs
  <2>3. Files(s) /\ \A i \in DOMAIN Repaired : Size(s, i) = Size(Repaired, i) /\ s[i].recs = Repaired[i].recs
    BY <2>2, RepairedIs, SameFiles DEF Same
  <2> HIDE DEF s
  <2>4. DOMAIN s \in SUBSET Nat
    BY <2>3, HighestName
  <2>5. mem' \in Memory /\ mem'.status = "opening"
    <3>1. manifest.anchor \in Nat
      BY OthersNow DEF Paper
    <3> QED BY <2>1, <2>4, <3>1 DEF Memory
  <2>6. Others
    BY <1>1, <2>1, <2>5, Types, OthersNow DEF Others, Places, Starting
  <2>7. Files(seg') /\ Files(acked') /\ Recorded(acked') = {} /\ DOMAIN acked' = {} /\ cursor' \in Nat
    BY <1>1, <2>1, <2>3, NoFiles, Types
  <2>8. Typed'
    BY <2>6, <2>7, TypedNext
  <2>9. Phase'
    BY <1>1, <1>2, <2>1, <2>5 DEF Phase, Serving, Starting
  <2>10. Sealed' /\ Below'
    BY <1>1, <1>2, <2>1, <2>7 DEF Sealed, Below, Idle, Serving
  <2>11. Swept => Swept'
    <3> SUFFICES ASSUME Swept, "power" \in Faults, NEW i \in DOMAIN s PROVE s[i].synced = Size(s, i)
      BY <2>1, <2>7 DEF Swept, Tidy
    <3>1. Repaired[i].synced = Size(Repaired, i)
      <4>1. CASE i \in DOMAIN seg
        BY <1>2, <4>1, RepairedIs DEF Swept, Size
      <4>2. CASE i \notin DOMAIN seg
        <5>1. i \in DOMAIN acked /\ Repaired[i] = acked[i]
          BY <2>2, <4>2, RepairedIs
        <5> QED BY <5>1 DEF Swept, Tidy, Size
      <4> QED BY <4>1, <4>2
    <3> QED BY <2>2, <2>3, <3>1
  <2>12. Secured => Secured'
    <3> SUFFICES ASSUME Secured, NEW x \in hist.promised, x.seq >= cursor PROVE Safe(s, x)
      BY <1>1, <2>1 DEF Secured
    <3>1. PICK i \in DOMAIN seg : \E k \in 1 .. Size(seg, i) :
               seg[i].recs[k] = x /\ ("power" \in Faults => seg[i].linked /\ k <= seg[i].synced)
      BY DEF Secured, Safe
    <3>2. PICK k \in 1 .. Size(seg, i) :
               seg[i].recs[k] = x /\ ("power" \in Faults => seg[i].linked /\ k <= seg[i].synced)
      BY <3>1
    <3>3. i \in DOMAIN s /\ Repaired[i] = seg[i] /\ Size(s, i) = Size(seg, i) /\ s[i].recs = seg[i].recs
      BY <2>2, <2>3, RepairedIs DEF Size
    <3>4. Size(seg, i) \in Nat /\ seg[i].synced \in Nat
      BY Types, FileFields DEF Files, Size
    <3>5. s[i].linked = seg[i].linked /\ (s[i].synced = seg[i].synced \/ s[i].synced = Size(seg, i))
      BY <2>2, <3>3 DEF Size
    <3>6. "power" \in Faults => s[i].linked /\ k <= s[i].synced
      BY <3>2, <3>4, <3>5
    <3> QED BY <3>2, <3>3, <3>6 DEF Safe
  <2> QED BY <1>3, <1>4, <2>8, <2>9, <2>10, <2>11, <2>12 DEF Moves, Good, Durable
<1>6. CASE ~Readable(Scanned(Repaired))
  <2>1. seg' = seg /\ acked' = acked /\ wpc' = wpc /\ mem' = [mem EXCEPT !.status = "corrupt"]
    BY <1>6 DEF Open
  <2>2. mem' \in Memory /\ mem'.status = "corrupt"
    <3>1. mem \in Memory
      BY Types
    <3> QED BY <2>1, <3>1 DEF Memory
  <2>3. Others
    BY <1>1, <2>1, <2>2, Types, OthersNow DEF Others
  <2>4. Typed'
    <3>1. Files(seg') /\ Files(acked') /\ cursor' \in Nat
      BY <1>1, <2>1, Types
    <3> QED BY <2>3, <3>1, TypedNext
  <2>5. Phase'
    BY <1>1, <1>2, <2>1, <2>2 DEF Phase, Serving, Starting
  <2>6. Sealed' /\ Below'
    BY <1>1, <1>2, <2>1 DEF Good, Sealed, Below, Serving
  <2>7. Durable => Durable'
    BY <1>1, <2>1 DEF Durable, Swept, Secured, Current
  <2> QED BY <1>3, <1>4, <2>4, <2>5, <2>6, <2>7 DEF Moves, Good
<1> QED BY <1>5, <1>6

-----------------------------------------------------------------------------
(* Ends.                                                                   *)

(* What is left of a file: all of it after a kill, and what was synced     *)
(* after a power loss; and where it may end in a piece of a record.        *)
TornBefore(fault, i) ==
    \/ seg[i].torn \/ (wpc = "append" /\ i = Current)
    \/ fault # "kill" /\ seg[i].synced < Size(seg, i)

Left(fault, i, x) ==
    /\ x \in Segment /\ x.synced <= Len(x.recs) /\ Len(x.recs) <= Size(seg, i)
    /\ \A k \in 1 .. Len(x.recs) : x.recs[k] = seg[i].recs[k]
    /\ fault = "kill" => Len(x.recs) = Size(seg, i)
    /\ fault # "kill" => x.linked /\ x.synced = Len(x.recs) /\ seg[i].synced <= Len(x.recs)
    /\ x.torn => TornBefore(fault, i)

LEMMA RemainsAre ==
    ASSUME Good, NEW fault, NEW i \in DOMAIN seg
    PROVE  Remains(fault, i) # {} /\ \A x \in Remains(fault, i) : Left(fault, i, x)
<1> DEFINE f == seg[i]
           n == Len(seg[i].recs)
<1>1. /\ f \in Segment /\ f.recs \in Seq(Record) /\ f.synced \in Nat /\ f.torn \in BOOLEAN
      /\ n \in Nat /\ f.synced <= n /\ Size(seg, i) = n
  BY Types, FileFields DEF Files, File, Size
<1>2. CASE fault = "kill"
  <2>1. Remains(fault, i) = {[f EXCEPT !.torn = t] : t \in {f.torn, wpc = "append" /\ i = Current}}
    BY <1>2 DEF Remains
  <2> DEFINE w == wpc = "append" /\ i = Current
  <2>2. ASSUME NEW t \in {f.torn, w} PROVE Left(fault, i, [f EXCEPT !.torn = t])
    <3>1. t \in BOOLEAN
      BY <1>1
    <3> DEFINE x == [f EXCEPT !.torn = t]
    <3>2. x \in Segment /\ x.recs = f.recs /\ x.synced = f.synced /\ x.torn = t
      BY <1>1, <3>1 DEF Segment
    <3>3. t => TornBefore(fault, i)
      BY DEF TornBefore
    <3> HIDE DEF x
    <3> QED BY <1>1, <1>2, <3>2, <3>3 DEF Left, x
  <2> QED BY <2>1, <2>2
<1>3. CASE fault # "kill"
  <2> DEFINE T == {FALSE, f.torn \/ f.synced < n \/ (wpc = "append" /\ i = Current)}
             X(k, t) == [recs |-> SubSeq(f.recs, 1, k), synced |-> k, linked |-> TRUE, torn |-> t]
  <2>1. Remains(fault, i) = {X(k, t) : k \in f.synced .. n, t \in T}
    BY <1>3 DEF Remains
  <2>2. T \subseteq BOOLEAN /\ FALSE \in T
    BY <1>1
  <2>3. ASSUME NEW k \in f.synced .. n, NEW t \in T PROVE Left(fault, i, X(k, t))
    <3>1. k \in Nat /\ k <= n /\ f.synced <= k /\ t \in BOOLEAN
      <4>1. f.synced \in Nat /\ n \in Nat
        BY <1>1
      <4>2. t \in BOOLEAN
        BY <2>2
      <4> HIDE DEF f, n, T, X
      <4> QED BY <4>1, <4>2
    <3> DEFINE q == SubSeq(f.recs, 1, k)
    <3>2. \A j \in 1 .. k : f.recs[j] \in Record
      BY <1>1, <3>1, ElementOfSeq
    <3>3. q \in Seq(Record) /\ Len(q) = k /\ \A j \in 1 .. k : q[j] = f.recs[j]
      BY <1>1, <3>1, <3>2, SubSeqProperties
    <3>4. X(k, t).recs = q /\ X(k, t).synced = k /\ X(k, t).linked = TRUE /\ X(k, t).torn = t
      OBVIOUS
    <3>5. X(k, t) \in Segment
      <4> HIDE DEF q
      <4>1. X(k, t) = [recs |-> q, synced |-> k, linked |-> TRUE, torn |-> t]
        BY DEF q
      <4> HIDE DEF X
      <4> QED BY <3>1, <3>3, <4>1 DEF Segment
    <3>6. t => TornBefore(fault, i)
      BY <1>3 DEF TornBefore, Size
    <3> HIDE DEF X, q
    <3> QED BY <1>1, <1>3, <3>1, <3>3, <3>4, <3>5, <3>6 DEF Left
  <2>4. n \in f.synced .. n
    BY <1>1
  <2>5. \A x : x \in Remains(fault, i) <=> \E k \in f.synced .. n, t \in T : x = X(k, t)
    <3> HIDE DEF T, n, f
    <3> QED BY <2>1
  <2>6. X(n, FALSE) \in Remains(fault, i)
    <3> HIDE DEF T, n, f, X
    <3> QED BY <2>2, <2>4, <2>5
  <2>7. \A x \in Remains(fault, i) : \E k \in f.synced .. n, t \in T : x = X(k, t)
    <3> HIDE DEF T, n, f, X
    <3> QED BY <2>5
  <2> HIDE DEF X, T, n, f
  <2> QED BY <2>3, <2>6, <2>7
<1> QED BY <1>2, <1>3

LEMMA OutcomesAre ==
    ASSUME Good, NEW fault, NEW f \in Outcomes(fault)
    PROVE  \A i \in DOMAIN seg : Left(fault, i, f[i])
<1> DEFINE Loose == {i \in DOMAIN seg : Cardinality(Remains(fault, i)) > 1}
           Ends  == {g \in [Loose -> UNION {Remains(fault, i) : i \in Loose}] :
                       \A i \in Loose : g[i] \in Remains(fault, i)}
<1>1. PICK g \in Ends : f = [i \in DOMAIN seg |-> IF i \in Loose THEN g[i]
                                                  ELSE CHOOSE s \in Remains(fault, i) : TRUE]
  BY DEF Outcomes
<1>2. \A i \in Loose : g[i] \in Remains(fault, i)
  BY <1>1
<1> HIDE DEF Loose, Ends
<1> SUFFICES ASSUME NEW i \in DOMAIN seg PROVE f[i] \in Remains(fault, i)
  BY RemainsAre
<1>3. (CHOOSE s \in Remains(fault, i) : TRUE) \in Remains(fault, i)
  BY RemainsAre
<1> QED BY <1>1, <1>2, <1>3

LEMMA CrashMoves ==
    ASSUME Good, NEW fault \in Faults, Crash(fault)
    PROVE  Moves
<1>1. /\ mem' = [mem EXCEPT !.status = "down", !.accepting = FALSE]
      /\ queue' = <<>> /\ flight' = <<>> /\ wpc' = "none" /\ apc' = Idle
      /\ left' = [r \in Request |-> 0]
      /\ acked' = acked /\ manifest' = manifest /\ cursor' = cursor
  BY DEF Crash
<1>2. PICK gone \in SUBSET Gone(fault) : \E f \in Outcomes(fault) :
           seg' = [i \in DOMAIN seg \ gone |-> f[i]]
  BY DEF Crash
<1>3. PICK f \in Outcomes(fault) : seg' = [i \in DOMAIN seg \ gone |-> f[i]]
  BY <1>2
<1>4. \A i \in DOMAIN seg : Left(fault, i, f[i])
  BY OutcomesAre
<1>5. /\ DOMAIN seg' = DOMAIN seg \ gone /\ seg' = [i \in DOMAIN seg' |-> seg'[i]]
      /\ \A i \in DOMAIN seg' : i \in DOMAIN seg /\ Left(fault, i, seg'[i])
  BY <1>3, <1>4
<1>6. Less(seg, seg')
  BY <1>5 DEF Less, Left, Size
<1>7. Files(seg')
  BY <1>6, LessFiles, Types
<1>8. mem' \in Memory /\ mem'.status = "down"
  <2>1. mem \in Memory
    BY Types
  <2> QED BY <1>1, <2>1 DEF Memory
<1>9. hist' \in Events /\ hist'.promised = hist.promised /\ hist'.accepted = {}
  <2>0. hist \in Events
    BY Types
  <2> DEFINE a == ~(hist.accepted \subseteq EventsIn(seg') \cup EventsPromised)
             b == manifest.clean /\ DOMAIN seg' # manifest.names
  <2>1. hist' = [hist EXCEPT !.accepted = {}, !.lost = @ \/ a, !.cut = @ \/ b]
    BY DEF Crash
  <2> HIDE DEF a, b
  <2> QED BY <2>0, <2>1 DEF Events
<1>10. Others
  <2>1. apc' \in Pointer /\ queue' \in Seq(Command) /\ flight' \in Seq(Event)
    BY <1>1 DEF Idle, Pointer
  <2>2. left' \in Slots
    <3>1. \A r \in Request : Budget[r] \in Nat
      BY SpoolAssumption
    <3> QED BY <1>1, <3>1 DEF Slots
  <2> QED BY <1>1, <1>8, <1>9, <2>1, <2>2, OthersNow DEF Others, Places
<1>11. Typed'
  <2>1. Files(acked') /\ cursor' \in Nat
    BY <1>1, Types
  <2> QED BY <1>7, <1>10, <2>1, TypedNext
<1>12. Phase'
  BY <1>1, <1>8, <1>9 DEF Phase, Serving, Starting
<1>13. InFlight'
  <2>1. Len(flight') = 0
    BY <1>1
  <2> QED BY <1>1, <2>1 DEF InFlight
<1>14. Sealed' /\ Below'
  BY <1>1, <1>9 DEF Good, Sealed, Below, Idle, Serving
<1>15. TerminalKept'
  BY <1>9 DEF TerminalKept
<1>16. ASSUME OneKindOfFault, Durable PROVE Durable'
  <2>1. fault = "kill" => "power" \notin Faults
    BY <1>16 DEF OneKindOfFault
  <2>2. Swept'
    <3> SUFFICES ASSUME "power" \in Faults, NEW i \in DOMAIN seg'
                 PROVE  seg'[i].synced = Size(seg', i)
      BY <1>1, <1>16 DEF Swept, Durable
    <3> QED BY <1>5, <2>1 DEF Left, Size
  <2>3. Secured'
    <3> SUFFICES ASSUME NEW x \in hist.promised, x.seq >= cursor PROVE Safe(seg', x)
      BY <1>1, <1>9 DEF Secured
    <3>1. PICK i \in DOMAIN seg : \E k \in 1 .. Size(seg, i) :
               seg[i].recs[k] = x /\ ("power" \in Faults => seg[i].linked /\ k <= seg[i].synced)
      BY <1>16 DEF Durable, Secured, Safe
    <3>2. PICK k \in 1 .. Size(seg, i) :
               seg[i].recs[k] = x /\ ("power" \in Faults => seg[i].linked /\ k <= seg[i].synced)
      BY <3>1
    <3>3. i \in DOMAIN seg'
      <4>1. CASE fault = "power"
        BY <1>5, <3>2, <4>1 DEF Gone
      <4>2. CASE fault # "power"
        BY <1>5, <4>2 DEF Gone
      <4> QED BY <4>1, <4>2
    <3>4. Left(fault, i, seg'[i]) /\ File(seg'[i])
      BY <1>5, <1>7, <3>3 DEF Files
    <3>5. /\ Size(seg', i) \in Nat /\ Size(seg, i) \in Nat /\ seg[i].synced \in Nat
          /\ seg'[i].synced \in Nat
      BY <3>4, FileFields, Types DEF Files, Size
    <3>6. CASE fault = "kill"
      <4>1. k \in 1 .. Size(seg', i) /\ seg'[i].recs[k] = x
        BY <3>2, <3>4, <3>6 DEF Left, Size
      <4> QED BY <2>1, <3>3, <3>6, <4>1 DEF Safe
    <3>7. CASE fault # "kill"
      <4>0. "power" \in Faults
        BY <3>7, SpoolAssumption
      <4>1. /\ seg'[i].linked /\ seg'[i].synced = Size(seg', i) /\ seg[i].synced <= Size(seg', i)
            /\ \A j \in 1 .. Size(seg', i) : seg'[i].recs[j] = seg[i].recs[j]
        BY <3>4, <3>7 DEF Left, Size
      <4>2. k \in 1 .. Size(seg', i) /\ k <= seg'[i].synced
        BY <3>2, <3>5, <4>0, <4>1
      <4> QED BY <3>2, <3>3, <4>1, <4>2 DEF Safe
    <3> QED BY <3>6, <3>7
  <2> QED BY <2>2, <2>3 DEF Durable
<1> QED BY <1>11, <1>12, <1>13, <1>14, <1>15, <1>16 DEF Moves, Good

-----------------------------------------------------------------------------
(* The theorems.                                                           *)

LEMMA InitGood ==
    ASSUME Init
    PROVE  Good /\ Durable
<1>1. /\ seg = << >> /\ acked = << >> /\ cursor = 0
      /\ manifest = [clean |-> TRUE, anchor |-> 0, names |-> {}]
      /\ mem = [status |-> "opening", accepting |-> FALSE, queued |-> 0, anchor |-> 0, list |-> {}]
      /\ queue = <<>> /\ flight = <<>> /\ wpc = "open" /\ apc = Idle
      /\ left = [r \in Request |-> 0]
      /\ hist = [used |-> {}, accepted |-> {}, promised |-> {}, lost |-> FALSE, cut |-> FALSE]
  BY DEF Init
<1>2. /\ DOMAIN seg = {} /\ DOMAIN acked = {} /\ Files(seg) /\ Files(acked)
      /\ Recorded(acked) = {}
  BY <1>1, NoFiles
<1>3. Len(flight) = 0
  BY <1>1
<1>4. Typed
  <2>1. left \in [Request -> Nat] /\ \A r \in Request : left[r] <= Budget[r]
    <3>1. \A r \in Request : Budget[r] \in Nat
      BY SpoolAssumption
    <3> QED BY <1>1, <3>1
  <2>2. mem \in Memory /\ hist \in Events
    BY <1>1 DEF Memory, Events
  <2>3. queue \in Seq(Command) /\ flight \in Seq(Event) /\ apc \in [at : Acking \cup {"idle"}, to : Nat]
    BY <1>1 DEF Idle
  <2> QED BY <1>1, <1>2, <2>1, <2>2, <2>3 DEF Typed, Starting
<1>5. Phase
  BY <1>1 DEF Phase, Serving, Starting
<1>6. InFlight /\ Sealed /\ Below
  BY <1>1, <1>2, <1>3 DEF InFlight, Sealed, Below, Serving, Idle
<1>7. TerminalKept
  BY <1>1 DEF TerminalKept
<1>8. Durable
  BY <1>1, <1>2 DEF Durable, Swept, Secured, Tidy
<1> QED BY <1>4, <1>5, <1>6, <1>7, <1>8 DEF Good

LEMMA StayMoves ==
    ASSUME Good, UNCHANGED vars
    PROVE  Moves
<1>1. /\ seg' = seg /\ acked' = acked /\ manifest' = manifest /\ cursor' = cursor /\ mem' = mem
      /\ queue' = queue /\ flight' = flight /\ wpc' = wpc /\ apc' = apc /\ left' = left
      /\ kept' = kept /\ hist' = hist
  BY DEF vars
<1>2. Typed' /\ Phase'
  BY <1>1 DEF Good, Typed, Phase, Current
<1>3. InFlight' /\ Sealed' /\ Below'
  BY <1>1 DEF Good, InFlight, Sealed, Below, Current, EventsPromised
<1>4. TerminalKept'
  BY <1>1 DEF Good, TerminalKept, Queued, EventsPromised
<1>5. Durable => Durable'
  BY <1>1 DEF Durable, Swept, Secured, Current
<1> QED BY <1>2, <1>3, <1>4, <1>5 DEF Moves, Good

LEMMA NextMoves ==
    ASSUME Good, [Next]_vars
    PROVE  Moves
<1>1. CASE \E r \in Request : Reserve(r) \/ Emit(r) \/ EmitTerminal(r) \/ PreserveTerminal(r)
  BY <1>1, RequestMoves, PreserveMoves
<1>2. CASE Writer
  BY <1>2, TakeMoves, WriterQuietMoves, AppendsMove, RotateSyncMoves, WidensMove, EndMoves,
     SyncMoves, ManifestMoves, StopMoves DEF Writer
<1>3. CASE WriterFails
  BY <1>3, WriterFailsMoves
<1>4. CASE (\E c \in 1 .. LastSeq : AckStart(c)) \/ AckFails \/ Close
  BY <1>4, ConsumerQuietMoves
<1>5. CASE Acknowledge
  BY <1>5, ConsumerQuietMoves, CursorMoves, RenameMoves, AckManifestMoves, UnlinkMoves DEF Acknowledge
<1>6. CASE \E fault \in Faults : Crash(fault)
  BY <1>6, CrashMoves
<1>7. CASE Start
  BY <1>7, OpenMoves, WidensMove, AppendsMove, SyncMoves, OpenManifestMoves DEF Start
<1>8. CASE UNCHANGED vars
  BY <1>8, StayMoves
<1> QED BY <1>1, <1>2, <1>3, <1>4, <1>5, <1>6, <1>7, <1>8 DEF Next

(* A terminal event is never forgotten while its process lives, through    *)
(* every interleaving of the requests, the writer, its failure and its     *)
(* drain, the consumer and the end of the process (_writer_loop, _submit,  *)
(* _release_control_waiters).                                              *)
THEOREM SpoolTerminalKept == Spec => []TerminalKept
<1>1. Init => Good
  BY InitGood
<1>2. Good /\ [Next]_vars => Good'
  BY NextMoves DEF Moves
<1>3. Good => TerminalKept
  BY DEF Good
<1> QED BY <1>1, <1>2, <1>3, PTL DEF Spec

(* A record that was synced and listed is on disk, or comes back there at  *)
(* the next start, until a cursor above it is written, however often the   *)
(* processes are killed, or else the power fails, at whatever step of a    *)
(* rotation, an acknowledgement or a start (ack, _repair_ack_deletions,    *)
(* _sync, _initialize).                                                    *)
THEOREM SpoolNothingLost ==
    ASSUME OneKindOfFault
    PROVE  Spec => []NothingLost
<1>1. Init => Good /\ Durable
  BY InitGood
<1>2. Good /\ Durable /\ [Next]_vars => (Good /\ Durable)'
  BY NextMoves DEF Moves
<1>3. Good /\ Durable => NothingLost
  <2> SUFFICES ASSUME Good, Secured, NEW r \in hist.promised, r.seq >= cursor
               PROVE  r \in Recorded(Repaired)
    BY DEF NothingLost, Durable
  <2>1. PICK i \in DOMAIN seg : \E k \in 1 .. Size(seg, i) : seg[i].recs[k] = r
    BY DEF Secured, Safe
  <2>2. /\ Files(Repaired) /\ i \in DOMAIN Repaired /\ Repaired[i] = seg[i]
        /\ Size(Repaired, i) = Size(seg, i)
    BY RepairedIs DEF Size
  <2> QED BY <2>1, <2>2, RecordedIs
<1> QED BY <1>1, <1>2, <1>3, PTL DEF Spec

-----------------------------------------------------------------------------
(* Why a start can read what the last process left.                        *)

Seqs(s) == {r.seq : r \in Recorded(s)}

(* In the order of the names and of the places the sequence numbers grow.  *)
Ordered(s) ==
    \A i, j \in DOMAIN s : \A k \in 1 .. Size(s, i), l \in 1 .. Size(s, j) :
        i < j \/ (i = j /\ k < l) => s[i].recs[k].seq < s[j].recs[l].seq

(* They are the numbers after a, without a hole.                           *)
Chained(s, a) == Ordered(s) /\ \E t \in Nat : a <= t /\ Seqs(s) = (a + 1) .. t

Linear == mem.anchor = manifest.anchor /\ Chained(Repaired, manifest.anchor)

Syncing == {"idle", "batch", "append", "sync"}

(* Which files the manifest and the process name.                          *)
Named ==
    /\ DOMAIN seg \cap DOMAIN acked = {}
    /\ manifest.names \subseteq DOMAIN seg \cup DOMAIN acked
    /\ wpc # "none" => DOMAIN seg \subseteq mem.list /\ mem.list \subseteq DOMAIN seg \cup DOMAIN acked
    /\ wpc \in Starting => DOMAIN acked = {}
    /\ wpc \in Serving =>
         /\ DOMAIN seg \ {Current} \subseteq manifest.names
         /\ \A i \in DOMAIN acked : i < Current
         /\ \/ DOMAIN acked \subseteq mem.list \cap manifest.names
            \/ DOMAIN acked \cap (mem.list \cup manifest.names) = {}
    /\ wpc \in Syncing /\ seg[Current].synced > 0 => Current \in manifest.names

(* Where the acknowledgement has come to.                                  *)
Acknowledged ==
    /\ apc.at \in {"rename", "manifest"} => DOMAIN acked \subseteq mem.list \cap manifest.names
    /\ apc.at = "unlink" => DOMAIN acked \cap (mem.list \cup manifest.names) = {}
    /\ apc.at \in {"put", "wait", "lock", "cursor"} => DOMAIN acked = {}
    /\ apc.at = "idle" /\ mem.status = "healthy" => DOMAIN acked = {}
    /\ apc.at = "manifest" =>
         \A i \in DOMAIN acked, j \in DOMAIN seg :
             \A k \in 1 .. Size(acked, i), l \in 1 .. Size(seg, j) :
                 acked[i].recs[k].seq < seg[j].recs[l].seq

(* The cursor is that of a record that was promised.                       *)
Pointed ==
    /\ (cursor = 0 /\ manifest.anchor = 0) \/ \E r \in hist.promised : r.seq = cursor
    /\ apc.at \in {"put", "wait"} => apc.to \in Seqs(seg)
    /\ apc.at \in {"lock", "cursor"} => \E r \in hist.promised : r.seq = apc.to

(* Where power fails, only the open segment may vanish.                    *)
Attached ==
    "power" \in Faults =>
        /\ \A i \in DOMAIN seg : seg[i].linked \/ (i = Current /\ wpc \notin {"none", "open"})
        /\ \A i \in DOMAIN seg \cap manifest.names : seg[i].linked
        /\ \A i \in DOMAIN acked : acked[i].linked

(* Only the last segment is cut, and only if the spool is not clean.       *)
Whole ==
    /\ \A i \in DOMAIN acked : ~acked[i].torn
    /\ \A i \in DOMAIN seg : seg[i].torn =>
         /\ i = Current /\ \A j \in DOMAIN acked : j < i
         /\ wpc \in {"failing", "drain", "dead"} \/ (wpc = "none" /\ ~manifest.clean)

(* What a clean manifest says, and where a loss is known.                  *)
Honest ==
    /\ wpc \in Serving => ~hist.lost /\ ~manifest.clean
    /\ manifest.clean => ~hist.lost
    /\ wpc \in {"gap", "gapsync"} => ~manifest.clean
    /\ wpc \in {"gapsync", "opened"} /\ ~manifest.clean => seg[Current].recs # <<>>
    /\ manifest.clean /\ ~hist.cut /\ wpc = "none" =>
         DOMAIN seg \cup (DOMAIN acked \cap manifest.names) = manifest.names
    /\ mem.status = "corrupt" => hist.cut

Legible == Linear /\ Named /\ Acknowledged /\ Pointed /\ Attached /\ Whole /\ Honest
-----------------------------------------------------------------------------
(* What a start reads.                                                     *)

Upto(s, f, i) ==
    IF i = 0 THEN <<>> ELSE f[i - 1] \o (IF i \in DOMAIN s THEN s[i].recs ELSE <<>>)

Reads(s, f, n) == f = [i \in 0 .. n |-> Upto(s, f, i)]

(* The recursion of Records defines a function.                            *)
LEMMA ReadsIs ==
    ASSUME NEW s, NEW n \in Nat
    PROVE  \E f : Reads(s, f, n)
<1> DEFINE Bad == {m \in Nat : ~ \E f : Reads(s, f, m)}
<1>1. CASE Bad = {}
  BY <1>1
<1>2. CASE Bad # {}
  <2>1. PICK m \in Bad : \A k \in Bad : m <= k
    BY <1>2, Least
  <2>2. m \in Nat /\ ~ \E f : Reads(s, f, m)
    BY <2>1
  <2>3. CASE m = 0
    <3> DEFINE g == [i \in 0 .. 0 |-> <<>>]
    <3>1. g = [i \in 0 .. 0 |-> Upto(s, g, i)]
      <4>1. \A i \in 0 .. 0 : Upto(s, g, i) = <<>>
        BY DEF Upto
      <4> QED BY <4>1
    <3> QED BY <2>2, <2>3, <3>1 DEF Reads
  <2>4. CASE m # 0
    <3>1. m - 1 \in Nat /\ ~(m <= m - 1)
      BY <2>2, <2>4
    <3>2. PICK f : Reads(s, f, m - 1)
      BY <2>1, <3>1
    <3> DEFINE g == [i \in 0 .. m |-> IF i = m THEN Upto(s, f, m) ELSE f[i]]
    <3>3. ASSUME NEW i \in 0 .. m PROVE g[i] = Upto(s, g, i)
      <4>1. i # 0 => i - 1 \in 0 .. m /\ i - 1 # m /\ g[i - 1] = f[i - 1]
        BY <2>2
      <4>2. Upto(s, g, i) = Upto(s, f, i)
        BY <4>1 DEF Upto
      <4>3. i # m => i \in 0 .. (m - 1)
        BY <2>2
      <4>4. i # m => f[i] = Upto(s, f, i)
        BY <3>2, <4>3 DEF Reads
      <4> QED BY <4>2, <4>4
    <3>4. Reads(s, g, m)
      BY <3>3 DEF Reads
    <3> QED BY <2>2, <3>4
  <2> QED BY <2>3, <2>4
<1> QED BY <1>1, <1>2

(* The records of the files up to n are rs, and their numbers grow.        *)
Holds(s, rs, n) ==
    /\ rs \in Seq(Record)
    /\ \A k \in 1 .. Len(rs) : \E i \in DOMAIN s : \E l \in 1 .. Size(s, i) :
         i <= n /\ rs[k] = s[i].recs[l]
    /\ \A i \in DOMAIN s : \A l \in 1 .. Size(s, i) :
         i <= n => \E k \in 1 .. Len(rs) : rs[k] = s[i].recs[l]
    /\ \A j, k \in 1 .. Len(rs) : j < k => rs[j].seq < rs[k].seq

LEMMA HoldsMore ==
    ASSUME NEW s, Files(s), Ordered(s), NEW n \in Nat \ {0}, NEW rs, Holds(s, rs, n - 1)
    PROVE  Holds(s, rs \o (IF n \in DOMAIN s THEN s[n].recs ELSE <<>>), n)
<1>0. DOMAIN s \subseteq Nat \ {0}
  BY HighestName
<1>1. CASE n \notin DOMAIN s
  <2>1. \A i \in DOMAIN s : i <= n <=> i <= n - 1
    BY <1>0, <1>1
  <2>2. rs \o <<>> = rs
    BY DEF Holds
  <2>3. Holds(s, rs, n)
    BY <2>1 DEF Holds
  <2> QED BY <1>1, <2>2, <2>3
<1>2. CASE n \in DOMAIN s
  <2> DEFINE q == s[n].recs
             a == Len(rs)
             b == Len(q)
             p == rs \o q
  <2>1. /\ q \in Seq(Record) /\ rs \in Seq(Record) /\ a \in Nat /\ b \in Nat /\ b = Size(s, n)
        /\ \A k \in 1 .. b : q[k] \in Record
        /\ \A k \in 1 .. a : rs[k] \in Record
    BY <1>2, FileFields, LenProperties, ElementOfSeq DEF Files, Holds, Size
  <2>2. /\ p \in Seq(Record) /\ Len(p) = a + b
        /\ \A k \in 1 .. a : p[k] = rs[k]
        /\ \A k \in 1 .. b : p[a + k] = q[k]
    <3>1. /\ p \in Seq(Record) /\ Len(p) = a + b
          /\ \A k \in 1 .. Len(p) : p[k] = IF k <= a THEN rs[k] ELSE q[k - a]
      <4> HIDE DEF q
      <4> QED BY <2>1, ConcatProperties
    <3> HIDE DEF p, q
    <3>2. \A k \in 1 .. a : k \in 1 .. Len(p) /\ k <= a
      BY <2>1, <3>1
    <3>3. \A k \in 1 .. b : a + k \in 1 .. Len(p) /\ ~(a + k <= a) /\ (a + k) - a = k
      BY <2>1, <3>1
    <3> QED BY <3>1, <3>2, <3>3
  <2> HIDE DEF p
  <2>3. ASSUME NEW k \in 1 .. a + b
        PROVE  k \in 1 .. a \/ (k - a \in 1 .. b /\ k = a + (k - a))
    BY <2>1
  <2>4. ASSUME NEW k \in 1 .. a + b
        PROVE  \E i \in DOMAIN s : \E l \in 1 .. Size(s, i) : i <= n /\ p[k] = s[i].recs[l]
    <3>1. CASE k \in 1 .. a
      <4>1. PICK i \in DOMAIN s : \E l \in 1 .. Size(s, i) : i <= n - 1 /\ rs[k] = s[i].recs[l]
        BY <3>1 DEF Holds
      <4>2. i <= n
        BY <1>0, <4>1
      <4> QED BY <2>2, <3>1, <4>1, <4>2
    <3>2. CASE k - a \in 1 .. b /\ k = a + (k - a)
      <4>1. p[k] = q[k - a] /\ n <= n
        BY <2>2, <3>2
      <4> QED BY <1>2, <2>1, <3>2, <4>1
    <3> QED BY <2>3, <3>1, <3>2
  <2>5. ASSUME NEW i \in DOMAIN s, NEW l \in 1 .. Size(s, i), i <= n
        PROVE  \E k \in 1 .. a + b : p[k] = s[i].recs[l]
    <3>1. CASE i = n
      <4>1. l \in 1 .. b /\ a + l \in 1 .. a + b
        BY <2>1, <2>5, <3>1
      <4> QED BY <2>2, <3>1, <4>1
    <3>2. CASE i # n
      <4>1. i <= n - 1
        BY <1>0, <2>5, <3>2
      <4>2. PICK k \in 1 .. a : rs[k] = s[i].recs[l]
        BY <4>1 DEF Holds
      <4>3. k \in 1 .. a + b
        BY <2>1
      <4> QED BY <2>2, <4>2, <4>3
    <3> QED BY <3>1, <3>2
  <2>6. ASSUME NEW j \in 1 .. a + b, NEW k \in 1 .. a + b, j < k
        PROVE  p[j].seq < p[k].seq
    <3>1. CASE k \in 1 .. a
      <4>1. j \in 1 .. a
        BY <2>1, <2>6, <3>1
      <4> QED BY <2>2, <2>6, <3>1, <4>1 DEF Holds
    <3>2. CASE k - a \in 1 .. b /\ k = a + (k - a)
      <4>0. p[k] = q[k - a]
        BY <2>2, <3>2
      <4>1. CASE j \in 1 .. a
        <5>1. PICK i \in DOMAIN s : \E l \in 1 .. Size(s, i) : i <= n - 1 /\ rs[j] = s[i].recs[l]
          BY <4>1 DEF Holds
        <5>2. i < n
          BY <1>0, <5>1
        <5>3. p[j] = rs[j]
          BY <2>2, <4>1
        <5> QED BY <1>2, <2>1, <3>2, <4>0, <5>1, <5>2, <5>3 DEF Ordered
      <4>2. CASE j - a \in 1 .. b /\ j = a + (j - a)
        <5>1. p[j] = q[j - a] /\ j - a < k - a
          BY <2>1, <2>2, <2>6, <3>2, <4>2
        <5> QED BY <1>2, <2>1, <3>2, <4>0, <4>2, <5>1 DEF Ordered
      <4> QED BY <2>3, <4>1, <4>2
    <3> QED BY <2>3, <3>1, <3>2
  <2>7. Holds(s, p, n)
    BY <2>2, <2>4, <2>5, <2>6 DEF Holds
  <2> QED BY <1>2, <2>7 DEF p
<1> QED BY <1>1, <1>2

LEMMA ReadsHold ==
    ASSUME NEW s, Files(s), Ordered(s), NEW n \in Nat, NEW f, Reads(s, f, n)
    PROVE  Holds(s, f[n], n)
<1> DEFINE Bad == {m \in 0 .. n : ~ Holds(s, f[m], m)}
<1>1. CASE Bad = {}
  <2>1. n \in 0 .. n
    OBVIOUS
  <2> QED BY <1>1, <2>1
<1>2. CASE Bad # {}
  <2>1. Bad \in SUBSET Nat
    OBVIOUS
  <2>2. PICK m \in Bad : \A k \in Bad : m <= k
    BY <1>2, <2>1, Least
  <2>3. m \in 0 .. n /\ m \in Nat /\ ~ Holds(s, f[m], m)
    BY <2>2
  <2>4. f[m] = Upto(s, f, m)
    BY <2>3 DEF Reads
  <2>5. CASE m = 0
    <3>1. f[m] = <<>> /\ Len(<<>>) = 0 /\ <<>> \in Seq(Record)
      BY <2>4, <2>5 DEF Upto
    <3>2. \A i \in DOMAIN s : ~(i <= 0)
      BY HighestName
    <3>3. Holds(s, f[m], 0)
      BY <3>1, <3>2 DEF Holds
    <3> QED BY <2>3, <2>5, <3>3
  <2>6. CASE m # 0
    <3>1. m - 1 \in 0 .. n /\ ~(m <= m - 1) /\ m \in Nat \ {0}
      BY <2>3, <2>6
    <3>2. Holds(s, f[m - 1], m - 1)
      BY <2>2, <3>1
    <3>3. Holds(s, f[m - 1] \o (IF m \in DOMAIN s THEN s[m].recs ELSE <<>>), m)
      BY <3>1, <3>2, HoldsMore
    <3>4. f[m] = f[m - 1] \o (IF m \in DOMAIN s THEN s[m].recs ELSE <<>>)
      BY <2>4, <2>6 DEF Upto
    <3> QED BY <2>3, <3>3, <3>4
  <2> QED BY <2>5, <2>6
<1> QED BY <1>1, <1>2

(* The records of the segments, in order.                                  *)
LEMMA RecordsAre ==
    ASSUME NEW s, Files(s), Ordered(s)
    PROVE  /\ Records(s) \in Seq(Record)
           /\ \A r : r \in Recorded(s) <=> \E k \in 1 .. Len(Records(s)) : Records(s)[k] = r
           /\ \A j, k \in 1 .. Len(Records(s)) : j < k => Records(s)[j].seq < Records(s)[k].seq
<1> DEFINE n == Max(DOMAIN s \cup {0})
           f == CHOOSE f : Reads(s, f, n)
<1>1. n \in Nat /\ \A i \in DOMAIN s : i <= n
  <2>1. PICK b \in Nat : Bound(s, b)
    BY DEF Files
  <2>2. DOMAIN s \cup {0} \subseteq 0 .. b /\ DOMAIN s \cup {0} # {}
    BY <2>1 DEF Bound
  <2>3. n \in DOMAIN s \cup {0} /\ \A i \in DOMAIN s \cup {0} : i <= n
    BY <2>2, Highest
  <2> QED BY <2>2, <2>3
<1>2. Reads(s, f, n)
  <2> HIDE DEF n
  <2>1. \E g : Reads(s, g, n)
    BY <1>1, ReadsIs
  <2> QED BY <2>1
<1>3. Records(s) = f[n]
  BY DEF Records, Reads, Upto
<1> HIDE DEF f, n
<1>4. Holds(s, Records(s), n)
  BY <1>1, <1>2, <1>3, ReadsHold
<1>5. \A r : r \in Recorded(s) <=> \E i \in DOMAIN s : \E k \in 1 .. Size(s, i) : s[i].recs[k] = r
  BY RecordedIs
<1>6. ASSUME NEW r PROVE r \in Recorded(s) <=> \E k \in 1 .. Len(Records(s)) : Records(s)[k] = r
  <2>1. ASSUME NEW k \in 1 .. Len(Records(s)) PROVE Records(s)[k] \in Recorded(s)
    <3>1. PICK i \in DOMAIN s : \E l \in 1 .. Size(s, i) : Records(s)[k] = s[i].recs[l]
      BY <1>4 DEF Holds
    <3> QED BY <1>5, <3>1
  <2>2. ASSUME r \in Recorded(s) PROVE \E k \in 1 .. Len(Records(s)) : Records(s)[k] = r
    <3>1. PICK i \in DOMAIN s : \E l \in 1 .. Size(s, i) : r = s[i].recs[l]
      BY <1>5, <2>2
    <3>2. PICK l \in 1 .. Size(s, i) : r = s[i].recs[l]
      BY <3>1
    <3> QED BY <1>1, <1>4, <3>2 DEF Holds
  <2> QED BY <2>1, <2>2
<1> QED BY <1>4, <1>6 DEF Holds

(* A chain is read as the numbers after its anchor.                        *)
LEMMA ChainRead ==
    ASSUME NEW s, Files(s), NEW a \in Nat, Chained(s, a)
    PROVE  \A k \in DOMAIN Records(s) : Records(s)[k].seq = a + k
<1> DEFINE rs == Records(s)
           n == Len(rs)
           Bad == {k \in 1 .. n : rs[k].seq # a + k}
<1>1. /\ rs \in Seq(Record)
      /\ \A r : r \in Recorded(s) <=> \E k \in 1 .. n : rs[k] = r
      /\ \A j, k \in 1 .. n : j < k => rs[j].seq < rs[k].seq
  BY RecordsAre DEF Chained
<1> HIDE DEF rs
<1>2. n \in Nat /\ DOMAIN rs = 1 .. n /\ \A k \in 1 .. n : rs[k].seq \in Nat
  <2>1. \A k \in 1 .. n : rs[k] \in Record
    BY <1>1, ElementOfSeq
  <2> QED BY <1>1, <2>1, LenProperties DEF Record
<1>3. PICK t \in Nat : a <= t /\ Seqs(s) = (a + 1) .. t
  BY DEF Chained
<1>4. \A k \in 1 .. n : rs[k].seq \in (a + 1) .. t
  BY <1>1, <1>3 DEF Seqs
<1>5. \A x \in (a + 1) .. t : \E k \in 1 .. n : rs[k].seq = x
  BY <1>1, <1>3 DEF Seqs
<1>6. CASE Bad # {}
  <2>1. Bad \in SUBSET Nat
    BY <1>2
  <2>2. PICK k \in Bad : \A m \in Bad : k <= m
    BY <1>6, <2>1, Least
  <2>3. k \in 1 .. n /\ rs[k].seq # a + k /\ \A m \in 1 .. n : m < k => rs[m].seq = a + m
    BY <1>2, <2>2
  <2>4. rs[k].seq > a + k
    <3>1. CASE k = 1
      BY <1>2, <1>4, <2>3, <3>1
    <3>2. CASE k # 1
      <4>1. k - 1 \in 1 .. n /\ k - 1 < k
        BY <1>2, <2>3, <3>2
      <4>2. rs[k - 1].seq = a + (k - 1) /\ rs[k - 1].seq < rs[k].seq
        BY <1>1, <2>3, <4>1
      <4> QED BY <1>2, <2>3, <4>2
    <3> QED BY <3>1, <3>2
  <2>5. a + k \in (a + 1) .. t
    BY <1>2, <1>3, <1>4, <2>3, <2>4
  <2>6. PICK m \in 1 .. n : rs[m].seq = a + k
    BY <1>5, <2>5
  <2>7. CASE m < k
    BY <1>2, <2>3, <2>6, <2>7
  <2>8. CASE m = k
    BY <2>3, <2>6, <2>8
  <2>9. CASE k < m
    <3>1. rs[k].seq < rs[m].seq
      BY <1>1, <2>3, <2>9
    <3> QED BY <1>2, <2>3, <2>4, <2>6, <3>1
  <2> QED BY <1>2, <2>3, <2>7, <2>8, <2>9
<1> QED BY <1>2, <1>6 DEF rs

-----------------------------------------------------------------------------
(* What keeps a chain.                                                     *)

Alike(s, t) == DOMAIN t = DOMAIN s /\ \A i \in DOMAIN s : t[i].recs = s[i].recs

LEMMA ChainedAlike ==
    ASSUME NEW s, NEW t, NEW a, Alike(s, t), Chained(s, a)
    PROVE  Chained(t, a)
<1>1. Seqs(t) = Seqs(s)
  BY DEF Alike, Seqs, Recorded
<1>2. Ordered(t)
  BY DEF Alike, Chained, Ordered, Size
<1> QED BY <1>1, <1>2 DEF Chained

LEMMA SeqsAre ==
    ASSUME NEW s, Files(s), NEW x
    PROVE  x \in Seqs(s) <=> \E i \in DOMAIN s : \E k \in 1 .. Size(s, i) : s[i].recs[k].seq = x
<1>1. x \in Seqs(s) <=> \E r \in Recorded(s) : r.seq = x
  BY DEF Seqs
<1>2. \A r : r \in Recorded(s) <=> \E i \in DOMAIN s : \E k \in 1 .. Size(s, i) : s[i].recs[k] = r
  BY RecordedIs
<1> QED BY <1>1, <1>2

(* A new number in the last file.                                          *)
LEMMA ChainedAdded ==
    ASSUME NEW s, Files(s), NEW t, NEW c \in DOMAIN s, NEW r, Appended(s, t, c, r),
           \A i \in DOMAIN s : i <= c, t[c].recs[Size(s, c) + 1] = r,
           NEW a \in Nat, NEW n \in Nat, a <= n, Ordered(s), Seqs(s) = (a + 1) .. n, r.seq = n + 1
    PROVE  Chained(t, a)
<1>1. /\ Files(t) /\ DOMAIN t = DOMAIN s /\ Recorded(t) = Recorded(s) \cup {r}
      /\ \A i \in DOMAIN s : /\ Size(t, i) = Size(s, i) + (IF i = c THEN 1 ELSE 0)
                             /\ \A k \in 1 .. Size(s, i) : t[i].recs[k] = s[i].recs[k]
  BY DEF Appended
<1>2. DOMAIN s \subseteq Nat /\ \A i \in DOMAIN s : Size(s, i) \in Nat
  BY HighestName, FileFields DEF Files, Size
<1>3. Seqs(t) = (a + 1) .. (n + 1) /\ a <= n + 1 /\ n + 1 \in Nat
  <2>1. Seqs(t) = Seqs(s) \cup {n + 1}
    BY <1>1 DEF Seqs
  <2> QED BY <2>1
<1>4. ASSUME NEW i \in DOMAIN s, NEW k \in 1 .. Size(t, i)
      PROVE  \/ k \in 1 .. Size(s, i) /\ t[i].recs[k] = s[i].recs[k]
             \/ i = c /\ k = Size(s, c) + 1
  BY <1>1, <1>2
<1>5. \A i \in DOMAIN s : \A k \in 1 .. Size(s, i) : s[i].recs[k].seq \in (a + 1) .. n
  BY SeqsAre
<1>6. ASSUME NEW i \in DOMAIN s, NEW j \in DOMAIN s, NEW k \in 1 .. Size(t, i), NEW l \in 1 .. Size(t, j),
             i < j \/ (i = j /\ k < l)
      PROVE  t[i].recs[k].seq < t[j].recs[l].seq
  <2>1. k \in 1 .. Size(s, i) /\ t[i].recs[k] = s[i].recs[k]
    <3> SUFFICES ASSUME i = c, k = Size(s, c) + 1 PROVE FALSE
      BY <1>4
    <3>1. j <= c /\ i \in Nat /\ j \in Nat /\ Size(s, c) \in Nat
      BY <1>2
    <3>2. i = j /\ k < l
      BY <1>6, <3>1
    <3>3. l \in 1 .. Size(s, c) + 1
      BY <1>1, <3>2
    <3> QED BY <3>1, <3>2, <3>3
  <2>2. CASE l \in 1 .. Size(s, j) /\ t[j].recs[l] = s[j].recs[l]
    BY <1>6, <2>1, <2>2 DEF Ordered
  <2>3. CASE j = c /\ l = Size(s, c) + 1
    <3>1. t[j].recs[l].seq = n + 1
      BY <2>3
    <3>2. s[i].recs[k].seq \in (a + 1) .. n
      BY <1>5, <2>1
    <3> QED BY <2>1, <3>1, <3>2
  <2> QED BY <1>4, <2>2, <2>3
<1>7. Ordered(t)
  BY <1>1, <1>6 DEF Ordered
<1> QED BY <1>3, <1>7 DEF Chained

(* A new file, empty.                                                      *)
LEMMA ChainedWidened ==
    ASSUME NEW s, NEW t, NEW n, NEW a, Chained(s, a), n \notin DOMAIN s,
           DOMAIN t = DOMAIN s \cup {n}, t[n].recs = <<>>, \A i \in DOMAIN s : t[i].recs = s[i].recs
    PROVE  Chained(t, a)
<1>1. Seqs(t) = Seqs(s)
  <2>1. ToSet(t[n].recs) = {}
    BY DEF ToSet
  <2>2. Recorded(t) = Recorded(s)
    BY <2>1 DEF Recorded
  <2> QED BY <2>2 DEF Seqs
<1>2. Ordered(t)
  <2>1. Size(t, n) = 0
    BY DEF Size
  <2>2. \A k \in 1 .. Size(t, n) : FALSE
    BY <2>1
  <2> QED BY <2>2 DEF Chained, Ordered, Size
<1> QED BY <1>1, <1>2 DEF Chained

(* The last file is cut, or is gone.                                       *)
LEMMA ChainedLess ==
    ASSUME NEW s, Files(s), NEW t, Less(s, t), NEW c, \A i \in DOMAIN s : i <= c,
           \A i \in DOMAIN s \ {c} : i \in DOMAIN t /\ Size(t, i) = Size(s, i),
           NEW a \in Nat, Chained(s, a)
    PROVE  Chained(t, a)
<1>1. Files(t) /\ DOMAIN t \subseteq DOMAIN s /\ DOMAIN s \subseteq Nat
  BY LessFiles, HighestName DEF Less
<1>2. ASSUME NEW i \in DOMAIN t
      PROVE  /\ Size(t, i) \in Nat /\ Size(s, i) \in Nat /\ Size(t, i) <= Size(s, i)
             /\ \A k \in 1 .. Size(t, i) : k \in 1 .. Size(s, i) /\ t[i].recs[k] = s[i].recs[k]
  <2>1. i \in DOMAIN s /\ Size(t, i) <= Size(s, i) /\ \A k \in 1 .. Size(t, i) : t[i].recs[k] = s[i].recs[k]
    BY <1>1 DEF Less
  <2>2. Size(t, i) \in Nat /\ Size(s, i) \in Nat
    BY <1>1, <2>1, FileFields DEF Files, Size
  <2> QED BY <2>1, <2>2
<1>3. Ordered(t)
  BY <1>1, <1>2 DEF Chained, Ordered
<1>4. PICK n \in Nat : a <= n /\ Seqs(s) = (a + 1) .. n
  BY DEF Chained
<1>5. Seqs(t) \subseteq (a + 1) .. n
  <2> SUFFICES ASSUME NEW x \in Seqs(t) PROVE x \in Seqs(s)
    BY <1>4
  <2>1. PICK i \in DOMAIN t : \E k \in 1 .. Size(t, i) : t[i].recs[k].seq = x
    BY <1>1, SeqsAre
  <2> QED BY <1>1, <1>2, <2>1, SeqsAre
<1>6. ASSUME NEW x \in Seqs(t), NEW y \in (a + 1) .. n, y < x PROVE y \in Seqs(t)
  <2>1. PICK j \in DOMAIN t : \E l \in 1 .. Size(t, j) : t[j].recs[l].seq = x
    BY <1>1, SeqsAre
  <2>2. PICK l \in 1 .. Size(t, j) : t[j].recs[l].seq = x
    BY <2>1
  <2>3. l \in 1 .. Size(s, j) /\ s[j].recs[l].seq = x /\ j \in DOMAIN s
    BY <1>1, <1>2, <2>2
  <2>4. PICK i \in DOMAIN s : \E k \in 1 .. Size(s, i) : s[i].recs[k].seq = y
    BY <1>4, SeqsAre
  <2>5. PICK k \in 1 .. Size(s, i) : s[i].recs[k].seq = y
    BY <2>4
  <2>6. x \in Nat /\ y \in Nat /\ ~(x < y) /\ x # y
    <3>1. x \in (a + 1) .. n
      BY <1>5
    <3> QED BY <1>6, <3>1
  <2>7. i < j \/ (i = j /\ k < l)
    <3>1. ~(j < i)
      BY <2>3, <2>5, <2>6 DEF Chained, Ordered
    <3>2. ~(j = i /\ l < k)
      BY <2>3, <2>5, <2>6 DEF Chained, Ordered
    <3>3. ~(j = i /\ l = k)
      BY <2>3, <2>5, <2>6
    <3>4. i \in Nat /\ j \in Nat /\ Size(s, i) \in Nat /\ Size(s, j) \in Nat
      <4>1. File(s[i]) /\ File(s[j])
        BY <2>3 DEF Files
      <4> QED BY <1>1, <2>3, <4>1, FileFields DEF Size
    <3> QED BY <2>3, <3>1, <3>2, <3>3, <3>4
  <2>8. i \in DOMAIN t /\ k \in 1 .. Size(t, i)
    <3>1. CASE i # c
      BY <2>5, <3>1
    <3>2. CASE i = c
      <4>1. i = j /\ k < l
        BY <1>1, <2>3, <2>7, <3>2
      <4> QED BY <1>2, <2>2, <2>5, <4>1
    <3> QED BY <3>1, <3>2
  <2>9. t[i].recs[k].seq = y
    BY <1>2, <2>5, <2>8
  <2> QED BY <1>1, <2>8, <2>9, SeqsAre
<1>7. CASE Seqs(t) = {}
  <2>1. (a + 1) .. a = {} /\ a <= a
    OBVIOUS
  <2> QED BY <1>3, <1>7, <2>1 DEF Chained
<1>8. CASE Seqs(t) # {}
  <2>1. Seqs(t) \subseteq 0 .. n
    BY <1>5
  <2>2. PICK m \in Seqs(t) : \A x \in Seqs(t) : x <= m
    BY <1>8, <2>1, Greatest
  <2>3. m \in (a + 1) .. n /\ m \in Nat /\ a <= m
    BY <1>5
  <2>4. \A x \in (a + 1) .. m : x \in Seqs(t)
    <3> SUFFICES ASSUME NEW x \in (a + 1) .. m, x # m PROVE x \in Seqs(t)
      BY <2>2
    <3>1. x \in (a + 1) .. n /\ x < m
      BY <2>3
    <3> QED BY <1>6, <2>2, <3>1
  <2>5. Seqs(t) = (a + 1) .. m
    <3>1. ASSUME NEW x \in Seqs(t) PROVE x \in (a + 1) .. m
      <4>1. x \in (a + 1) .. n /\ x <= m
        BY <1>5, <2>2
      <4> QED BY <2>3, <4>1
    <3> QED BY <2>4, <3>1
  <2> QED BY <1>3, <2>3, <2>5 DEF Chained
<1> QED BY <1>7, <1>8

(* The segments, with those acknowledged files that are still named.       *)
Mended(s, u, names) ==
    [i \in DOMAIN s \cup (DOMAIN u \cap names) |-> IF i \in DOMAIN s THEN s[i] ELSE u[i]]

Mends(s, u, names, t) ==
    /\ Files(t) /\ DOMAIN t = DOMAIN s \cup (DOMAIN u \cap names)
    /\ \A i \in DOMAIN s : t[i] = s[i]
    /\ \A i \in (DOMAIN u \cap names) \ DOMAIN s : t[i] = u[i]

LEMMA MendedIs ==
    ASSUME NEW s, Files(s), NEW u, Files(u), NEW names
    PROVE  Mends(s, u, names, Mended(s, u, names))
<1> DEFINE t == Mended(s, u, names)
<1>1. /\ DOMAIN t = DOMAIN s \cup (DOMAIN u \cap names)
      /\ t = [i \in DOMAIN t |-> t[i]]
      /\ \A i \in DOMAIN s : t[i] = s[i]
      /\ \A i \in (DOMAIN u \cap names) \ DOMAIN s : t[i] = u[i]
  BY DEF Mended
<1> HIDE DEF t
<1>2. PICK a \in Nat : Bound(s, a)
  BY DEF Files
<1>3. PICK b \in Nat : Bound(u, b)
  BY DEF Files
<1>4. \A i \in DOMAIN t : File(t[i])
  BY <1>1 DEF Files
<1> DEFINE n == a + b
<1>5. n \in Nat /\ a <= n /\ b <= n
  OBVIOUS
<1> HIDE DEF n
<1>6. DOMAIN t \subseteq 1 .. n
  BY <1>1, <1>2, <1>3, <1>5 DEF Bound
<1>7. ASSUME NEW i \in DOMAIN t, NEW k \in 1 .. Size(t, i) PROVE t[i].recs[k].seq <= n
  <2>1. t[i].recs[k].seq \in Nat
    BY <1>4, FileFields DEF Size
  <2>2. CASE i \in DOMAIN s
    <3>1. t[i].recs[k].seq <= a
      BY <1>1, <1>2, <2>2 DEF Bound, Size
    <3> QED BY <1>5, <2>1, <3>1
  <2>3. CASE i \notin DOMAIN s
    <3>1. t[i] = u[i] /\ i \in DOMAIN u
      BY <1>1, <2>3
    <3>2. t[i].recs[k].seq <= b
      BY <1>3, <3>1 DEF Bound, Size
    <3> QED BY <1>5, <2>1, <3>2
  <2> QED BY <2>2, <2>3
<1>8. Files(t)
  BY <1>1, <1>4, <1>5, <1>6, <1>7 DEF Files, Bound
<1> QED BY <1>1, <1>8 DEF t, Mends

LEMMA MendedSeqs ==
    ASSUME NEW s, Files(s), NEW u, Files(u), NEW names, DOMAIN s \cap DOMAIN u = {}, NEW x
    PROVE  /\ x \in Seqs(s) => x \in Seqs(Mended(s, u, names))
           /\ x \in Seqs(Mended(s, u, names)) => x \in Seqs(s) \/ x \in Seqs(u)
           /\ DOMAIN u \subseteq names /\ x \in Seqs(u) => x \in Seqs(Mended(s, u, names))
<1> DEFINE t == Mended(s, u, names)
<1>1. /\ Files(t) /\ DOMAIN t = DOMAIN s \cup (DOMAIN u \cap names)
      /\ \A i \in DOMAIN s : t[i] = s[i] /\ Size(t, i) = Size(s, i)
      /\ \A i \in DOMAIN u \cap names : t[i] = u[i] /\ Size(t, i) = Size(u, i)
  <2>1. /\ Files(t) /\ DOMAIN t = DOMAIN s \cup (DOMAIN u \cap names)
        /\ \A i \in DOMAIN s : t[i] = s[i]
        /\ \A i \in (DOMAIN u \cap names) \ DOMAIN s : t[i] = u[i]
    <3>1. Mends(s, u, names, t)
      BY MendedIs
    <3> HIDE DEF t
    <3> QED BY <3>1 DEF Mends
  <2> HIDE DEF t
  <2> QED BY <2>1 DEF Size
<1> HIDE DEF t
<1>2. x \in Seqs(t) <=> \E i \in DOMAIN t : \E k \in 1 .. Size(t, i) : t[i].recs[k].seq = x
  BY <1>1, SeqsAre
<1>3. x \in Seqs(s) <=> \E i \in DOMAIN s : \E k \in 1 .. Size(s, i) : s[i].recs[k].seq = x
  BY SeqsAre
<1>4. x \in Seqs(u) <=> \E i \in DOMAIN u : \E k \in 1 .. Size(u, i) : u[i].recs[k].seq = x
  BY SeqsAre
<1>5. ASSUME x \in Seqs(s) PROVE x \in Seqs(t)
  <2>1. PICK i \in DOMAIN s : \E k \in 1 .. Size(s, i) : s[i].recs[k].seq = x
    BY <1>3, <1>5
  <2> QED BY <1>1, <1>2, <2>1
<1>6. ASSUME x \in Seqs(t) PROVE x \in Seqs(s) \/ x \in Seqs(u)
  <2>1. PICK i \in DOMAIN t : \E k \in 1 .. Size(t, i) : t[i].recs[k].seq = x
    BY <1>2, <1>6
  <2> QED BY <1>1, <1>3, <1>4, <2>1
<1>7. ASSUME DOMAIN u \subseteq names, x \in Seqs(u) PROVE x \in Seqs(t)
  <2>1. PICK i \in DOMAIN u : \E k \in 1 .. Size(u, i) : u[i].recs[k].seq = x
    BY <1>4, <1>7
  <2>2. i \in DOMAIN u \cap names
    BY <1>7
  <2> QED BY <1>1, <1>2, <2>1, <2>2
<1> QED BY <1>5, <1>6, <1>7 DEF t

(* Without the files below b, the chain is anchored at b.                  *)
LEMMA ChainedRest ==
    ASSUME NEW s, Files(s), NEW u, Files(u), NEW names, DOMAIN s \cap DOMAIN u = {},
           DOMAIN u \subseteq names, NEW a \in Nat, Chained(Mended(s, u, names), a),
           NEW b \in Seqs(u), \A x \in Seqs(u) : x <= b, \A x \in Seqs(s) : b < x
    PROVE  Chained(s, b)
<1> DEFINE t == Mended(s, u, names)
<1>1. /\ DOMAIN s \subseteq DOMAIN t /\ \A i \in DOMAIN s : t[i] = s[i] /\ Size(t, i) = Size(s, i)
      /\ \A x : x \in Seqs(s) => x \in Seqs(t)
      /\ \A x : x \in Seqs(t) => x \in Seqs(s) \/ x \in Seqs(u)
      /\ b \in Seqs(t)
  <2>1. /\ DOMAIN t = DOMAIN s \cup (DOMAIN u \cap names)
        /\ \A i \in DOMAIN s : t[i] = s[i]
    <3>1. Mends(s, u, names, t)
      BY MendedIs
    <3> HIDE DEF t
    <3> QED BY <3>1 DEF Mends
  <2>2. \A x : x \in Seqs(s) => x \in Seqs(t)
    BY MendedSeqs
  <2>3. \A x : x \in Seqs(t) => x \in Seqs(s) \/ x \in Seqs(u)
    BY MendedSeqs
  <2>4. b \in Seqs(t)
    BY MendedSeqs
  <2> HIDE DEF t
  <2> QED BY <2>1, <2>2, <2>3, <2>4 DEF Size
<1> HIDE DEF t
<1>2. Ordered(s)
  BY <1>1 DEF Chained, Ordered, t
<1>3. PICK n \in Nat : a <= n /\ Seqs(t) = (a + 1) .. n
  BY DEF Chained, t
<1>4. b \in Nat /\ b <= n /\ a + 1 <= b
  BY <1>1, <1>3
<1>5. Seqs(s) = (b + 1) .. n
  <2>1. ASSUME NEW x \in Seqs(s) PROVE x \in (b + 1) .. n
    <3>1. x \in (a + 1) .. n /\ b < x
      BY <1>1, <1>3
    <3> QED BY <1>4, <3>1
  <2>2. ASSUME NEW x \in (b + 1) .. n PROVE x \in Seqs(s)
    <3>1. x \in (a + 1) .. n /\ ~(x <= b)
      BY <1>4
    <3> QED BY <1>1, <1>3, <3>1
  <2> QED BY <2>1, <2>2
<1> QED BY <1>2, <1>4, <1>5 DEF Chained

-----------------------------------------------------------------------------
(* Steps that leave the files, and what is known of them, alone.           *)

Broken == {"failing", "drain", "dead"}

Unread ==
    /\ seg' = seg /\ acked' = acked /\ manifest' = manifest
    /\ mem'.anchor = mem.anchor /\ mem'.list = mem.list
    /\ hist'.promised = hist.promised /\ hist'.lost = hist.lost /\ hist'.cut = hist.cut
    /\ mem'.status = mem.status \/ mem'.status = "failed"
    /\ \/ wpc' = wpc
       \/ wpc \in Syncing /\ wpc' \in Syncing
       \/ wpc \in Broken /\ wpc' \in Broken

LEMMA UnreadLegible ==
    ASSUME Legible, Unread, Acknowledged', Pointed'
    PROVE  Legible'
<1>1. /\ seg' = seg /\ acked' = acked /\ manifest' = manifest
      /\ mem'.anchor = mem.anchor /\ mem'.list = mem.list
      /\ hist'.promised = hist.promised /\ hist'.lost = hist.lost /\ hist'.cut = hist.cut
      /\ mem'.status = mem.status \/ mem'.status = "failed"
      /\ Current' = Current /\ Repaired' = Repaired
  BY DEF Unread, Current, Repaired
<1>2. /\ wpc' \in Serving <=> wpc \in Serving
      /\ wpc' \in Starting <=> wpc \in Starting
      /\ wpc' \in Syncing <=> wpc \in Syncing
      /\ wpc' \in Broken <=> wpc \in Broken
      /\ wpc' = wpc \/ {wpc, wpc'} \cap {"none", "open", "gap", "gapsync", "opened"} = {}
  BY DEF Unread, Serving, Starting, Syncing, Broken
<1>3. Linear'
  BY <1>1 DEF Legible, Linear
<1>4. Named'
  BY <1>1, <1>2 DEF Legible, Named
<1>5. Attached' /\ Whole'
  BY <1>1, <1>2 DEF Legible, Attached, Whole, Broken
<1>6. Honest'
  BY <1>1, <1>2 DEF Legible, Honest
<1> QED BY <1>3, <1>4, <1>5, <1>6 DEF Legible

(* With the consumer where it is.                                          *)
LEMMA RestsLegible ==
    ASSUME Legible, Unread, apc' = apc, cursor' = cursor
    PROVE  Legible'
<1>1. Acknowledged'
  BY DEF Legible, Acknowledged, Unread
<1>2. Pointed'
  BY DEF Legible, Pointed, Unread
<1> QED BY <1>1, <1>2, UnreadLegible

LEMMA RequestLegible ==
    ASSUME Good, Legible, NEW r \in Request,
           Reserve(r) \/ Emit(r) \/ EmitTerminal(r) \/ PreserveTerminal(r)
    PROVE  Legible'
<1>0. mem \in Memory /\ hist \in Events
  BY Types
<1>1. CASE PreserveTerminal(r)
  <2>1. Unread /\ apc' = apc /\ cursor' = cursor
    BY <1>0, <1>1 DEF PreserveTerminal, Unread, disk, Events
  <2> QED BY <2>1, RestsLegible
<1>2. CASE ~PreserveTerminal(r)
  <2>1. PICK e, rest : Submit(e, rest) /\ UNCHANGED <<disk, flight, wpc, apc, kept, count>>
    BY <1>2 DEF Reserve, Emit, EmitTerminal
  <2>2. /\ mem' = [mem EXCEPT !.queued = @ + 1]
        /\ hist' = [hist EXCEPT !.accepted = @ \cup {e}, !.used = @ \cup {e.req}]
        /\ seg' = seg /\ acked' = acked /\ manifest' = manifest /\ cursor' = cursor
        /\ wpc' = wpc /\ apc' = apc
    BY <2>1 DEF Submit, disk
  <2>3. mem'.anchor = mem.anchor /\ mem'.list = mem.list /\ mem'.status = mem.status
    BY <1>0, <2>2 DEF Memory
  <2>4. hist'.promised = hist.promised /\ hist'.lost = hist.lost /\ hist'.cut = hist.cut
    BY <1>0, <2>2 DEF Events
  <2>5. Unread
    BY <2>2, <2>3, <2>4 DEF Unread
  <2> QED BY <2>2, <2>5, RestsLegible
<1> QED BY <1>1, <1>2

LEMMA WriterQuietLegible ==
    ASSUME Good, Legible, TakeBatch \/ StartAppend \/ EndBatch \/ SyncIdle \/ WriterFailed \/ Close
                          \/ UNCHANGED vars
    PROVE  Legible'
<1>0. mem \in Memory
  BY Types
<1>1. /\ seg' = seg /\ acked' = acked /\ manifest' = manifest /\ cursor' = cursor /\ hist' = hist
      /\ apc' = apc
  BY DEF TakeBatch, StartAppend, EndBatch, SyncIdle, WriterFailed, Close, disk, vars
<1>2. mem'.anchor = mem.anchor /\ mem'.list = mem.list /\ (mem'.status = mem.status \/ mem'.status = "failed")
  <2>1. \/ mem' = mem
        \/ mem' = [mem EXCEPT !.status = "failed", !.accepting = FALSE]
        \/ mem' = [mem EXCEPT !.accepting = FALSE]
    BY DEF TakeBatch, StartAppend, EndBatch, SyncIdle, WriterFailed, Close, disk, vars
  <2> QED BY <1>0, <2>1 DEF Memory
<1>3. \/ wpc' = wpc
      \/ wpc \in Syncing /\ wpc' \in Syncing
      \/ wpc \in Broken /\ wpc' \in Broken
  BY DEF TakeBatch, StartAppend, EndBatch, SyncIdle, WriterFailed, Close, vars, Syncing, Broken
<1>4. Unread
  BY <1>1, <1>2, <1>3 DEF Unread
<1> QED BY <1>1, <1>4, RestsLegible

(* The consumer goes on.                                                   *)
LEMMA AckStartLegible ==
    ASSUME Good, Legible, NEW c, AckStart(c)
    PROVE  Legible'
<1>1. /\ seg' = seg /\ acked' = acked /\ manifest' = manifest /\ cursor' = cursor /\ hist' = hist
      /\ mem' = mem /\ wpc' = wpc /\ mem.status = "healthy" /\ apc = Idle /\ c \in Seqs(seg)
      /\ apc' = [at |-> "put", to |-> c]
  BY DEF AckStart, disk, Seqs, Replayable
<1>2. Unread
  BY <1>1 DEF Unread
<1>3. Acknowledged'
  BY <1>1 DEF Legible, Acknowledged, Idle
<1>4. Pointed'
  BY <1>1 DEF Legible, Pointed
<1> QED BY <1>2, <1>3, <1>4, UnreadLegible

(* Nothing is left to sync: all records of the segments are promised.      *)
LEMMA CleanPromised ==
    ASSUME Good, wpc = "idle", ~Dirty
    PROVE  Recorded(seg) \subseteq hist.promised
<1>1. Files(seg) /\ DOMAIN seg # {} /\ Current \in DOMAIN seg
  BY Types, HighestName DEF Good, Phase, Current
<1>2. seg[Current].synced = Size(seg, Current) /\ DOMAIN seg[Current].recs = 1 .. Size(seg, Current)
  <2>1. File(seg[Current])
    BY <1>1 DEF Files
  <2>2. seg[Current].synced \in Nat /\ Size(seg, Current) \in Nat /\ seg[Current].synced <= Size(seg, Current)
    BY <2>1, FileFields DEF File, Size
  <2> QED BY <2>1, <2>2, FileFields DEF Dirty, Size
<1>3. ToSet(seg[Current].recs) \subseteq hist.promised
  BY <1>2 DEF Good, Sealed, ToSet
<1>4. \A i \in DOMAIN seg \ {Current} : ToSet(seg[i].recs) \subseteq hist.promised
  BY DEF Good, Sealed, Serving
<1> QED BY <1>3, <1>4 DEF Recorded

LEMMA FlushDoneLegible ==
    ASSUME Good, Legible, FlushDone
    PROVE  Legible'
<1>1. /\ seg' = seg /\ acked' = acked /\ manifest' = manifest /\ cursor' = cursor /\ hist' = hist
      /\ mem' = mem /\ wpc' = wpc /\ wpc = "idle" /\ ~Dirty
      /\ apc' = IF apc.at = "wait" THEN [apc EXCEPT !.at = "lock"] ELSE apc
  BY DEF FlushDone, disk
<1>2. Unread
  BY <1>1 DEF Unread
<1>3. CASE apc.at # "wait"
  BY <1>1, <1>2, <1>3, RestsLegible
<1>4. CASE apc.at = "wait"
  <2>1. apc'.at = "lock" /\ apc'.to = apc.to
    BY <1>1, <1>4, Types DEF Pointer
  <2>2. Acknowledged'
    BY <1>1, <1>4, <2>1 DEF Legible, Acknowledged
  <2>3. \E r \in hist.promised : r.seq = apc.to
    <3>1. apc.to \in Seqs(seg)
      BY <1>4 DEF Legible, Pointed
    <3> QED BY <1>1, <3>1, CleanPromised DEF Seqs
  <2>4. Pointed'
    BY <1>1, <2>1, <2>3 DEF Legible, Pointed
  <2> QED BY <1>2, <2>2, <2>4, UnreadLegible
<1> QED BY <1>3, <1>4

LEMMA ConsumerQuietLegible ==
    ASSUME Good, Legible, Drain \/ AckFlush \/ FlushTimesOut \/ AckLock \/ AckFails
    PROVE  Legible'
<1>0. mem \in Memory /\ apc \in Pointer
  BY Types
<1>1. /\ seg' = seg /\ acked' = acked /\ manifest' = manifest /\ cursor' = cursor /\ hist' = hist
      /\ wpc' = wpc \/ (wpc \in Broken /\ wpc' \in Broken)
  BY DEF Drain, AckFlush, FlushTimesOut, AckLock, AckFails, disk, Broken
<1>2. mem'.anchor = mem.anchor /\ mem'.list = mem.list /\ (mem'.status = mem.status \/ mem'.status = "failed")
  <2>1. mem' = mem \/ mem' = [mem EXCEPT !.status = "failed", !.accepting = FALSE]
    BY DEF Drain, AckFlush, FlushTimesOut, AckLock, AckFails
  <2> QED BY <1>0, <2>1 DEF Memory
<1>3. \/ apc' = apc
      \/ apc.at = "put" /\ apc'.at = "wait" /\ apc'.to = apc.to
      \/ apc.at = "lock" /\ apc'.at = "cursor" /\ apc'.to = apc.to
      \/ apc.at = "wait" /\ apc'.at = "idle"
      \/ apc'.at = "idle" /\ mem'.status = "failed"
  <2>1. CASE Drain \/ FlushTimesOut
    BY <2>1 DEF Drain, FlushTimesOut, Idle
  <2>2. CASE AckFlush \/ AckLock
    BY <1>0, <2>2 DEF AckFlush, AckLock, Pointer
  <2>3. CASE AckFails
    <3>1. apc' = Idle /\ mem' = [mem EXCEPT !.status = "failed", !.accepting = FALSE]
      BY <2>3 DEF AckFails
    <3> QED BY <1>0, <3>1 DEF Idle, Memory
  <2> QED BY <2>1, <2>2, <2>3
<1>4. Unread
  BY <1>1, <1>2 DEF Unread
<1>5. Acknowledged'
  BY <1>1, <1>2, <1>3 DEF Legible, Acknowledged
<1>6. Pointed'
  BY <1>1, <1>3 DEF Legible, Pointed
<1> QED BY <1>4, <1>5, <1>6, UnreadLegible

LEMMA CursorLegible ==
    ASSUME Good, Legible, WriteCursor
    PROVE  Legible'
<1>1. /\ seg' = seg /\ acked' = acked /\ manifest' = manifest /\ hist' = hist
      /\ mem' = mem /\ wpc' = wpc /\ apc.at = "cursor" /\ cursor' = apc.to
      /\ apc' = [apc EXCEPT !.at = "rename"]
  BY DEF WriteCursor
<1>2. apc'.at = "rename"
  BY <1>1, Types DEF Pointer
<1>3. Unread
  BY <1>1 DEF Unread
<1>4. Acknowledged'
  BY <1>1, <1>2 DEF Legible, Acknowledged
<1>5. Pointed'
  BY <1>1, <1>2 DEF Legible, Pointed
<1> QED BY <1>3, <1>4, <1>5, UnreadLegible

(* What a start would read, as the segments and the acknowledged files.    *)
LEMMA Readings ==
    ASSUME Good, Legible
    PROVE  /\ Repaired = Mended(seg, acked, manifest.names) /\ Files(Repaired)
           /\ DOMAIN Repaired = DOMAIN seg \cup (DOMAIN acked \cap manifest.names)
           /\ \A i \in DOMAIN seg : Repaired[i] = seg[i] /\ Size(Repaired, i) = Size(seg, i)
           /\ \A i \in DOMAIN acked \cap manifest.names :
                Repaired[i] = acked[i] /\ Size(Repaired, i) = Size(acked, i)
<1>1. Repaired = Mended(seg, acked, manifest.names)
  BY DEF Repaired, Mended
<1>2. Files(Repaired)
  BY RepairedIs
<1>3. DOMAIN seg \cap DOMAIN acked = {}
  BY DEF Legible, Named
<1>4. DOMAIN Repaired = DOMAIN seg \cup (DOMAIN acked \cap manifest.names)
  BY DEF Repaired
<1>5. \A i \in DOMAIN seg : Repaired[i] = seg[i]
  BY DEF Repaired
<1>6. \A i \in DOMAIN acked \cap manifest.names : Repaired[i] = acked[i]
  BY <1>3 DEF Repaired
<1> QED BY <1>1, <1>2, <1>4, <1>5, <1>6 DEF Size

LEMMA RenamedLegible ==
    ASSUME Good, Legible, Renamed
    PROVE  Legible'
<1>1. /\ seg' = seg /\ acked' = acked /\ manifest' = manifest /\ cursor' = cursor /\ hist' = hist
      /\ mem' = mem /\ wpc' = wpc /\ apc.at = "rename" /\ \A i \in DOMAIN seg : ~Deletable(i)
      /\ apc' = IF acked = << >> THEN Idle ELSE [apc EXCEPT !.at = "manifest"]
  BY DEF Renamed, disk
<1>2. Unread
  BY <1>1 DEF Unread
<1>3. wpc \in Serving /\ apc.to = cursor /\ cursor \in Nat
  BY <1>1, Types DEF Idle, Good, Below
<1>4. CASE acked = << >>
  <2>1. DOMAIN acked = {} /\ apc'.at = "idle"
    BY <1>1, <1>4, NoFiles DEF Idle
  <2>2. Acknowledged'
    BY <1>1, <2>1 DEF Acknowledged
  <2>3. Pointed'
    BY <1>1, <2>1 DEF Legible, Pointed
  <2> QED BY <1>2, <2>2, <2>3, UnreadLegible
<1>5. CASE acked # << >>
  <2>1. apc'.at = "manifest"
    BY <1>1, <1>5, Types DEF Pointer
  <2>2. ASSUME NEW i \in DOMAIN acked, NEW j \in DOMAIN seg,
               NEW k \in 1 .. Size(acked, i), NEW l \in 1 .. Size(seg, j)
        PROVE  acked[i].recs[k].seq < seg[j].recs[l].seq
    <3> DEFINE t == Repaired
    <3>1. i \in manifest.names /\ i < Current /\ i # j
      BY <1>1, <1>3 DEF Legible, Acknowledged, Named
    <3>2. /\ t[i] = acked[i] /\ Size(t, i) = Size(acked, i) /\ i \in DOMAIN t
          /\ t[j] = seg[j] /\ Size(t, j) = Size(seg, j) /\ j \in DOMAIN t
      BY <3>1, Readings
    <3>3. Ordered(t)
      BY DEF Legible, Linear, Chained
    <3>4. i \in Nat /\ j \in Nat
      BY Types, HighestName
    <3>5. CASE i < j
      BY <3>2, <3>3, <3>5 DEF Ordered
    <3>6. CASE j < i
      <4>1. j # Current
        BY <3>1, <3>4, <3>6
      <4> DEFINE q == seg[j].recs
                 m == Len(seg[j].recs)
      <4>2. File(seg[j]) /\ File(acked[i])
        BY Types DEF Files
      <4>3. m \in Nat /\ Size(seg, j) = m /\ m \in 1 .. m /\ q \in Seq(Record) /\ q[m].seq \in Nat
        <5>1. m \in Nat /\ q \in Seq(Record) /\ Size(seg, j) = m /\ l \in 1 .. m
          BY <4>2, FileFields DEF Size
        <5>2. m \in 1 .. m
          <6> HIDE DEF m
          <6> QED BY <5>1
        <5> QED BY <4>2, <5>1, <5>2, FileFields
      <4>4. q # <<>> /\ Last(q) = q[m]
        <5>1. q # <<>>
          BY <4>3, EmptySeq
        <5> QED BY <5>1 DEF Last
      <4>5. ~(q[m].seq < cursor)
        BY <1>1, <1>3, <4>1, <4>4 DEF Deletable
      <4>6. acked[i].recs[k].seq \in Nat /\ acked[i].recs[k].seq < cursor
        <5>1. acked[i].recs[k] \in Recorded(acked)
          BY Types, RecordedIs
        <5> QED BY <4>2, <5>1, FileFields DEF Good, Below, Size
      <4>7. q[m].seq < acked[i].recs[k].seq
        <5>1. m \in 1 .. Size(t, j) /\ t[j].recs = q
          BY <3>2, <4>3
        <5> QED BY <3>2, <3>3, <3>6, <5>1 DEF Ordered
      <4> HIDE DEF q, m
      <4> QED BY <1>3, <4>3, <4>5, <4>6, <4>7
    <3> QED BY <3>1, <3>4, <3>5, <3>6
  <2>3. Acknowledged'
    <3>1. DOMAIN acked \subseteq mem.list \cap manifest.names
      BY <1>1 DEF Legible, Acknowledged
    <3> QED BY <1>1, <2>1, <2>2, <3>1 DEF Acknowledged
  <2>4. Pointed'
    BY <1>1, <2>1 DEF Legible, Pointed
  <2> QED BY <1>2, <2>3, <2>4, UnreadLegible
<1> QED BY <1>4, <1>5

LEMMA UnlinkLegible ==
    ASSUME Good, Legible, Unlink
    PROVE  Legible'
<1>1. /\ seg' = seg /\ acked' = << >> /\ manifest' = manifest /\ cursor' = cursor /\ hist' = hist
      /\ mem' = mem /\ wpc' = wpc /\ apc.at = "unlink" /\ apc' = Idle /\ Current' = Current
  BY DEF Unlink, Current
<1>2. DOMAIN acked' = {} /\ DOMAIN acked \cap (mem.list \cup manifest.names) = {} /\ apc'.at = "idle"
  BY <1>1, NoFiles DEF Legible, Acknowledged, Idle
<1>3. Repaired' = Repaired
  <2>1. DOMAIN seg \cup (DOMAIN acked' \cap manifest.names) = DOMAIN seg \cup (DOMAIN acked \cap manifest.names)
    BY <1>2
  <2>2. DOMAIN acked \cap manifest.names = {} /\ DOMAIN acked' \cap manifest.names = {}
    BY <1>2
  <2> QED BY <1>1, <2>2 DEF Repaired
<1>4. Linear'
  BY <1>1, <1>3 DEF Legible, Linear
<1>5. Named'
  BY <1>1, <1>2 DEF Legible, Named
<1>6. Acknowledged' /\ Pointed'
  BY <1>1, <1>2 DEF Legible, Acknowledged, Pointed
<1>7. Attached' /\ Whole'
  BY <1>1, <1>2 DEF Legible, Attached, Whole
<1>8. wpc \in Serving
  BY <1>1, Types DEF Idle
<1>9. Honest'
  BY <1>1, <1>8 DEF Legible, Honest, Serving
<1> QED BY <1>4, <1>5, <1>6, <1>7, <1>9 DEF Legible

LEMMA RenameLegible ==
    ASSUME Good, Legible, NEW n \in DOMAIN seg, Rename(n)
    PROVE  Legible'
<1>1. /\ acked' = With(acked, n, seg[n]) /\ seg' = [j \in DOMAIN seg \ {n} |-> seg[j]]
      /\ manifest' = manifest /\ mem' = mem /\ wpc' = wpc /\ hist' = hist
      /\ cursor' = cursor /\ apc' = apc /\ apc.at = "rename" /\ n # Current
  BY DEF Rename, Deletable
<1>2. wpc \in Serving /\ Files(seg) /\ n \notin DOMAIN acked
  BY <1>1, Types DEF Idle, Legible, Named
<1>3. /\ DOMAIN acked' = DOMAIN acked \cup {n} /\ acked'[n] = seg[n]
      /\ \A j \in DOMAIN acked : acked'[j] = acked[j]
  BY <1>1, <1>2 DEF With
<1>4. DOMAIN seg' = DOMAIN seg \ {n} /\ \A j \in DOMAIN seg' : seg'[j] = seg[j]
  BY <1>1
<1>5. Current' = Current /\ Current \in DOMAIN seg' /\ n < Current /\ n \in Nat
  <2>1. Current \in DOMAIN seg /\ \A j \in DOMAIN seg : j <= Current
    BY <1>2, HighestName DEF Current
  <2>2. DOMAIN seg' \subseteq Nat /\ Current \in DOMAIN seg' /\ \A j \in DOMAIN seg' : j <= Current
    BY <1>1, <1>2, <1>4, <2>1, HighestName
  <2>3. Max(DOMAIN seg') = Current
    BY <2>2, MaxIs
  <2>4. n \in Nat /\ Current \in Nat /\ n <= Current
    BY <1>2, <2>1, HighestName
  <2> QED BY <1>1, <2>2, <2>3, <2>4 DEF Current
<1>6. n \in manifest.names /\ n \in mem.list
  <2>1. wpc # "none"
    BY <1>2 DEF Serving
  <2> QED BY <1>1, <1>2, <2>1 DEF Legible, Named
<1>7. DOMAIN acked \subseteq mem.list \cap manifest.names
  BY <1>1 DEF Legible, Acknowledged
<1>8. Repaired' = Repaired
  <2>1. DOMAIN seg' \cup (DOMAIN acked' \cap manifest.names) = DOMAIN seg \cup (DOMAIN acked \cap manifest.names)
    BY <1>3, <1>4, <1>6
  <2>2. \A i \in DOMAIN seg \cup (DOMAIN acked \cap manifest.names) :
           (IF i \in DOMAIN seg' THEN seg'[i] ELSE acked'[i]) = (IF i \in DOMAIN seg THEN seg[i] ELSE acked[i])
    BY <1>3, <1>4
  <2> QED BY <1>1, <2>1, <2>2 DEF Repaired
<1>9. Linear'
  BY <1>1, <1>8 DEF Legible, Linear
<1>10. Named'
  <2>1. DOMAIN seg' \cap DOMAIN acked' = {} /\ DOMAIN seg' \cup DOMAIN acked' = DOMAIN seg \cup DOMAIN acked
    BY <1>2, <1>3, <1>4 DEF Legible, Named
  <2>2. \A i \in DOMAIN acked' : i < Current
    BY <1>2, <1>3, <1>5 DEF Legible, Named
  <2>3. DOMAIN acked' \subseteq mem.list \cap manifest.names
    BY <1>3, <1>6, <1>7
  <2>4. wpc \notin Starting
    BY <1>2 DEF Serving, Starting
  <2> QED BY <1>1, <1>4, <1>5, <2>1, <2>2, <2>3, <2>4 DEF Legible, Named
<1>11. Acknowledged' /\ Pointed'
  <2>1. DOMAIN acked' \subseteq mem.list \cap manifest.names
    BY <1>3, <1>6, <1>7
  <2> QED BY <1>1, <2>1 DEF Legible, Acknowledged, Pointed
<1>12. Attached'
  BY <1>1, <1>3, <1>4, <1>5 DEF Legible, Attached
<1>13. Whole'
  <2>1. \A i \in DOMAIN acked' : ~acked'[i].torn
    BY <1>1, <1>3 DEF Legible, Whole
  <2>2. ASSUME NEW i \in DOMAIN seg', seg'[i].torn
        PROVE  /\ i = Current /\ \A j \in DOMAIN acked' : j < i
               /\ wpc \in {"failing", "drain", "dead"} \/ (wpc = "none" /\ ~manifest.clean)
    BY <1>3, <1>4, <1>5, <2>2 DEF Legible, Whole
  <2> QED BY <1>1, <1>5, <2>1, <2>2 DEF Whole
<1>14. Honest'
  BY <1>1, <1>2, <1>4, <1>5 DEF Legible, Honest, Serving
<1> QED BY <1>9, <1>10, <1>11, <1>12, <1>13, <1>14 DEF Legible

-----------------------------------------------------------------------------
(* Steps of the writer that change no record.                              *)

(* The manifest is left alone, or lists what the process knows.            *)
Relisting ==
    \/ /\ manifest' = manifest
       /\ wpc' \in Serving <=> wpc \in Serving
       /\ wpc' \in Starting <=> wpc \in Starting
    \/ /\ manifest'.anchor = mem.anchor /\ manifest'.names = mem.list
       /\ \A i \in DOMAIN seg' : seg'[i].linked
       /\ wpc' \notin Starting

Rewriting ==
    /\ Alike(seg, seg') /\ acked' = acked /\ cursor' = cursor
    /\ mem'.anchor = mem.anchor /\ mem'.list = mem.list
    /\ wpc \notin Broken \cup {"none", "open"} /\ wpc' # "open"
    /\ hist.promised \subseteq hist'.promised
    /\ \A i \in DOMAIN seg : /\ seg[i].linked => seg'[i].linked
                             /\ seg'[i].torn => seg[i].torn \/ (i = Current /\ wpc \in Serving /\ wpc' \in Broken)
    /\ wpc' = "none" => \A i \in DOMAIN seg' : seg'[i].linked
    /\ Relisting
    /\ wpc' \in Syncing /\ seg'[Current].synced > 0 => Current \in manifest'.names
    /\ \/ apc' = apc /\ (mem'.status = "healthy" => mem.status = "healthy" \/ wpc \in Starting)
       \/ apc' = Idle /\ mem'.status = "down"

LEMMA RewritingLegible ==
    ASSUME Good, Legible, Rewriting, Honest'
    PROVE  Legible'
<1>1. /\ Alike(seg, seg') /\ acked' = acked /\ cursor' = cursor
      /\ mem'.anchor = mem.anchor /\ mem'.list = mem.list
      /\ wpc \notin Broken \cup {"none", "open"} /\ wpc' # "open" /\ Relisting
      /\ DOMAIN seg' = DOMAIN seg /\ Current' = Current
      /\ \A i \in DOMAIN seg : Size(seg', i) = Size(seg, i) /\ seg'[i].recs = seg[i].recs
      /\ Seqs(seg') = Seqs(seg)
  BY DEF Rewriting, Alike, Current, Size, Seqs, Recorded
<1>2. wpc \in Serving \cup Starting
  BY <1>1 DEF Good, Typed
<1>3. /\ wpc \in Starting => DOMAIN acked = {}
      /\ DOMAIN acked \cap mem.list = DOMAIN acked \cap manifest.names
      /\ DOMAIN seg \subseteq mem.list /\ mem.list \subseteq DOMAIN seg \cup DOMAIN acked
      /\ mem.anchor = manifest.anchor
  <2>1. wpc \in Starting => DOMAIN acked = {}
    BY DEF Legible, Named
  <2>2. wpc \in Serving => DOMAIN acked \cap mem.list = DOMAIN acked \cap manifest.names
    BY DEF Legible, Named
  <2> QED BY <1>1, <1>2, <2>1, <2>2 DEF Legible, Named, Linear
<1>4. DOMAIN acked \cap manifest'.names = DOMAIN acked \cap manifest.names /\ manifest'.anchor = manifest.anchor
  BY <1>1, <1>3 DEF Relisting
<1>5. Linear'
  <2>1. DOMAIN Repaired' = DOMAIN Repaired
    BY <1>1, <1>4 DEF Repaired
  <2>2. \A i \in DOMAIN Repaired : Repaired'[i].recs = Repaired[i].recs
    BY <1>1, <1>4 DEF Repaired
  <2>3. Alike(Repaired, Repaired')
    BY <2>1, <2>2 DEF Alike
  <2>4. Chained(Repaired', manifest.anchor)
    BY <2>3, ChainedAlike DEF Legible, Linear
  <2> QED BY <1>1, <1>3, <1>4, <2>4 DEF Linear
<1>6. Named'
  <2>1. DOMAIN seg' \cap DOMAIN acked' = {} /\ manifest'.names \subseteq DOMAIN seg' \cup DOMAIN acked'
    BY <1>1, <1>3 DEF Relisting, Legible, Named
  <2>2. wpc' \in Starting => DOMAIN acked' = {}
    BY <1>1, <1>3 DEF Relisting
  <2>3. wpc' \in Serving =>
         /\ DOMAIN seg' \ {Current'} \subseteq manifest'.names
         /\ \A i \in DOMAIN acked' : i < Current'
         /\ \/ DOMAIN acked' \subseteq mem'.list \cap manifest'.names
            \/ DOMAIN acked' \cap (mem'.list \cup manifest'.names) = {}
    BY <1>1, <1>2, <1>3 DEF Relisting, Legible, Named
  <2>4. wpc' \in Syncing /\ seg'[Current'].synced > 0 => Current' \in manifest'.names
    BY <1>1 DEF Rewriting
  <2> QED BY <1>1, <1>3, <2>1, <2>2, <2>3, <2>4 DEF Named
<1>7. Acknowledged'
  <2>1. CASE apc' = Idle /\ mem'.status = "down"
    BY <2>1 DEF Acknowledged, Idle
  <2>2. CASE apc' = apc /\ (mem'.status = "healthy" => mem.status = "healthy" \/ wpc \in Starting)
    BY <1>1, <1>3, <1>4, <2>2 DEF Legible, Acknowledged
  <2> QED BY <2>1, <2>2 DEF Rewriting
<1>8. Pointed'
  <2>1. (cursor' = 0 /\ manifest'.anchor = 0) \/ \E r \in hist'.promised : r.seq = cursor'
    BY <1>1, <1>4 DEF Legible, Pointed, Rewriting
  <2>2. CASE apc' = Idle
    BY <2>1, <2>2 DEF Pointed, Idle
  <2>3. CASE apc' = apc
    BY <1>1, <2>1, <2>3 DEF Legible, Pointed, Rewriting
  <2> QED BY <2>2, <2>3 DEF Rewriting
<1>9. Attached'
  <2> SUFFICES ASSUME "power" \in Faults
               PROVE  /\ \A i \in DOMAIN seg' : seg'[i].linked \/ (i = Current' /\ wpc' \notin {"none", "open"})
                      /\ \A i \in DOMAIN seg' \cap manifest'.names : seg'[i].linked
                      /\ \A i \in DOMAIN acked' : acked'[i].linked
    BY DEF Attached
  <2>1. \A i \in DOMAIN seg' : seg'[i].linked \/ (i = Current' /\ wpc' \notin {"none", "open"})
    BY <1>1 DEF Legible, Attached, Rewriting
  <2>2. \A i \in DOMAIN seg' \cap manifest'.names : seg'[i].linked
    BY <1>1 DEF Legible, Attached, Rewriting, Relisting
  <2> QED BY <1>1, <2>1, <2>2 DEF Legible, Attached
<1>10. Whole'
  <2>1. \A i \in DOMAIN seg : ~seg[i].torn
    BY <1>1 DEF Legible, Whole, Broken
  <2>2. \A i \in DOMAIN seg' : seg'[i].torn => i = Current /\ wpc \in Serving /\ wpc' \in Broken
    BY <1>1, <2>1 DEF Rewriting
  <2>3. wpc \in Serving => \A j \in DOMAIN acked : j < Current
    BY DEF Legible, Named
  <2> QED BY <1>1, <2>2, <2>3 DEF Legible, Whole, Broken
<1> QED BY <1>5, <1>6, <1>7, <1>8, <1>9, <1>10 DEF Legible

(* Whether a record is cut is not changed by a sync or a link.             *)
LEMMA TornKept ==
    ASSUME Good, DOMAIN seg # {}
    PROVE  /\ \A i \in DOMAIN seg : Linked(seg)[i].torn = seg[i].torn
           /\ \A i \in DOMAIN seg : Synced(seg)[i].torn = seg[i].torn
           /\ \A i \in DOMAIN seg : Linked(Synced(seg))[i].torn = seg[i].torn
<1>1. Files(seg) /\ \A i \in DOMAIN seg : seg[i] \in Segment
  BY Types DEF Files, File
<1>2. DOMAIN Synced(seg) = DOMAIN seg /\ \A i \in DOMAIN seg : Synced(seg)[i] \in Segment
  BY <1>1, SyncedIs DEF Same
<1>3. \A i \in DOMAIN seg : Synced(seg)[i] = seg[i] \/ Synced(seg)[i] = [seg[i] EXCEPT !.synced = Len(seg[i].recs)]
  BY DEF Synced
<1>4. \A i \in DOMAIN seg : Synced(seg)[i].torn = seg[i].torn
  BY <1>1, <1>3 DEF Segment
<1>5. \A i \in DOMAIN seg : Linked(seg)[i].torn = seg[i].torn
  BY <1>1 DEF Linked, Segment
<1>6. \A i \in DOMAIN seg : Linked(Synced(seg))[i] = [Synced(seg)[i] EXCEPT !.linked = TRUE]
  BY <1>2 DEF Linked
<1> HIDE DEF Synced
<1>7. \A i \in DOMAIN seg : Linked(Synced(seg))[i].torn = Synced(seg)[i].torn
  BY <1>2, <1>6 DEF Segment
<1> QED BY <1>4, <1>5, <1>7

LEMMA SyncLegible ==
    ASSUME Good, Legible, Fdatasync \/ GapSync
    PROVE  Legible'
<1>1. /\ seg' = Synced(seg) /\ acked' = acked /\ manifest' = manifest /\ cursor' = cursor
      /\ mem' = mem /\ apc' = apc /\ hist' = hist
      /\ (wpc = "sync" /\ wpc' = "manifest") \/ (wpc = "gapsync" /\ wpc' = "opened")
  BY DEF Fdatasync, GapSync
<1>2. DOMAIN seg # {} /\ Files(seg) /\ Current \in DOMAIN seg
  BY <1>1, Types, HighestName DEF Good, Phase, Current
<1>3. /\ Alike(seg, seg') /\ Current' = Current
      /\ \A i \in DOMAIN seg : seg'[i].linked = seg[i].linked /\ seg'[i].torn = seg[i].torn
  BY <1>1, <1>2, SyncedIs, TornKept DEF Same, Alike, Current
<1>4. Rewriting
  <2>1. Relisting
    BY <1>1 DEF Relisting, Serving, Starting
  <2> QED BY <1>1, <1>3, <2>1 DEF Rewriting, Broken, Syncing
<1>5. Honest'
  <2>1. seg'[Current].recs = seg[Current].recs /\ DOMAIN seg' = DOMAIN seg
    BY <1>2, <1>3 DEF Alike
  <2> QED BY <1>1, <1>3, <2>1 DEF Legible, Honest, Serving
<1> QED BY <1>4, <1>5, RewritingLegible

LEMMA ListedHistory ==
    ASSUME Good
    PROVE  /\ Promised(seg).lost = hist.lost /\ Promised(seg).cut = hist.cut
           /\ hist.promised \subseteq Promised(seg).promised
           /\ NewManifest(TRUE).clean /\ ~NewManifest(FALSE).clean
           /\ \A c : NewManifest(c).anchor = mem.anchor /\ NewManifest(c).names = mem.list
  BY Types DEF Promised, Events, NewManifest

LEMMA RotateSyncLegible ==
    ASSUME Good, Legible, RotateSync
    PROVE  Legible'
<1>1. /\ seg' = Linked(Synced(seg)) /\ acked' = acked /\ manifest' = NewManifest(FALSE) /\ cursor' = cursor
      /\ mem' = mem /\ apc' = apc /\ hist' = Promised(seg) /\ wpc = "append" /\ wpc' = wpc
  BY DEF RotateSync
<1>2. DOMAIN seg # {} /\ Files(seg) /\ Current \in DOMAIN seg
  BY <1>1, Types, HighestName DEF Good, Phase, Current
<1>3. Same(seg, Synced(seg)) /\ DOMAIN Synced(seg) = DOMAIN seg /\ Files(Synced(seg))
  BY <1>2, SyncedIs, SameFiles
<1>4. /\ Same(Synced(seg), seg') /\ DOMAIN seg' = DOMAIN seg
      /\ \A i \in DOMAIN seg : seg'[i].linked
  BY <1>1, <1>3, LinkedIs
<1>5. Alike(seg, seg') /\ \A i \in DOMAIN seg : seg'[i].torn = seg[i].torn
  BY <1>1, <1>2, <1>3, <1>4, TornKept DEF Same, Alike
<1>6. /\ manifest'.anchor = mem.anchor /\ manifest'.names = mem.list /\ ~manifest'.clean
      /\ hist'.lost = hist.lost /\ hist'.cut = hist.cut /\ hist.promised \subseteq hist'.promised
  BY <1>1, ListedHistory
<1>7. Rewriting
  <2>1. Relisting
    BY <1>1, <1>4, <1>6 DEF Relisting, Starting
  <2>2. Current \in manifest'.names
    BY <1>1, <1>2, <1>6 DEF Legible, Named
  <2> QED BY <1>1, <1>4, <1>5, <1>6, <2>1, <2>2 DEF Rewriting, Broken
<1>8. Honest'
  BY <1>1, <1>6 DEF Legible, Honest, Serving
<1> QED BY <1>7, <1>8, RewritingLegible

(* The manifest is written for all segments.                               *)
LEMMA ManifestLegible ==
    ASSUME Good, Legible, WriteManifest \/ OpenManifest \/ Stop
    PROVE  Legible'
<1>1. /\ seg' = Linked(seg) /\ acked' = acked /\ cursor' = cursor
      /\ \/ /\ wpc = "manifest" /\ wpc' = "idle" /\ mem' = mem /\ apc' = apc /\ hist' = Promised(seg)
            /\ manifest' = NewManifest(FALSE)
         \/ /\ wpc = "opened" /\ wpc' = "idle" /\ apc' = apc /\ manifest' = NewManifest(FALSE)
            /\ mem' = [mem EXCEPT !.status = "healthy", !.accepting = TRUE]
            /\ hist' = [Promised(seg) EXCEPT !.lost = @ /\ seg[Current].recs = <<>>]
         \/ /\ wpc = "idle" /\ wpc' = "none" /\ apc' = Idle /\ manifest' = NewManifest(TRUE)
            /\ mem' = [mem EXCEPT !.status = "down"]
            /\ hist' = [Promised(seg) EXCEPT !.accepted = {}]
  BY DEF WriteManifest, OpenManifest, Stop
<1>2. DOMAIN seg # {} /\ Files(seg) /\ Current \in DOMAIN seg /\ mem \in Memory
  BY <1>1, Types, HighestName DEF Good, Phase, Current
<1>3. /\ Alike(seg, seg') /\ DOMAIN seg' = DOMAIN seg /\ Current' = Current
      /\ \A i \in DOMAIN seg : seg'[i].linked /\ seg'[i].torn = seg[i].torn
  BY <1>1, <1>2, LinkedIs, TornKept DEF Same, Alike, Current
<1>4. /\ mem'.anchor = mem.anchor /\ mem'.list = mem.list
      /\ wpc = "manifest" => mem'.status = mem.status
      /\ wpc = "opened" => mem'.status = "healthy"
      /\ wpc = "idle" => mem'.status = "down"
  BY <1>1, <1>2 DEF Memory
<1>5. Promised(seg) \in Events
  BY ListedIs
<1>6. /\ hist'.promised = Promised(seg).promised /\ hist'.cut = hist.cut
      /\ wpc # "opened" => hist'.lost = hist.lost
      /\ wpc = "opened" => (hist'.lost => hist.lost /\ seg[Current].recs = <<>>)
  <2> DEFINE b == seg[Current].recs = <<>>
             p == Promised(seg)
  <2>1. \/ wpc = "manifest" /\ hist' = p
        \/ wpc = "opened" /\ hist' = [p EXCEPT !.lost = @ /\ b]
        \/ wpc = "idle" /\ hist' = [p EXCEPT !.accepted = {}]
    BY <1>1
  <2>2. p \in Events /\ p.lost = hist.lost /\ p.cut = hist.cut /\ hist.lost \in BOOLEAN
    BY <1>5, ListedHistory, Types DEF Events
  <2> HIDE DEF b, p
  <2>3. /\ hist'.promised = p.promised /\ hist'.cut = p.cut
        /\ wpc # "opened" => hist'.lost = p.lost
        /\ wpc = "opened" => hist'.lost = (p.lost /\ b)
    BY <2>1, <2>2 DEF Events
  <2>4. wpc = "opened" => (hist'.lost => hist.lost /\ b)
    BY <2>2, <2>3
  <2> QED BY <2>2, <2>3, <2>4 DEF b, p
<1>7. /\ manifest'.anchor = mem.anchor /\ manifest'.names = mem.list
      /\ wpc # "idle" => ~manifest'.clean
      /\ hist.promised \subseteq hist'.promised
  <2>1. /\ \E c : manifest' = NewManifest(c)
        /\ wpc # "idle" => manifest' = NewManifest(FALSE)
    BY <1>1
  <2>2. manifest'.anchor = mem.anchor /\ manifest'.names = mem.list
    BY <2>1, ListedHistory
  <2>3. wpc # "idle" => ~manifest'.clean
    BY <2>1, ListedHistory
  <2>4. hist.promised \subseteq hist'.promised
    BY <1>6, ListedHistory
  <2> QED BY <2>2, <2>3, <2>4
<1>8. Rewriting
  <2>1. Relisting
    BY <1>1, <1>3, <1>7 DEF Relisting, Starting
  <2>2. Current \in manifest'.names
    BY <1>1, <1>2, <1>7 DEF Legible, Named
  <2>3. \/ apc' = apc /\ (mem'.status = "healthy" => mem.status = "healthy" \/ wpc \in Starting)
        \/ apc' = Idle /\ mem'.status = "down"
    BY <1>1, <1>4 DEF Starting
  <2> QED BY <1>1, <1>3, <1>4, <1>7, <2>1, <2>2, <2>3 DEF Rewriting, Broken
<1>9. Honest'
  <2>1. CASE wpc = "manifest"
    BY <1>1, <1>4, <1>6, <1>7, <2>1 DEF Legible, Honest, Serving
  <2>2. CASE wpc = "opened"
    <3>1. ~hist'.lost
      <4>1. CASE manifest.clean
        BY <1>6, <2>2, <4>1 DEF Legible, Honest
      <4>2. CASE ~manifest.clean
        BY <1>6, <2>2, <4>2 DEF Legible, Honest
      <4> QED BY <4>1, <4>2
    <3> QED BY <1>1, <1>4, <1>7, <2>2, <3>1 DEF Honest
  <2>3. CASE wpc = "idle"
    <3>1. ~hist'.lost /\ mem'.status = "down" /\ wpc' = "none"
      BY <1>1, <1>4, <1>6, <2>3 DEF Legible, Honest, Serving
    <3>2. DOMAIN seg \cup (DOMAIN acked \cap mem.list) = mem.list
      BY <2>3 DEF Legible, Named
    <3> QED BY <1>1, <1>3, <1>7, <3>1, <3>2 DEF Honest, Serving
  <2> QED BY <1>1, <2>1, <2>2, <2>3
<1> QED BY <1>8, <1>9, RewritingLegible

LEMMA WriterFailsLegible ==
    ASSUME Good, Legible, WriterFails
    PROVE  Legible'
<1>1. /\ acked' = acked /\ manifest' = manifest /\ cursor' = cursor /\ mem' = mem
      /\ apc' = apc /\ hist' = hist /\ wpc \in {"append", "sync", "manifest"} /\ wpc' = "failing"
  BY DEF WriterFails
<1>2. PICK b \in BOOLEAN : seg' = Torn(b)
  BY DEF WriterFails, Torn
<1>3. /\ Same(seg, seg')
      /\ \A i \in DOMAIN seg : seg'[i].linked = seg[i].linked /\ seg'[i].synced = seg[i].synced
  BY <1>2, TornIs, Types
<1>4. Alike(seg, seg') /\ Current' = Current
  BY <1>3 DEF Same, Alike, Current
<1>5. \A i \in DOMAIN seg : i # Current => seg'[i] = seg[i]
  BY <1>2 DEF Torn
<1>6. Rewriting
  <2>1. Relisting
    BY <1>1 DEF Relisting, Serving, Starting
  <2>2. \A i \in DOMAIN seg : seg'[i].torn => seg[i].torn \/ (i = Current /\ wpc \in Serving /\ wpc' \in Broken)
    BY <1>1, <1>5 DEF Serving, Broken
  <2> QED BY <1>1, <1>3, <1>4, <2>1, <2>2 DEF Rewriting, Broken, Syncing
<1>7. Honest'
  BY <1>1, <1>4 DEF Legible, Honest, Serving
<1> QED BY <1>6, <1>7, RewritingLegible

-----------------------------------------------------------------------------
(* The manifest without the renamed segments.                              *)
LEMMA AckManifestLegible ==
    ASSUME Good, Legible, AckManifest
    PROVE  Legible'
<1> DEFINE b == Max({r.seq : r \in Recorded(acked)})
<1>1. /\ seg' = Linked(seg) /\ acked' = acked /\ cursor' = cursor /\ hist' = hist /\ wpc' = wpc
      /\ apc.at = "manifest" /\ apc' = [apc EXCEPT !.at = "unlink"]
      /\ mem' = [mem EXCEPT !.list = DOMAIN seg, !.anchor = b]
      /\ manifest' = [clean |-> FALSE, anchor |-> mem'.anchor, names |-> mem'.list]
  BY DEF AckManifest
<1>2. wpc \in Serving /\ DOMAIN seg # {} /\ Files(seg) /\ Files(acked) /\ cursor \in Nat
  <2>1. wpc \in Serving
    BY <1>1, Types DEF Idle
  <2> QED BY <2>1, Types DEF Good, Phase, Serving
<1>3. PICK x0 : x0 \in Seqs(acked)
  <2>1. PICK i \in DOMAIN acked : acked[i].recs # <<>>
    BY <1>1 DEF Good, Below
  <2>2. File(acked[i])
    BY <1>2 DEF Files
  <2>3. Size(acked, i) \in Nat /\ acked[i].recs \in Seq(Record)
    BY <2>2, FileFields DEF Size
  <2>4. Size(acked, i) # 0
    BY <2>1, <2>3, EmptySeq DEF Size
  <2>5. 1 \in 1 .. Size(acked, i)
    BY <2>3, <2>4
  <2> QED BY <1>2, <2>5, SeqsAre
<1>4. \A x \in Seqs(acked) : x \in Nat /\ x < cursor
  BY <1>2, RecordedType DEF Good, Below, Seqs, Record
<1>5. b \in Seqs(acked) /\ \A x \in Seqs(acked) : x <= b
  <2>1. Seqs(acked) \subseteq 0 .. cursor /\ Seqs(acked) # {}
    BY <1>2, <1>3, <1>4
  <2>2. b = Max(Seqs(acked))
    BY DEF Seqs
  <2> HIDE DEF b
  <2> QED BY <1>2, <2>1, <2>2, Highest
<1>6. b \in Nat /\ cursor # 0
  BY <1>2, <1>4, <1>5
<1> HIDE DEF b
<1>7. DOMAIN acked \subseteq manifest.names /\ DOMAIN seg \cap DOMAIN acked = {}
  BY <1>1 DEF Legible, Acknowledged, Named
<1>8. \A x \in Seqs(seg) : b < x
  <2> SUFFICES ASSUME NEW x \in Seqs(seg) PROVE b < x
    OBVIOUS
  <2>1. PICK j \in DOMAIN seg : \E l \in 1 .. Size(seg, j) : seg[j].recs[l].seq = x
    BY <1>2, SeqsAre
  <2>2. PICK i \in DOMAIN acked : \E k \in 1 .. Size(acked, i) : acked[i].recs[k].seq = b
    BY <1>2, <1>5, SeqsAre
  <2> QED BY <1>1, <2>1, <2>2 DEF Legible, Acknowledged
<1>9. Chained(seg, b)
  <2>1. Chained(Mended(seg, acked, manifest.names), manifest.anchor) /\ manifest.anchor \in Nat
    BY Readings, OthersNow DEF Legible, Linear, Paper
  <2> QED BY <1>2, <1>5, <1>7, <1>8, <2>1, ChainedRest
<1>10. /\ DOMAIN seg' = DOMAIN seg /\ Current' = Current
       /\ \A i \in DOMAIN seg : seg'[i].recs = seg[i].recs /\ seg'[i].linked /\ seg'[i].torn = seg[i].torn
  BY <1>1, <1>2, LinkedIs, TornKept DEF Same, Current
<1>11. /\ mem'.list = DOMAIN seg /\ mem'.anchor = b /\ mem'.status = mem.status
       /\ manifest'.names = DOMAIN seg /\ manifest'.anchor = b /\ ~manifest'.clean
  <2>1. mem \in Memory
    BY Types
  <2>2. mem'.list = DOMAIN seg /\ mem'.anchor = b /\ mem'.status = mem.status
    BY <1>1, <2>1 DEF Memory
  <2> QED BY <1>1, <2>2
<1>12. apc'.at = "unlink"
  BY <1>1, Types DEF Pointer
<1>13. Linear'
  <2>1. DOMAIN Repaired' = DOMAIN seg
    BY <1>1, <1>7, <1>10, <1>11 DEF Repaired
  <2>2. \A i \in DOMAIN seg : Repaired'[i] = seg'[i]
    BY <1>10 DEF Repaired
  <2>3. Alike(seg, Repaired')
    BY <1>10, <2>1, <2>2 DEF Alike
  <2>4. Chained(Repaired', b)
    BY <1>9, <2>3, ChainedAlike
  <2> QED BY <1>11, <2>4 DEF Linear
<1>14. Named'
  BY <1>1, <1>2, <1>7, <1>10, <1>11, HighestName DEF Legible, Named, Serving, Starting, Current
<1>15. Acknowledged' /\ Pointed'
  BY <1>1, <1>6, <1>7, <1>11, <1>12 DEF Legible, Acknowledged, Pointed
<1>16. Attached'
  BY <1>1, <1>10 DEF Legible, Attached
<1>17. Whole'
  BY <1>1, <1>2, <1>10 DEF Legible, Whole, Serving
<1>18. Honest'
  BY <1>1, <1>2, <1>11 DEF Legible, Honest, Serving, Good, Phase
<1> QED BY <1>13, <1>14, <1>15, <1>16, <1>17, <1>18 DEF Legible

-----------------------------------------------------------------------------
(* Steps that write a record, and that open a segment.                     *)

(* The last number of the process is that of the whole chain: what is      *)
(* acknowledged is below the cursor, and the cursor's record is there.     *)
LEMMA LastIs ==
    ASSUME Good, Durable, Legible, NEW n \in Nat, manifest.anchor <= n,
           Seqs(Repaired) = (manifest.anchor + 1) .. n
    PROVE  LastSeq = n
<1> DEFINE a == manifest.anchor
           S == {a} \cup Seqs(seg)
<1>1. LastSeq = Max(S) /\ a \in Nat /\ Files(seg) /\ Files(acked) /\ cursor \in Nat
  BY Types, OthersNow DEF LastSeq, Seqs, Legible, Linear, Paper
<1>2. /\ \A x : x \in Seqs(seg) => x \in (a + 1) .. n
      /\ \A x : x \in (a + 1) .. n => x \in Seqs(seg) \/ x \in Seqs(acked)
  <2>1. DOMAIN seg \cap DOMAIN acked = {} /\ Repaired = Mended(seg, acked, manifest.names)
    BY Readings DEF Legible, Named
  <2> QED BY <1>1, <2>1, MendedSeqs
<1>3. n \in S
  <2> SUFFICES ASSUME n # a, n \notin Seqs(seg) PROVE FALSE
    OBVIOUS
  <2>1. n \in (a + 1) .. n
    BY <1>1
  <2>2. n \in Seqs(acked)
    BY <1>2, <2>1
  <2>3. n < cursor
    BY <2>2 DEF Good, Below, Seqs
  <2>4. PICK r \in hist.promised : r.seq = cursor
    BY <1>1, <2>3 DEF Legible, Pointed
  <2>5. Safe(seg, r)
    BY <1>1, <2>4 DEF Durable, Secured
  <2>6. cursor \in Seqs(seg)
    BY <1>1, <2>4, <2>5, SeqsAre DEF Safe
  <2> QED BY <1>1, <1>2, <2>3, <2>6
<1>4. \A x \in S : x \in Nat /\ x <= n
  BY <1>1, <1>2
<1> HIDE DEF S
<1>5. Max(S) = n
  BY <1>3, <1>4, MaxIs
<1> QED BY <1>1, <1>5

LEMMA AppendLegible ==
    ASSUME Good, Durable, Legible, NEW r, AppendStep(r)
    PROVE  Legible'
<1> DEFINE c == Current
           a == manifest.anchor
<1>1. /\ seg' = Added(seg, c, r) /\ acked' = acked /\ manifest' = manifest /\ cursor' = cursor
      /\ apc' = apc /\ hist' = hist /\ mem'.status = mem.status
      /\ mem'.anchor = mem.anchor /\ mem'.list = mem.list
      /\ (wpc = "append" /\ wpc' = "append") \/ (wpc = "gap" /\ wpc' = "gapsync")
      /\ r \in Record /\ r.seq = LastSeq + 1
  BY DEF AppendStep
<1>2. /\ Files(seg) /\ Files(acked) /\ c \in DOMAIN seg /\ \A i \in DOMAIN seg : i <= c
      /\ a \in Nat /\ DOMAIN seg \subseteq Nat
  BY <1>1, Types, HighestName, OthersNow DEF Good, Phase, Current, Paper
<1>3. PICK n \in Nat : a <= n /\ Seqs(Repaired) = (a + 1) .. n
  BY DEF Legible, Linear, Chained
<1>4. LastSeq = n /\ r.seq = n + 1
  BY <1>1, <1>3, LastIs
<1>5. /\ Files(Repaired) /\ DOMAIN Repaired = DOMAIN seg \cup (DOMAIN acked \cap manifest.names)
      /\ \A i \in DOMAIN seg : Repaired[i] = seg[i] /\ Size(Repaired, i) = Size(seg, i)
      /\ \A i \in DOMAIN acked \cap manifest.names : Repaired[i] = acked[i] /\ Size(Repaired, i) = Size(acked, i)
  BY Readings
<1>6. \A i \in DOMAIN acked : i <= c
  <2>1. wpc = "gap" => DOMAIN acked = {}
    BY DEF Legible, Named, Starting
  <2>2. wpc = "append" => \A i \in DOMAIN acked : i < c
    BY DEF Legible, Named, Serving
  <2>3. DOMAIN acked \subseteq Nat /\ c \in Nat
    BY <1>2, HighestName
  <2> HIDE DEF c
  <2> QED BY <1>1, <2>1, <2>2, <2>3
<1>7. \A x \in Recorded(Repaired) : x.seq \in Nat /\ x.seq <= n /\ x.seq <= r.seq
  BY <1>2, <1>3, <1>4 DEF Seqs
<1>8. Repaired' = Added(Repaired, c, r)
  <2>1. /\ DOMAIN seg' = DOMAIN seg /\ seg'[c] = [seg[c] EXCEPT !.recs = Append(@, r)]
        /\ \A i \in DOMAIN seg \ {c} : seg'[i] = seg[i]
    BY <1>1, <1>2 DEF Added
  <2>2. /\ DOMAIN Added(Repaired, c, r) = DOMAIN Repaired /\ c \in DOMAIN Repaired
        /\ Added(Repaired, c, r)[c] = [seg[c] EXCEPT !.recs = Append(@, r)]
        /\ \A i \in DOMAIN Repaired \ {c} : Added(Repaired, c, r)[i] = Repaired[i]
        /\ Added(Repaired, c, r) = [i \in DOMAIN Repaired |-> Added(Repaired, c, r)[i]]
    BY <1>2, <1>5 DEF Added
  <2>3. /\ DOMAIN Repaired' = DOMAIN Repaired /\ Repaired' = [i \in DOMAIN Repaired |-> Repaired'[i]]
    BY <1>1, <1>5, <2>1 DEF Repaired
  <2>4. ASSUME NEW i \in DOMAIN Repaired PROVE Repaired'[i] = Added(Repaired, c, r)[i]
    <3>0. Repaired'[i] = IF i \in DOMAIN seg THEN seg'[i] ELSE acked[i]
      BY <1>1, <1>5, <2>1 DEF Repaired
    <3>1. CASE i = c
      BY <1>2, <2>1, <2>2, <3>0, <3>1
    <3>2. CASE i # c /\ i \in DOMAIN seg
      BY <1>5, <2>1, <2>2, <3>0, <3>2
    <3>3. CASE i # c /\ i \notin DOMAIN seg
      BY <1>5, <2>2, <3>0, <3>3
    <3> QED BY <3>1, <3>2, <3>3
  <2> HIDE DEF c
  <2> QED BY <2>2, <2>3, <2>4
<1>9. Linear'
  <2> DEFINE t == Repaired'
             s == Repaired
  <2>1. Appended(s, Added(s, c, r), c, r)
    <3>1. c \in DOMAIN s
      BY <1>2, <1>5
    <3> HIDE DEF s, c
    <3>2. Files(s) /\ \A x \in Recorded(s) : x.seq <= r.seq
      BY <1>5, <1>7 DEF s
    <3> QED BY <1>1, <3>1, <3>2, AddedIs
  <2>2. Appended(s, t, c, r) /\ t = Added(s, c, r)
    BY <1>8, <2>1
  <2>3. t[c].recs[Size(s, c) + 1] = r
    <3>1. t[c].recs = Append(s[c].recs, r) /\ s[c].recs \in Seq(Record)
      <4>1. c \in DOMAIN s /\ File(s[c])
        BY <1>2, <1>5 DEF Files
      <4>2. s[c].recs \in Seq(Record) /\ s[c] \in Segment
        BY <4>1, FileFields
      <4> HIDE DEF s, t, c
      <4> QED BY <2>2, <4>1, <4>2 DEF Added, Segment
    <3> HIDE DEF t, s, c
    <3> QED BY <1>1, <3>1, AppendProperties DEF Size
  <2>4. c \in DOMAIN s /\ (\A i \in DOMAIN s : i <= c) /\ Files(s) /\ Ordered(s) /\ Seqs(s) = (a + 1) .. n
    BY <1>2, <1>3, <1>5, <1>6 DEF Legible, Linear, Chained
  <2> HIDE DEF s, t, c, a
  <2>5. Chained(t, a)
    BY <1>1, <1>2, <1>3, <1>4, <2>2, <2>3, <2>4, ChainedAdded
  <2> QED BY <1>1, <2>5 DEF Legible, Linear, t, a
<1>10. Appended(seg, seg', c, r)
  <2>1. \A x \in Recorded(seg) : x.seq <= r.seq
    <3>1. LastSeq \in Nat /\ \A x \in Recorded(seg) : x.seq \in Nat /\ x.seq <= LastSeq
      <4>1. mem.anchor \in Nat
        BY Types DEF Memory
      <4> QED BY <1>2, <4>1, HighestSeq DEF LastSeq
    <3> QED BY <1>1, <3>1
  <2>2. Appended(seg, Added(seg, c, r), c, r)
    <3> HIDE DEF c
    <3> QED BY <1>1, <1>2, <2>1, AddedIs
  <2> QED BY <1>1, <2>2
<1>11. /\ DOMAIN seg' = DOMAIN seg /\ Recorded(seg') = Recorded(seg) \cup {r} /\ Current' = c
       /\ Files(seg') /\ seg'[c].recs # <<>>
       /\ \A i \in DOMAIN seg : seg'[i].synced = seg[i].synced /\ seg'[i].linked = seg[i].linked
  <2>1. /\ DOMAIN seg' = DOMAIN seg /\ Recorded(seg') = Recorded(seg) \cup {r} /\ Files(seg')
        /\ \A i \in DOMAIN seg : seg'[i].synced = seg[i].synced /\ seg'[i].linked = seg[i].linked
        /\ Size(seg', c) = Size(seg, c) + 1
    BY <1>2, <1>10 DEF Appended
  <2>2. Size(seg, c) \in Nat
    BY <1>2, FileFields DEF Files, Size
  <2>3. Size(seg', c) # 0
    <3> HIDE DEF c
    <3> QED BY <2>1, <2>2
  <2>4. seg'[c].recs # <<>>
    BY <2>3 DEF Size
  <2> QED BY <2>1, <2>4 DEF Current
<1>12. \A i \in DOMAIN seg : seg'[i].torn = seg[i].torn
  <2>1. \A i \in DOMAIN seg : seg[i] \in Segment
    BY <1>2 DEF Files, File
  <2>2. \A i \in DOMAIN seg : seg'[i] = seg[i] \/ seg'[i] = [seg[i] EXCEPT !.recs = Append(seg[i].recs, r)]
    BY <1>1 DEF Added
  <2> QED BY <2>1, <2>2 DEF Segment
<1>13. Named'
  BY <1>1, <1>2, <1>11 DEF Legible, Named, Serving, Starting, Syncing
<1>14. Acknowledged'
  <2>1. ASSUME apc.at = "manifest", NEW i \in DOMAIN acked, NEW j \in DOMAIN seg,
               NEW k \in 1 .. Size(acked, i), NEW l \in 1 .. Size(seg', j)
        PROVE  acked[i].recs[k].seq < seg'[j].recs[l].seq
    <3>1. seg'[j].recs[l] \in Recorded(seg')
      BY <1>11, RecordedIs
    <3>2. CASE seg'[j].recs[l] \in Recorded(seg)
      <4>1. PICK jj \in DOMAIN seg : \E ll \in 1 .. Size(seg, jj) : seg[jj].recs[ll] = seg'[j].recs[l]
        BY <1>2, <3>2, RecordedIs
      <4> QED BY <2>1, <4>1 DEF Legible, Acknowledged
    <3>3. CASE seg'[j].recs[l] = r
      <4>1. i \in manifest.names
        BY <2>1 DEF Legible, Acknowledged
      <4>2. acked[i].recs[k] \in Recorded(Repaired)
        BY <1>5, <4>1, RecordedIs
      <4> QED BY <1>4, <1>7, <3>3, <4>2
    <3> QED BY <1>11, <3>1, <3>2, <3>3
  <2> QED BY <1>1, <1>11, <2>1 DEF Legible, Acknowledged
<1>15. Pointed'
  <2>1. Seqs(seg) \subseteq Seqs(seg')
    BY <1>11 DEF Seqs
  <2> QED BY <1>1, <2>1 DEF Legible, Pointed
<1>16. Attached' /\ Whole'
  <2>1. \A i \in DOMAIN seg : ~seg[i].torn
    BY <1>1 DEF Legible, Whole
  <2> QED BY <1>1, <1>11, <1>12, <2>1 DEF Legible, Attached, Whole
<1>17. Honest'
  BY <1>1, <1>11 DEF Legible, Honest, Serving
<1> QED BY <1>9, <1>13, <1>14, <1>15, <1>16, <1>17 DEF Legible

LEMMA WidenLegible ==
    ASSUME Good, Legible, NEW n, WidenStep(n)
    PROVE  Legible'
<1>1. /\ seg' = With(seg, n, NewSegment) /\ acked' = acked /\ manifest' = manifest /\ cursor' = cursor
      /\ apc' = apc /\ hist' = hist /\ mem'.status = mem.status
      /\ mem'.anchor = mem.anchor /\ mem'.list = mem.list \cup {n}
      /\ n \in Nat \ {0} /\ \A j \in DOMAIN seg : j < n
      /\ \/ wpc = "append" /\ wpc' = "append" /\ seg[Current].synced > 0
         \/ wpc = "open" /\ wpc' = IF manifest.clean THEN "opened" ELSE "gap"
  BY DEF WidenStep
<1>2. DOMAIN seg \subseteq Nat /\ n \notin DOMAIN seg /\ Files(seg) /\ Files(acked)
  <2>1. DOMAIN seg \subseteq Nat
    BY HighestName, Types
  <2> QED BY <1>1, <2>1, Types
<1>3. /\ DOMAIN seg' = DOMAIN seg \cup {n} /\ seg'[n] = NewSegment
      /\ \A j \in DOMAIN seg : seg'[j] = seg[j]
  BY <1>1, <1>2 DEF With
<1>4. Current' = n
  <2>1. \A j \in DOMAIN seg' : j <= n
    BY <1>1, <1>2, <1>3
  <2>2. DOMAIN seg' \subseteq Nat /\ n \in DOMAIN seg'
    BY <1>1, <1>2, <1>3
  <2>3. Max(DOMAIN seg') = n
    BY <2>1, <2>2, MaxIs
  <2> QED BY <2>3 DEF Current
<1>5. n \notin DOMAIN acked /\ \A i \in DOMAIN acked : i < n
  <2>1. CASE wpc = "append"
    <3>1. \A i \in DOMAIN acked : i < Current
      BY <2>1 DEF Legible, Named, Serving
    <3>2. Current \in DOMAIN seg /\ DOMAIN acked \subseteq Nat
      BY <1>2, <2>1, HighestName DEF Good, Phase, Current
    <3>3. Current \in Nat /\ Current < n
      BY <1>1, <1>2, <3>2
    <3>4. \A i \in DOMAIN acked : i < n
      BY <1>1, <3>1, <3>2, <3>3
    <3> QED BY <1>1, <3>2, <3>4
  <2>2. CASE wpc = "open"
    BY <2>2 DEF Legible, Named, Starting
  <2> QED BY <1>1, <2>1, <2>2
<1>6. n \notin manifest.names
  BY <1>2, <1>5 DEF Legible, Named
<1>7. Linear'
  <2>1. /\ DOMAIN Repaired' = DOMAIN Repaired \cup {n} /\ n \notin DOMAIN Repaired
        /\ Repaired'[n] = NewSegment
    BY <1>1, <1>2, <1>3, <1>5 DEF Repaired
  <2>2. \A i \in DOMAIN Repaired : Repaired'[i] = Repaired[i]
    BY <1>1, <1>3, <1>5 DEF Repaired
  <2>3. Chained(Repaired', manifest.anchor)
    BY <2>1, <2>2, ChainedWidened, NewFile DEF Legible, Linear
  <2> QED BY <1>1, <2>3 DEF Legible, Linear
<1>8. wpc = "append" => Current \in manifest.names
  BY <1>1 DEF Legible, Named, Syncing
<1>9. Named'
  <2>1. DOMAIN seg' \cap DOMAIN acked' = {} /\ manifest'.names \subseteq DOMAIN seg' \cup DOMAIN acked'
    BY <1>1, <1>3, <1>5 DEF Legible, Named
  <2>2. DOMAIN seg' \subseteq mem'.list /\ mem'.list \subseteq DOMAIN seg' \cup DOMAIN acked'
    BY <1>1, <1>3 DEF Legible, Named
  <2>3. wpc' \in Starting => DOMAIN acked' = {}
    BY <1>1 DEF Legible, Named, Starting
  <2>4. wpc' \in Serving =>
         /\ DOMAIN seg' \ {Current'} \subseteq manifest'.names
         /\ \A i \in DOMAIN acked' : i < Current'
         /\ \/ DOMAIN acked' \subseteq mem'.list \cap manifest'.names
            \/ DOMAIN acked' \cap (mem'.list \cup manifest'.names) = {}
    <3> SUFFICES ASSUME wpc = "append"
                 PROVE  /\ DOMAIN seg' \ {n} \subseteq manifest.names
                        /\ \A i \in DOMAIN acked : i < n
                        /\ \/ DOMAIN acked \subseteq mem'.list \cap manifest.names
                           \/ DOMAIN acked \cap (mem'.list \cup manifest.names) = {}
      BY <1>1, <1>4 DEF Serving
    <3>1. DOMAIN seg' \ {n} \subseteq manifest.names
      BY <1>3, <1>8 DEF Legible, Named, Serving
    <3> QED BY <1>1, <1>5, <3>1 DEF Legible, Named, Serving
  <2>5. ~(seg'[Current'].synced > 0)
    BY <1>3, <1>4, NewFile
  <2> QED BY <2>1, <2>2, <2>3, <2>4, <2>5 DEF Named
<1>10. Acknowledged'
  <2>1. ASSUME apc.at = "manifest", NEW i \in DOMAIN acked, NEW j \in DOMAIN seg',
               NEW k \in 1 .. Size(acked, i), NEW l \in 1 .. Size(seg', j)
        PROVE  acked[i].recs[k].seq < seg'[j].recs[l].seq
    <3>1. j # n
      <4>1. Size(seg', n) = 0
        BY <1>3, NewFile DEF Size
      <4> QED BY <2>1, <4>1
    <3>2. j \in DOMAIN seg /\ seg'[j] = seg[j] /\ l \in 1 .. Size(seg, j)
      BY <1>3, <2>1, <3>1 DEF Size
    <3> QED BY <2>1, <3>2 DEF Legible, Acknowledged
  <2> QED BY <1>1, <1>5, <2>1 DEF Legible, Acknowledged
<1>11. Pointed'
  <2>1. Seqs(seg) \subseteq Seqs(seg')
    BY <1>3 DEF Seqs, Recorded
  <2> QED BY <1>1, <2>1 DEF Legible, Pointed
<1>12. Attached'
  <2> SUFFICES ASSUME "power" \in Faults
               PROVE  /\ \A i \in DOMAIN seg' : seg'[i].linked \/ (i = Current' /\ wpc' \notin {"none", "open"})
                      /\ \A i \in DOMAIN seg' \cap manifest'.names : seg'[i].linked
                      /\ \A i \in DOMAIN acked' : acked'[i].linked
    BY DEF Attached
  <2>1. wpc' \notin {"none", "open"}
    BY <1>1
  <2>2. \A i \in DOMAIN seg : seg[i].linked
    BY <1>1, <1>8 DEF Legible, Attached
  <2> QED BY <1>1, <1>3, <1>4, <1>6, <2>1, <2>2 DEF Legible, Attached
<1>13. Whole'
  <2>1. \A i \in DOMAIN seg : ~seg[i].torn
    BY <1>1 DEF Legible, Whole
  <2>2. ~NewSegment.torn
    BY DEF NewSegment
  <2> QED BY <1>1, <1>3, <2>1, <2>2 DEF Legible, Whole
<1>14. Honest'
  BY <1>1, <1>3, <1>4 DEF Legible, Honest, Serving
<1> QED BY <1>7, <1>9, <1>10, <1>11, <1>12, <1>13, <1>14 DEF Legible

-----------------------------------------------------------------------------
(* Ends and starts.                                                        *)

(* What a crash does to the files.                                         *)
CutOff(fault) ==
    /\ DOMAIN seg' \subseteq DOMAIN seg /\ seg' = [i \in DOMAIN seg' |-> seg'[i]]
    /\ DOMAIN seg \ DOMAIN seg' \subseteq Gone(fault)
    /\ \A i \in DOMAIN seg' : Left(fault, i, seg'[i])

LEMMA CrashCuts ==
    ASSUME Good, NEW fault \in Faults, Crash(fault)
    PROVE  CutOff(fault)
<1>1. PICK gone \in SUBSET Gone(fault) : \E f \in Outcomes(fault) :
           seg' = [i \in DOMAIN seg \ gone |-> f[i]]
  BY DEF Crash
<1>2. PICK f \in Outcomes(fault) : seg' = [i \in DOMAIN seg \ gone |-> f[i]]
  BY <1>1
<1>3. \A i \in DOMAIN seg : Left(fault, i, f[i])
  BY OutcomesAre
<1> QED BY <1>2, <1>3 DEF CutOff

(* Only the last of the files a start will read is cut or gone.            *)
LEMMA CutLast ==
    ASSUME Good, Swept, Legible, OneKindOfFault, NEW fault \in Faults, CutOff(fault), wpc # "none"
    PROVE  \E c \in Nat :
             /\ \A i \in DOMAIN Repaired : i <= c
             /\ \A i \in DOMAIN seg \ {c} : i \in DOMAIN seg' /\ Size(seg', i) = Size(seg, i)
<1>0. Files(seg) /\ Files(acked) /\ wpc \in Serving \cup Starting
  BY Types DEF Good, Typed
<1>1. CASE fault = "kill" \/ wpc = "open"
  <2>1. PICK c \in Nat : Bound(Repaired, c)
    BY RepairedIs DEF Files
  <2>2. \A i \in DOMAIN Repaired : i <= c
    BY <2>1 DEF Bound
  <2>3. ASSUME NEW i \in DOMAIN seg PROVE i \in DOMAIN seg' /\ Size(seg', i) = Size(seg, i)
    <3>1. CASE fault = "kill"
      <4>1. i \in DOMAIN seg'
        BY <3>1 DEF CutOff, Gone
      <4> QED BY <3>1, <4>1 DEF CutOff, Left, Size
    <3>2. CASE fault # "kill" /\ wpc = "open"
      <4>1. "power" \in Faults
        BY <3>2, SpoolAssumption
      <4>2. seg[i].linked /\ seg[i].synced = Size(seg, i)
        BY <3>2, <4>1 DEF Legible, Attached, Swept
      <4>3. i \in DOMAIN seg'
        BY <4>2 DEF CutOff, Gone
      <4>4. Left(fault, i, seg'[i])
        BY <4>3 DEF CutOff
      <4>5. Size(seg, i) \in Nat /\ Size(seg', i) \in Nat
        <5>1. seg'[i].recs \in Seq(Record)
          BY <4>4 DEF Left, Segment
        <5> QED BY <1>0, <5>1, FileFields, LenProperties DEF Files, Size
      <4>6. seg[i].synced <= Size(seg', i) /\ Size(seg', i) <= Size(seg, i)
        BY <3>2, <4>4 DEF Left, Size
      <4> QED BY <4>2, <4>3, <4>5, <4>6
    <3> QED BY <1>1, <3>1, <3>2
  <2> QED BY <2>2, <2>3
<1>2. CASE fault # "kill" /\ wpc # "open"
  <2>1. "power" \in Faults
    BY <1>2, SpoolAssumption
  <2>2. Current \in DOMAIN seg /\ Current \in Nat /\ \A i \in DOMAIN seg : i <= Current
    BY <1>0, <1>2, HighestName DEF Good, Phase, Current
  <2>3. ASSUME NEW i \in DOMAIN Repaired PROVE i <= Current
    <3>1. CASE i \in DOMAIN seg
      BY <2>2, <3>1
    <3>2. CASE i \notin DOMAIN seg
      <4>1. i \in DOMAIN acked /\ i \in Nat
        BY <1>0, <3>2, RepairedIs, HighestName
      <4>2. i < Current
        BY <1>0, <4>1 DEF Legible, Named
      <4> QED BY <2>2, <4>1, <4>2
    <3> QED BY <3>1, <3>2
  <2>4. ASSUME NEW i \in DOMAIN seg \ {Current} PROVE i \in DOMAIN seg' /\ Size(seg', i) = Size(seg, i)
    <3>2. seg[i].linked /\ seg[i].synced = Size(seg, i)
      BY <2>1 DEF Legible, Attached, Swept
    <3>3. i \in DOMAIN seg'
      BY <3>2 DEF CutOff, Gone
    <3>4. Left(fault, i, seg'[i])
      BY <3>3 DEF CutOff
    <3>5. Size(seg, i) \in Nat /\ Size(seg', i) \in Nat
      <4>1. seg'[i].recs \in Seq(Record)
        BY <3>4 DEF Left, Segment
      <4> QED BY <1>0, <4>1, FileFields, LenProperties DEF Files, Size
    <3>6. seg[i].synced <= Size(seg', i) /\ Size(seg', i) <= Size(seg, i)
      BY <1>2, <3>4 DEF Left, Size
    <3> QED BY <3>2, <3>3, <3>5, <3>6
  <2> QED BY <2>2, <2>3, <2>4
<1> QED BY <1>1, <1>2

LEMMA CrashChained ==
    ASSUME Good, Swept, Legible, OneKindOfFault, NEW fault \in Faults, CutOff(fault), wpc # "none",
           acked' = acked, manifest' = manifest
    PROVE  Chained(Repaired', manifest.anchor)
<1> DEFINE s == Repaired
           t == Repaired'
<1>1. /\ Files(s) /\ DOMAIN s = DOMAIN seg \cup (DOMAIN acked \cap manifest.names)
      /\ \A i \in DOMAIN seg : s[i] = seg[i] /\ Size(s, i) = Size(seg, i)
      /\ \A i \in DOMAIN acked \cap manifest.names : s[i] = acked[i] /\ Size(s, i) = Size(acked, i)
  BY Readings
<1>2. /\ DOMAIN t = DOMAIN seg' \cup (DOMAIN acked \cap manifest.names)
      /\ t = [i \in DOMAIN t |-> t[i]]
      /\ \A i \in DOMAIN t : t[i] = IF i \in DOMAIN seg' THEN seg'[i] ELSE acked[i]
  BY DEF Repaired
<1>3. PICK c \in Nat : /\ \A i \in DOMAIN s : i <= c
                       /\ \A i \in DOMAIN seg \ {c} : i \in DOMAIN seg' /\ Size(seg', i) = Size(seg, i)
  BY CutLast
<1>4. manifest.anchor \in Nat /\ Chained(s, manifest.anchor) /\ DOMAIN seg \cap DOMAIN acked = {}
  BY DEF Legible, Linear, Named, Good, Typed
<1> HIDE DEF s, t
<1>5. ASSUME NEW i \in DOMAIN seg'
      PROVE  /\ i \in DOMAIN seg /\ t[i] = seg'[i] /\ s[i] = seg[i] /\ Size(t, i) = Size(seg', i)
             /\ Size(s, i) = Size(seg, i) /\ Left(fault, i, seg'[i])
  BY <1>1, <1>2 DEF CutOff, Size
<1>6. ASSUME NEW i \in DOMAIN acked \cap manifest.names
      PROVE  t[i] = acked[i] /\ s[i] = acked[i] /\ File(acked[i]) /\ i \notin DOMAIN seg
  BY <1>1, <1>2, <1>4, Types DEF CutOff, Files
<1>7. Less(s, t)
  <2>1. DOMAIN t \subseteq DOMAIN s
    BY <1>1, <1>2, <1>5
  <2>2. ASSUME NEW i \in DOMAIN t
        PROVE  /\ t[i] \in Segment /\ t[i].synced <= Size(t, i) /\ Size(t, i) <= Size(s, i)
               /\ \A k \in 1 .. Size(t, i) : t[i].recs[k] = s[i].recs[k]
    <3>1. CASE i \in DOMAIN seg'
      BY <1>5, <3>1 DEF Left, Size
    <3>2. CASE i \in DOMAIN acked \cap manifest.names
      <4>1. Len(acked[i].recs) \in Nat
        BY <1>6, <3>2, FileFields
      <4> QED BY <1>6, <3>2, <4>1 DEF File, Size
    <3> QED BY <1>2, <3>1, <3>2
  <2> QED BY <1>2, <2>1, <2>2 DEF Less
<1>8. ASSUME NEW i \in DOMAIN s \ {c} PROVE i \in DOMAIN t /\ Size(t, i) = Size(s, i)
  <2>1. CASE i \in DOMAIN seg
    BY <1>2, <1>3, <1>5, <2>1
  <2>2. CASE i \in DOMAIN acked \cap manifest.names
    BY <1>2, <1>6, <2>2 DEF Size
  <2> QED BY <1>1, <2>1, <2>2
<1>9. Chained(t, manifest.anchor)
  BY <1>1, <1>3, <1>4, <1>7, <1>8, ChainedLess
<1> QED BY <1>9 DEF t

LEMMA CrashLegible ==
    ASSUME Good, Durable, Legible, OneKindOfFault, NEW fault \in Faults, Crash(fault)
    PROVE  Legible'
<1>1. /\ mem' = [mem EXCEPT !.status = "down", !.accepting = FALSE]
      /\ wpc' = "none" /\ apc'.at = "idle"
      /\ acked' = acked /\ manifest' = manifest /\ cursor' = cursor
  BY DEF Crash, Idle
<1>2. CutOff(fault)
  BY CrashCuts
<1>3. mem'.anchor = mem.anchor /\ mem'.status = "down"
  BY <1>1, Types DEF Memory
<1>4. wpc # "none" /\ wpc \in Serving \cup Starting
  BY DEF Good, Phase, Typed, Crash
<1>5. /\ hist'.promised = hist.promised
      /\ hist'.lost => hist.lost \/ hist.accepted # {}
      /\ manifest.clean /\ ~hist'.cut => DOMAIN seg' = manifest.names
  <2>0. hist \in Events
    BY Types
  <2> DEFINE a == ~(hist.accepted \subseteq EventsIn(seg') \cup EventsPromised)
             b == manifest.clean /\ DOMAIN seg' # manifest.names
  <2>1. hist' = [hist EXCEPT !.accepted = {}, !.lost = @ \/ a, !.cut = @ \/ b]
    BY DEF Crash
  <2>2. a => hist.accepted # {}
    OBVIOUS
  <2>3. manifest.clean /\ ~b => DOMAIN seg' = manifest.names
    OBVIOUS
  <2> HIDE DEF a, b
  <2>4. /\ hist'.promised = hist.promised /\ hist'.lost = (hist.lost \/ a)
        /\ hist'.cut = (hist.cut \/ b)
    BY <2>0, <2>1 DEF Events
  <2> QED BY <2>2, <2>3, <2>4
<1>6. Linear'
  <2>1. Chained(Repaired', manifest.anchor)
    BY <1>1, <1>2, <1>4, CrashChained DEF Durable
  <2> QED BY <1>1, <1>3, <2>1 DEF Legible, Linear
<1>7. Named'
  <2>1. DOMAIN seg' \cap DOMAIN acked = {}
    BY <1>2 DEF CutOff, Legible, Named
  <2>2. ASSUME NEW i \in manifest.names, i \notin DOMAIN acked PROVE i \in DOMAIN seg'
    <3>1. i \in DOMAIN seg
      BY <2>2 DEF Legible, Named
    <3>2. i \notin Gone(fault)
      BY <3>1 DEF Gone, Legible, Attached
    <3> QED BY <1>2, <3>1, <3>2 DEF CutOff
  <2> QED BY <1>1, <2>1, <2>2 DEF Named, Serving, Starting, Syncing
<1>8. Acknowledged'
  BY <1>1, <1>3 DEF Acknowledged
<1>9. Pointed'
  BY <1>1, <1>5 DEF Legible, Pointed
<1>10. Attached'
  <2> SUFFICES ASSUME "power" \in Faults
               PROVE  (\A i \in DOMAIN seg' : seg'[i].linked) /\ \A i \in DOMAIN acked : acked[i].linked
    BY <1>1 DEF Attached
  <2>1. fault # "kill"
    BY DEF OneKindOfFault
  <2> QED BY <1>2, <2>1 DEF CutOff, Left, Legible, Attached
<1>11. Whole'
  <2> SUFFICES ASSUME NEW i \in DOMAIN seg', seg'[i].torn
               PROVE  i = Current' /\ (\A j \in DOMAIN acked : j < i) /\ ~manifest.clean
    BY <1>1 DEF Legible, Whole
  <2>1. i \in DOMAIN seg /\ TornBefore(fault, i)
    BY <1>2 DEF CutOff, Left
  <2>2. i = Current /\ ~manifest.clean
    <3>1. CASE seg[i].torn
      BY <1>4, <2>1, <3>1 DEF Legible, Whole, Honest, Serving
    <3>2. CASE wpc = "append" /\ i = Current
      BY <3>2 DEF Legible, Honest, Serving
    <3>3. CASE fault # "kill" /\ seg[i].synced < Size(seg, i)
      <4>1. "power" \in Faults
        BY <3>3, SpoolAssumption
      <4>2. seg[i].synced # Size(seg, i)
        <5>1. Size(seg, i) \in Nat /\ seg[i].synced \in Nat
          BY <2>1, Types, FileFields DEF Files, Size
        <5> QED BY <3>3, <5>1
      <4>3. i = Current /\ wpc \notin {"none", "open", "manifest", "opened"}
        BY <2>1, <4>1, <4>2 DEF Durable, Swept
      <4> QED BY <1>4, <4>3 DEF Legible, Honest, Starting
    <3> QED BY <2>1, <3>1, <3>2, <3>3 DEF TornBefore
  <2>3. \A j \in DOMAIN acked : j < i
    BY <1>4, <2>2 DEF Legible, Named
  <2>4. i = Current'
    <3>1. DOMAIN seg \subseteq Nat /\ \A j \in DOMAIN seg : j <= i
      BY <2>1, <2>2, Types, HighestName DEF Current
    <3>2. DOMAIN seg' \in SUBSET Nat /\ i \in DOMAIN seg' /\ \A j \in DOMAIN seg' : j <= i
      BY <1>2, <3>1 DEF CutOff
    <3>3. Max(DOMAIN seg') = i
      BY <3>2, MaxIs
    <3> QED BY <3>3 DEF Current
  <2> QED BY <2>2, <2>3, <2>4
<1>12. Honest'
  <2>1. manifest.clean => ~hist'.lost
    BY <1>5 DEF Legible, Honest, Good, Phase
  <2>2. manifest.clean => DOMAIN acked = {}
    BY <1>4 DEF Legible, Honest, Named
  <2> QED BY <1>1, <1>3, <1>5, <2>1, <2>2 DEF Honest, Serving
<1> QED BY <1>6, <1>7, <1>8, <1>9, <1>10, <1>11, <1>12 DEF Legible

(* The scan mends the only cut file, the last.                             *)
LEMMA ScannedWhole ==
    ASSUME Good, Legible, wpc = "none"
    PROVE  \A i \in DOMAIN Repaired : ~Scanned(Repaired)[i].torn
<1> DEFINE t == Repaired
<1> SUFFICES ASSUME NEW i \in DOMAIN t PROVE ~Scanned(t)[i].torn
  OBVIOUS
<1>1. /\ Files(t) /\ DOMAIN t = DOMAIN seg \cup (DOMAIN acked \cap manifest.names)
      /\ \A j \in DOMAIN seg : t[j] = seg[j]
      /\ \A j \in DOMAIN acked \cap manifest.names : t[j] = acked[j]
  BY Readings
<1>2. t[i] \in Segment
  BY <1>1, FileFields DEF Files
<1> HIDE DEF t
<1> DEFINE m == Max(DOMAIN t \cup {0})
<1>3. Scanned(t)[i] = IF i = m /\ ~manifest.clean /\ t[i].torn
                      THEN [t[i] EXCEPT !.torn = FALSE, !.synced = Len(t[i].recs)] ELSE t[i]
  BY DEF Scanned
<1>4. t[i].torn => i = m /\ ~manifest.clean
  <2> SUFFICES ASSUME t[i].torn PROVE i = m /\ ~manifest.clean
    OBVIOUS
  <2>1. i \in DOMAIN seg /\ t[i] = seg[i]
    BY <1>1 DEF Legible, Whole
  <2>2. i = Current /\ (\A j \in DOMAIN acked : j < i) /\ ~manifest.clean
    BY <2>1 DEF Legible, Whole
  <2>3. DOMAIN t \subseteq Nat /\ \A j \in DOMAIN seg : j <= i
    BY <1>1, <2>1, <2>2, Types, HighestName DEF Current
  <2>4. \A j \in DOMAIN t \cup {0} : j \in Nat /\ j <= i
    BY <1>1, <2>2, <2>3
  <2>5. m = i
    BY <2>4, MaxIs
  <2> QED BY <2>2, <2>5
<1> HIDE DEF m
<1>5. CASE t[i].torn
  BY <1>2, <1>3, <1>4, <1>5 DEF Segment
<1>6. CASE ~t[i].torn
  BY <1>3, <1>6
<1> QED BY <1>5, <1>6

(* A start finds its files readable, unless a start was cut before.        *)
LEMMA FoundReadable ==
    ASSUME Good, Durable, Legible, wpc = "none", ~hist.cut
    PROVE  Readable(Scanned(Repaired))
<1> DEFINE t == Repaired
           s == Scanned(Repaired)
           rs == Records(s)
<1>1. /\ Files(t) /\ DOMAIN t = DOMAIN seg \cup (DOMAIN acked \cap manifest.names)
      /\ \A i \in DOMAIN seg : t[i] = seg[i] /\ Size(t, i) = Size(seg, i)
  BY Readings
<1>2. Same(t, s) /\ DOMAIN s = DOMAIN t
  BY <1>1, ScannedIs
<1>3. \A i \in DOMAIN s : ~s[i].torn
  BY <1>2, ScannedWhole
<1>4. manifest.anchor \in Nat /\ Chained(t, manifest.anchor)
  BY DEF Legible, Linear, Good, Typed
<1> HIDE DEF t, s
<1>5. Files(s) /\ Recorded(s) = Recorded(t) /\ Chained(s, manifest.anchor)
  <2>1. Alike(t, s)
    BY <1>2 DEF Alike, Same
  <2> QED BY <1>1, <1>2, <1>4, <2>1, SameFiles, ChainedAlike
<1>6. \A k \in DOMAIN rs : rs[k].seq = manifest.anchor + k
  BY <1>4, <1>5, ChainRead
<1>7. /\ rs \in Seq(Record)
      /\ \A r : r \in Recorded(s) <=> \E k \in 1 .. Len(rs) : rs[k] = r
  BY <1>5, RecordsAre DEF Chained
<1>8. DOMAIN rs = 1 .. Len(rs)
  BY <1>7, LenProperties
<1> HIDE DEF rs
<1>9. cursor = manifest.anchor \/ \E k \in DOMAIN rs : rs[k].seq = cursor
  <2>1. CASE cursor = 0 /\ manifest.anchor = 0
    BY <2>1
  <2>2. CASE \E r \in hist.promised : r.seq = cursor
    <3>1. PICK r \in hist.promised : r.seq = cursor
      BY <2>2
    <3>2. r.seq >= cursor
      BY <3>1, Types
    <3>3. PICK i \in DOMAIN seg : \E k \in 1 .. Size(seg, i) : seg[i].recs[k] = r
      BY <3>2 DEF Durable, Secured, Safe
    <3>4. r \in Recorded(t)
      BY <1>1, <3>3, RecordedIs
    <3>5. \E k \in 1 .. Len(rs) : rs[k] = r
      BY <1>5, <1>7, <3>4
    <3> QED BY <1>8, <3>1, <3>5
  <2> QED BY <2>1, <2>2 DEF Legible, Pointed
<1>10. manifest.names \subseteq DOMAIN s
  BY <1>1, <1>2 DEF Legible, Named
<1>11. manifest.clean => DOMAIN s = manifest.names
  BY <1>1, <1>2 DEF Legible, Honest
<1>12. Readable(s)
  BY <1>3, <1>6, <1>9, <1>10, <1>11 DEF Readable, rs
<1> QED BY <1>12 DEF s

LEMMA OpenLegible ==
    ASSUME Good, Durable, Legible, Open
    PROVE  Legible'
<1>1. /\ manifest' = manifest /\ cursor' = cursor /\ apc' = apc /\ hist' = hist
      /\ mem.status = "down"
  BY DEF Open
<1>2. wpc = "none" /\ apc.at = "idle"
  BY <1>1 DEF Good, Phase, Serving, Idle
<1>3. CASE Readable(Scanned(Repaired))
  <2> DEFINE t == Repaired
             s == Scanned(Repaired)
  <2>1. /\ seg' = s /\ acked' = << >> /\ wpc' = "open"
        /\ mem' = [status |-> "opening", accepting |-> FALSE, queued |-> 0,
                   anchor |-> manifest.anchor, list |-> DOMAIN s]
    BY <1>3 DEF Open
  <2>2. /\ Files(t) /\ DOMAIN t = DOMAIN seg \cup (DOMAIN acked \cap manifest.names)
        /\ \A i \in DOMAIN seg : t[i] = seg[i]
        /\ \A i \in DOMAIN acked \cap manifest.names : t[i] = acked[i]
    BY Readings
  <2>3. Same(t, s) /\ DOMAIN s = DOMAIN t /\ \A i \in DOMAIN t : s[i].linked = t[i].linked
    BY <2>2, ScannedIs
  <2>4. \A i \in DOMAIN s : ~s[i].torn
    BY <1>2, <2>3, ScannedWhole
  <2>5. Chained(t, manifest.anchor)
    BY DEF Legible, Linear
  <2> HIDE DEF s, t
  <2>6. DOMAIN acked' = {} /\ mem'.anchor = manifest.anchor /\ mem'.list = DOMAIN s /\ mem'.status = "opening"
    BY <2>1, NoFiles
  <2>7. Linear'
    <3>1. Alike(t, Repaired')
      BY <2>1, <2>3, <2>6 DEF Alike, Same, Repaired
    <3> QED BY <1>1, <2>5, <2>6, <3>1, ChainedAlike DEF Linear
  <2>8. Named'
    <3>1. manifest.names \subseteq DOMAIN s
      BY <2>2, <2>3 DEF Legible, Named
    <3> QED BY <1>1, <2>1, <2>6, <3>1 DEF Named, Serving, Syncing
  <2>9. Acknowledged' /\ Pointed'
    BY <1>1, <1>2, <2>6 DEF Legible, Acknowledged, Pointed
  <2>10. Attached'
    <3> SUFFICES ASSUME "power" \in Faults, NEW i \in DOMAIN s PROVE s[i].linked
      BY <2>1, <2>6 DEF Attached
    <3>1. CASE i \in DOMAIN seg
      BY <1>2, <2>2, <2>3, <3>1 DEF Legible, Attached
    <3>2. CASE i \in DOMAIN acked \cap manifest.names
      BY <2>2, <2>3, <3>2 DEF Legible, Attached
    <3> QED BY <2>2, <2>3, <3>1, <3>2
  <2>11. Whole'
    BY <2>1, <2>4, <2>6 DEF Whole
  <2>12. Honest'
    BY <1>1, <2>1, <2>6 DEF Legible, Honest, Serving
  <2> QED BY <2>7, <2>8, <2>9, <2>10, <2>11, <2>12 DEF Legible
<1>4. CASE ~Readable(Scanned(Repaired))
  <2>1. seg' = seg /\ acked' = acked /\ wpc' = wpc /\ mem' = [mem EXCEPT !.status = "corrupt"]
    BY <1>4 DEF Open
  <2>2. mem'.status = "corrupt" /\ mem'.anchor = mem.anchor /\ mem'.list = mem.list
    BY <2>1, Types DEF Memory
  <2>3. hist.cut
    BY <1>2, <1>4, FoundReadable
  <2>4. Linear'
    <3>1. Repaired' = Repaired
      BY <1>1, <2>1 DEF Repaired
    <3> QED BY <1>1, <2>2, <3>1 DEF Legible, Linear
  <2>5. Named' /\ Acknowledged' /\ Pointed'
    <3>1. Current' = Current
      BY <2>1 DEF Current
    <3>2. Named'
      BY <1>1, <2>1, <2>2, <3>1 DEF Legible, Named
    <3> QED BY <1>1, <1>2, <2>1, <2>2, <3>2 DEF Legible, Acknowledged, Pointed
  <2>6. Attached' /\ Whole'
    BY <1>1, <2>1 DEF Legible, Attached, Whole, Current
  <2>7. Honest'
    BY <1>1, <1>2, <2>1, <2>3 DEF Legible, Honest, Serving
  <2> QED BY <2>4, <2>5, <2>6, <2>7 DEF Legible
<1> QED BY <1>3, <1>4

LEMMA InitLegible ==
    ASSUME Init
    PROVE  Legible
<1>1. /\ seg = << >> /\ acked = << >> /\ cursor = 0
      /\ manifest = [clean |-> TRUE, anchor |-> 0, names |-> {}]
      /\ mem = [status |-> "opening", accepting |-> FALSE, queued |-> 0, anchor |-> 0, list |-> {}]
      /\ wpc = "open" /\ apc = Idle
      /\ hist = [used |-> {}, accepted |-> {}, promised |-> {}, lost |-> FALSE, cut |-> FALSE]
  BY DEF Init
<1>2. DOMAIN seg = {} /\ DOMAIN acked = {}
  BY <1>1, NoFiles
<1>3. /\ manifest.anchor = 0 /\ manifest.names = {} /\ mem.anchor = 0 /\ mem.list = {}
      /\ mem.status = "opening" /\ apc.at = "idle" /\ ~hist.lost /\ wpc = "open"
  BY <1>1 DEF Idle
<1>4. Linear
  <2>1. DOMAIN Repaired = {}
    BY <1>2 DEF Repaired
  <2>2. Seqs(Repaired) = {} /\ Ordered(Repaired)
    BY <2>1 DEF Seqs, Recorded, Ordered
  <2>3. Seqs(Repaired) = (0 + 1) .. 0 /\ 0 <= 0 /\ 0 \in Nat
    BY <2>2
  <2>4. Chained(Repaired, 0)
    BY <2>2, <2>3 DEF Chained
  <2> QED BY <1>3, <2>4 DEF Linear
<1>5. Named /\ Acknowledged
  BY <1>2, <1>3 DEF Named, Acknowledged, Serving, Syncing
<1>6. Pointed /\ Attached /\ Whole /\ Honest
  BY <1>1, <1>2, <1>3 DEF Pointed, Attached, Whole, Honest, Serving
<1> QED BY <1>4, <1>5, <1>6 DEF Legible

LEMMA NextLegible ==
    ASSUME Good, Durable, Legible, OneKindOfFault, [Next]_vars
    PROVE  Legible'
<1>1. CASE \E r \in Request : Reserve(r) \/ Emit(r) \/ EmitTerminal(r) \/ PreserveTerminal(r)
  BY <1>1, RequestLegible
<1>2. CASE Writer
  <2>1. CASE AppendRecord
    BY <2>1, AppendRecordIs, AppendLegible
  <2>2. CASE RotateOpen
    BY <2>2, RotateOpenIs, WidenLegible
  <2>3. CASE Writer /\ ~AppendRecord /\ ~RotateOpen
    BY <2>3, WriterQuietLegible, ConsumerQuietLegible, RotateSyncLegible, SyncLegible,
       ManifestLegible, FlushDoneLegible DEF Writer
  <2> QED BY <1>2, <2>1, <2>2, <2>3
<1>3. CASE WriterFails
  BY <1>3, WriterFailsLegible
<1>4. CASE (\E c \in 1 .. LastSeq : AckStart(c)) \/ AckFails \/ Close
  BY <1>4, AckStartLegible, ConsumerQuietLegible, WriterQuietLegible
<1>5. CASE Acknowledge
  BY <1>5, ConsumerQuietLegible, CursorLegible, RenameLegible, RenamedLegible,
     AckManifestLegible, UnlinkLegible DEF Acknowledge
<1>6. CASE \E fault \in Faults : Crash(fault)
  BY <1>6, CrashLegible
<1>7. CASE Start
  <2>1. CASE AppendGap
    BY <2>1, AppendGapIs, AppendLegible
  <2>2. CASE OpenSegment
    BY <2>2, OpenSegmentIs, WidenLegible
  <2>3. CASE Open \/ GapSync \/ OpenManifest
    BY <2>3, OpenLegible, SyncLegible, ManifestLegible
  <2> QED BY <1>7, <2>1, <2>2, <2>3 DEF Start
<1>8. CASE UNCHANGED vars
  BY <1>8, WriterQuietLegible
<1> QED BY <1>1, <1>2, <1>3, <1>4, <1>5, <1>6, <1>7, <1>8 DEF Next

(* A start reads what the last process left, whenever that ended, unless   *)
(* an earlier start was cut between its new segment and its manifest; and  *)
(* the spool it opens hides no loss, however often the processes are       *)
(* killed, or else the power fails, at whatever step of an append, a       *)
(* rotation, an acknowledgement, a stop or a start (_initialize,           *)
(* _repair_ack_deletions, _append_gap, ack, close).                        *)
THEOREM SpoolOpensHonestly ==
    ASSUME OneKindOfFault
    PROVE  Spec => []OpensHonestly
<1> DEFINE I == Good /\ Durable /\ Legible
<1>1. Init => I
  BY InitGood, InitLegible
<1>2. I /\ [Next]_vars => I'
  BY NextMoves, NextLegible DEF Moves
<1>3. I => OpensHonestly
  BY DEF Legible, Honest, OpensHonestly, Good, Phase
<1> QED BY <1>1, <1>2, <1>3, PTL DEF Spec

-----------------------------------------------------------------------------
(* Why a reservation is authoritative.                                     *)

EventPlaces(s) == {p \in RecordPlaces(s) : s[p[1]].recs[p[2]].ev # Gap}
Taken(s)       == Cardinality(EventPlaces(s))

(* The slots held, the events on their way and those on disk have room.    *)
Counted ==
    /\ IsFiniteSet(HeldSlots) /\ IsFiniteSet(RecordPlaces(seg)) /\ IsFiniteSet(RecordPlaces(acked))
    /\ mem.queued \in Nat /\ Held + mem.queued <= Capacity
    /\ Taken(seg) + Taken(acked) + Held + mem.queued <= MaxBytes

(* Every event is submitted once, and is in one place until it is written. *)
Old(e) == e.req \in hist.used /\ e.n <= Budget[e.req] - left[e.req]

Known == Queued \cup ToSet(flight) \cup ((EventsIn(seg) \cup EventsIn(acked)) \ {Gap})

Single(q) ==
    \A i, j \in 1 .. Len(q) :
        q[i].kind = "event" /\ q[j].kind = "event" /\ q[i].ev = q[j].ev => i = j

Once ==
    /\ \A r \in Request : r \notin hist.used => left[r] = 0
    /\ \A e \in Known : Old(e)
    /\ Single(queue) /\ Queued \cap (ToSet(flight) \cup EventsIn(seg)) = {}
    /\ \A i, j \in 1 .. Len(flight) : flight[i] = flight[j] => i = j

(* At most one control command is on the queue.                            *)
Asked(q) == \E i \in 1 .. Len(q) : q[i].kind # "event"

Controlled(q) ==
    \A i, j \in 1 .. Len(q) : q[i].kind # "event" /\ q[j].kind # "event" => i = j

Controls ==
    /\ Controlled(queue)
    /\ Asked(queue) => \/ apc.at = "wait"
                       \/ apc.at = "idle" /\ ~(mem.status = "healthy" /\ mem.accepting)
    /\ \A i \in 1 .. Len(queue) : queue[i].kind = "stop" =>
         i = Len(queue) /\ ~mem.accepting /\ apc = Idle /\ \A r \in Request : left[r] = 0
    /\ wpc \notin Serving => queue = <<>>
    /\ wpc = "append" => MaintenanceFree
    /\ wpc \in {"drain", "dead"} => mem.status = "failed"

(* What waits for the writer was counted when it was submitted; of the     *)
(* batch it has taken the first w events are written.                      *)
Asking(q) == IF Asked(q) THEN 1 ELSE 0

Flown(w) ==
    /\ w \in 0 .. Len(flight)
    /\ \A k \in 1 .. Len(flight) : flight[k] \in EventsIn(seg) <=> k <= w
    /\ wpc = "batch" => w = 0
    /\ Len(queue) + Len(flight) - w <= mem.queued + Asking(queue)

Queueing ==
    /\ Len(queue) <= mem.queued + Asking(queue)
    /\ wpc \in {"batch", "append"} => \E w \in Nat : Flown(w)

Roomy == Counted /\ Once /\ Controls /\ Queueing

-----------------------------------------------------------------------------
(* Places of records.                                                      *)

LEMMA PlaceIs ==
    ASSUME NEW s, NEW p
    PROVE  /\ p \in RecordPlaces(s) <=> \E i \in DOMAIN s : \E k \in 1 .. Size(s, i) : p = <<i, k>>
           /\ p \in EventPlaces(s) <=>
                \E i \in DOMAIN s : \E k \in 1 .. Size(s, i) : p = <<i, k>> /\ s[i].recs[k].ev # Gap
<1>1. p \in RecordPlaces(s) <=> \E i \in DOMAIN s : \E k \in 1 .. Size(s, i) : p = <<i, k>>
  BY DEF RecordPlaces, Size
<1>2. p \in EventPlaces(s) <=> p \in RecordPlaces(s) /\ s[p[1]].recs[p[2]].ev # Gap
  BY DEF EventPlaces
<1>3. \A i, k : <<i, k>>[1] = i /\ <<i, k>>[2] = k
  OBVIOUS
<1> QED BY <1>1, <1>2, <1>3

LEMMA EventPlacesFinite ==
    ASSUME NEW s, IsFiniteSet(RecordPlaces(s))
    PROVE  /\ IsFiniteSet(EventPlaces(s)) /\ Taken(s) \in Nat /\ Taken(s) <= Cardinality(RecordPlaces(s))
           /\ Cardinality(RecordPlaces(s)) \in Nat
<1>1. EventPlaces(s) \in SUBSET RecordPlaces(s)
  BY DEF EventPlaces
<1> QED BY <1>1, FS_Subset, FS_CardinalityType DEF Taken

LEMMA EventsInAre ==
    ASSUME NEW s, Files(s), NEW e
    PROVE  e \in EventsIn(s) <=> \E i \in DOMAIN s : \E k \in 1 .. Size(s, i) : s[i].recs[k].ev = e
<1>1. e \in EventsIn(s) <=> \E r \in Recorded(s) : r.ev = e
  BY DEF EventsIn
<1>2. \A r : r \in Recorded(s) <=> \E i \in DOMAIN s : \E k \in 1 .. Size(s, i) : s[i].recs[k] = r
  BY RecordedIs
<1> QED BY <1>1, <1>2

(* Fewer places, fewer records.                                            *)
Within(s, t) ==
    /\ RecordPlaces(t) \subseteq RecordPlaces(s) /\ EventPlaces(t) \subseteq EventPlaces(s)
    /\ EventsIn(t) \subseteq EventsIn(s)

LEMMA LessWithin ==
    ASSUME NEW s, NEW t, Files(s), Less(s, t)
    PROVE  Within(s, t)
<1>1. Files(t)
  BY LessFiles
<1>2. ASSUME NEW i \in DOMAIN t, NEW k \in 1 .. Size(t, i)
      PROVE  i \in DOMAIN s /\ k \in 1 .. Size(s, i) /\ t[i].recs[k] = s[i].recs[k]
  <2>1. i \in DOMAIN s /\ Size(t, i) <= Size(s, i) /\ t[i].recs[k] = s[i].recs[k]
    BY DEF Less
  <2>2. Size(t, i) \in Nat /\ Size(s, i) \in Nat
    BY <1>1, <2>1, FileFields DEF Files, Size
  <2> QED BY <2>1, <2>2
<1>3. RecordPlaces(t) \subseteq RecordPlaces(s) /\ EventPlaces(t) \subseteq EventPlaces(s)
  BY <1>2, PlaceIs
<1>4. EventsIn(t) \subseteq EventsIn(s)
  BY <1>1, <1>2, EventsInAre
<1> QED BY <1>3, <1>4 DEF Within

(* The same records, and perhaps an empty file more.                       *)
Padded(s, t) ==
    /\ DOMAIN s \subseteq DOMAIN t /\ \A i \in DOMAIN s : t[i].recs = s[i].recs
    /\ \A i \in DOMAIN t \ DOMAIN s : t[i].recs = <<>>

Level(s, t) ==
    /\ RecordPlaces(t) = RecordPlaces(s) /\ EventPlaces(t) = EventPlaces(s)
    /\ EventsIn(t) = EventsIn(s)

LEMMA AlikeLevel ==
    ASSUME NEW s, NEW t, Padded(s, t)
    PROVE  Level(s, t)
<1>1. ASSUME NEW i \in DOMAIN t \ DOMAIN s PROVE Size(t, i) = 0 /\ ToSet(t[i].recs) = {}
  BY DEF Padded, Size, ToSet
<1>2. \A i \in DOMAIN s : i \in DOMAIN t /\ Size(t, i) = Size(s, i) /\ t[i].recs = s[i].recs
  BY DEF Padded, Size
<1>3. \A i \in DOMAIN t \ DOMAIN s : \A k \in 1 .. Size(t, i) : FALSE
  BY <1>1
<1>4. RecordPlaces(t) = RecordPlaces(s) /\ EventPlaces(t) = EventPlaces(s)
  <2>1. ASSUME NEW x PROVE x \in RecordPlaces(t) <=> x \in RecordPlaces(s)
    BY <1>2, <1>3, PlaceIs
  <2>2. ASSUME NEW x PROVE x \in EventPlaces(t) <=> x \in EventPlaces(s)
    BY <1>2, <1>3, PlaceIs
  <2> QED BY <2>1, <2>2
<1>5. Recorded(t) = Recorded(s)
  BY <1>1, <1>2 DEF Recorded
<1> QED BY <1>4, <1>5 DEF Level, EventsIn

LEMMA SameLevel ==
    ASSUME NEW s, NEW t, Same(s, t)
    PROVE  Level(s, t)
<1>1. Padded(s, t)
  BY DEF Same, Padded
<1> QED BY <1>1, AlikeLevel

(* A record more.                                                          *)
LEMMA AddedPlaces ==
    ASSUME NEW s, NEW t, Files(s), NEW c \in DOMAIN s, NEW r, Appended(s, t, c, r),
           t[c].recs[Size(s, c) + 1] = r, IsFiniteSet(RecordPlaces(s))
    PROVE  /\ IsFiniteSet(RecordPlaces(t)) /\ Taken(t) <= Taken(s) + 1
           /\ r.ev = Gap => Taken(t) = Taken(s)
           /\ EventsIn(t) = EventsIn(s) \cup {r.ev}
<1> DEFINE p == <<c, Size(s, c) + 1>>
<1>1. ASSUME NEW i \in DOMAIN s
      PROVE  /\ Size(t, i) = Size(s, i) + (IF i = c THEN 1 ELSE 0) /\ Size(s, i) \in Nat
             /\ \A k \in 1 .. Size(s, i) : t[i].recs[k] = s[i].recs[k]
  BY FileFields DEF Appended, Files, Size
<1>2. ASSUME NEW i \in DOMAIN s, NEW k
      PROVE  k \in 1 .. Size(t, i) <=> k \in 1 .. Size(s, i) \/ (i = c /\ k = Size(s, c) + 1)
  BY <1>1
<1>3. DOMAIN t = DOMAIN s
  BY DEF Appended
<1>4. RecordPlaces(t) = RecordPlaces(s) \cup {p}
  <2>1. ASSUME NEW x PROVE x \in RecordPlaces(t) <=> x \in RecordPlaces(s) \/ x = p
    BY <1>2, <1>3, PlaceIs
  <2> QED BY <2>1
<1>5. IsFiniteSet(RecordPlaces(t))
  BY <1>4, FS_AddElement
<1>6. EventPlaces(t) = IF r.ev = Gap THEN EventPlaces(s) ELSE EventPlaces(s) \cup {p}
  <2>1. ASSUME NEW x
        PROVE  x \in EventPlaces(t) <=> x \in EventPlaces(s) \/ (x = p /\ r.ev # Gap)
    <3>1. x \in EventPlaces(t) <=>
            \E i \in DOMAIN s : \E k \in 1 .. Size(t, i) : x = <<i, k>> /\ t[i].recs[k].ev # Gap
      BY <1>3, PlaceIs
    <3>2. x \in EventPlaces(s) <=>
            \E i \in DOMAIN s : \E k \in 1 .. Size(s, i) : x = <<i, k>> /\ t[i].recs[k].ev # Gap
      BY <1>1, PlaceIs
    <3> QED BY <1>2, <3>1, <3>2
  <2> QED BY <2>1
<1>7. /\ IsFiniteSet(EventPlaces(s))
      /\ Cardinality(EventPlaces(s) \cup {p}) <= Cardinality(EventPlaces(s)) + 1
      /\ Cardinality(EventPlaces(s)) \in Nat
  <2>1. IsFiniteSet(EventPlaces(s)) /\ Cardinality(EventPlaces(s)) \in Nat
    BY EventPlacesFinite DEF Taken
  <2>2. Cardinality(EventPlaces(s) \cup {p}) =
          IF p \in EventPlaces(s) THEN Cardinality(EventPlaces(s)) ELSE Cardinality(EventPlaces(s)) + 1
    BY <2>1, FS_AddElement
  <2> HIDE DEF p
  <2> QED BY <2>1, <2>2
<1>8. EventsIn(t) = EventsIn(s) \cup {r.ev}
  BY DEF Appended, EventsIn
<1> HIDE DEF p
<1> QED BY <1>5, <1>6, <1>7, <1>8 DEF Taken

-----------------------------------------------------------------------------
(* Slots.                                                                  *)

LEMMA EventHas ==
    ASSUME NEW e \in Event
    PROVE  e.req \in Request /\ e.n \in 1 .. Budget[e.req] /\ e.n \in Nat /\ e = [req |-> e.req, n |-> e.n]
<1>1. PICK r \in Request : e \in [req : {r}, n : 1 .. Budget[r]]
  BY DEF Event
<1>2. Budget[r] \in Nat
  BY SpoolAssumption
<1> QED BY <1>1, <1>2

LEMMA HeldNat ==
    ASSUME Counted
    PROVE  Held \in Nat
  BY FS_CardinalityType DEF Counted, Held

(* No slot is held only where no request holds one.                        *)
LEMMA NoneHeld ==
    ASSUME Good, Counted, Held = 0
    PROVE  \A r \in Request : left[r] = 0
<1>1. HeldSlots = {}
  BY FS_EmptySet DEF Counted, Held
<1> SUFFICES ASSUME NEW r \in Request, left[r] # 0 PROVE FALSE
  OBVIOUS
<1>2. left[r] \in Nat /\ left[r] <= Budget[r] /\ Budget[r] \in Nat
  BY Types, SpoolAssumption DEF Slots
<1>3. 1 \in 1 .. Budget[r] /\ 1 <= left[r]
  BY <1>2
<1> DEFINE e == [req |-> r, n |-> 1]
<1>4. e \in Event /\ e.req = r /\ e.n = 1
  BY <1>3, EventIs
<1> HIDE DEF e
<1>5. e \in HeldSlots
  BY <1>3, <1>4 DEF HeldSlots
<1> QED BY <1>1, <1>5

(* Slots are given back.                                                   *)
LEMMA HeldLess ==
    ASSUME IsFiniteSet(HeldSlots), HeldSlots' \subseteq HeldSlots
    PROVE  IsFiniteSet(HeldSlots') /\ Held' \in Nat /\ Held' <= Held /\ Held \in Nat
<1> DEFINE S == HeldSlots
           T == HeldSlots'
<1>1. IsFiniteSet(S) /\ T \in SUBSET S /\ Held = Cardinality(S) /\ Held' = Cardinality(T)
  BY DEF Held
<1> HIDE DEF S, T
<1>2. IsFiniteSet(T) /\ Cardinality(T) <= Cardinality(S)
  BY <1>1, FS_Subset
<1> QED BY <1>1, <1>2, FS_CardinalityType DEF T

(* Of the slots of a request one at least is given back.                   *)
LEMMA HeldFewer ==
    ASSUME Good, IsFiniteSet(HeldSlots), NEW r \in Request, NEW n \in Nat, n < left[r],
           left' = [left EXCEPT ![r] = n]
    PROVE  /\ IsFiniteSet(HeldSlots') /\ HeldSlots' \subseteq HeldSlots
           /\ Held' \in Nat /\ Held \in Nat /\ Held' + 1 <= Held
<1> DEFINE e == [req |-> r, n |-> left[r]]
           S == HeldSlots
           T == HeldSlots'
<1>1. /\ left \in [Request -> Nat] /\ left[r] \in Nat /\ left[r] <= Budget[r] /\ Budget[r] \in Nat
  BY Types, SpoolAssumption DEF Slots
<1>2. left[r] \in 1 .. Budget[r]
  BY <1>1
<1>3. e \in Event /\ e.req = r /\ e.n = left[r]
  BY <1>2, EventIs
<1>4. e \in S
  BY <1>1, <1>3 DEF HeldSlots
<1>5. left'[r] = n /\ \A q \in Request \ {r} : left'[q] = left[q]
  BY <1>1
<1>6. ASSUME NEW x \in T PROVE x \in S /\ x # e
  <2>1. x \in Event /\ x.n <= left'[x.req]
    BY DEF HeldSlots
  <2>2. x.req \in Request /\ x.n \in Nat
    BY <2>1, EventHas
  <2>3. CASE x.req = r
    <3>1. x.n <= n
      BY <1>5, <2>1, <2>3
    <3>2. x.n <= left[r] /\ x.n # left[r]
      BY <1>1, <2>2, <3>1
    <3> QED BY <1>3, <2>1, <2>3, <3>2 DEF HeldSlots
  <2>4. CASE x.req # r
    <3>1. left'[x.req] = left[x.req]
      BY <1>5, <2>2, <2>4
    <3> QED BY <1>3, <2>1, <2>4, <3>1 DEF HeldSlots
  <2> QED BY <2>3, <2>4
<1>7. IsFiniteSet(S) /\ Held = Cardinality(S) /\ Held' = Cardinality(T)
  BY DEF Held
<1> HIDE DEF S, T, e
<1>8. T \in SUBSET (S \ {e}) /\ T \subseteq S
  BY <1>6
<1>9. IsFiniteSet(S \ {e}) /\ Cardinality(S \ {e}) = Cardinality(S) - 1
  BY <1>4, <1>7, FS_RemoveElement
<1>10. IsFiniteSet(T) /\ Cardinality(T) <= Cardinality(S \ {e})
  BY <1>8, <1>9, FS_Subset
<1>11. Cardinality(S) \in Nat /\ Cardinality(T) \in Nat
  BY <1>7, <1>10, FS_CardinalityType
<1> QED BY <1>7, <1>8, <1>9, <1>10, <1>11 DEF S, T

(* A request takes the slots it asked for, less the one it uses at once.   *)
LEMMA HeldMore ==
    ASSUME Good, IsFiniteSet(HeldSlots), NEW r \in Request, left[r] = 0,
           left' = [left EXCEPT ![r] = Budget[r] - 1]
    PROVE  IsFiniteSet(HeldSlots') /\ Held' \in Nat /\ Held \in Nat /\ Held' + 1 <= Held + Budget[r]
<1> DEFINE S == HeldSlots
           T == HeldSlots'
           b == Budget[r] - 1
           f == [k \in 1 .. b |-> [req |-> r, n |-> k]]
           N == {f[k] : k \in 1 .. b}
<1>1. left \in [Request -> Nat] /\ Budget[r] \in Nat /\ Budget[r] >= 2
  BY Types, SpoolAssumption DEF Slots
<1>2. b \in Nat
  BY <1>1
<1>3. left'[r] = b /\ \A q \in Request \ {r} : left'[q] = left[q]
  BY <1>1
<1>4. IsFiniteSet(1 .. b) /\ Cardinality(1 .. b) = b
  <2>1. 1 \in Int /\ b \in Int /\ (IF 1 > b THEN 0 ELSE b - 1 + 1) = b
    BY <1>2
  <2> HIDE DEF b
  <2>2. IsFiniteSet(1 .. b) /\ Cardinality(1 .. b) = IF 1 > b THEN 0 ELSE b - 1 + 1
    BY <2>1, FS_Interval
  <2> QED BY <2>1, <2>2
<1> HIDE DEF b
<1>5. IsFiniteSet(N) /\ Cardinality(N) <= b
  <2>1. f \in Surjection(1 .. b, N)
    BY DEF Surjection
  <2> HIDE DEF f, N
  <2> QED BY <1>4, <2>1, FS_Surjection
<1>6. ASSUME NEW x \in T PROVE x \in S \/ x \in N
  <2>1. x \in Event /\ x.n <= left'[x.req]
    BY DEF HeldSlots
  <2>2. x.req \in Request /\ x.n \in 1 .. Budget[x.req] /\ x.n \in Nat /\ x = [req |-> x.req, n |-> x.n]
    BY <2>1, EventHas
  <2>3. CASE x.req = r
    <3>1. x.n \in 1 .. b
      <4>1. x.n <= b /\ x.n \in 1 .. Budget[r]
        BY <1>3, <2>1, <2>2, <2>3
      <4> QED BY <1>1, <1>2, <4>1
    <3>2. x = f[x.n]
      BY <2>2, <2>3, <3>1
    <3> QED BY <3>1, <3>2
  <2>4. CASE x.req # r
    <3>1. left'[x.req] = left[x.req]
      BY <1>3, <2>2, <2>4
    <3> QED BY <2>1, <3>1 DEF HeldSlots
  <2> QED BY <2>3, <2>4
<1>7. IsFiniteSet(S) /\ Held = Cardinality(S) /\ Held' = Cardinality(T)
  BY DEF Held
<1> HIDE DEF S, T, N
<1>8. T \in SUBSET (S \cup N)
  BY <1>6
<1>9. /\ IsFiniteSet(S \cup N) /\ IsFiniteSet(S \cap N)
      /\ Cardinality(S \cup N) = Cardinality(S) + Cardinality(N) - Cardinality(S \cap N)
  BY <1>5, <1>7, FS_Union, FS_Intersection
<1>10. IsFiniteSet(T) /\ Cardinality(T) <= Cardinality(S \cup N)
  BY <1>8, <1>9, FS_Subset
<1>11. /\ Cardinality(S) \in Nat /\ Cardinality(T) \in Nat /\ Cardinality(N) \in Nat
       /\ Cardinality(S \cap N) \in Nat /\ Cardinality(S \cup N) \in Nat
  BY <1>5, <1>7, <1>9, <1>10, FS_CardinalityType
<1>12. Cardinality(T) <= Cardinality(S) + b
  BY <1>2, <1>5, <1>9, <1>10, <1>11
<1>13. Cardinality(T) + 1 <= Cardinality(S) + Budget[r]
  BY <1>1, <1>11, <1>12 DEF b
<1> QED BY <1>7, <1>10, <1>11, <1>13 DEF T

-----------------------------------------------------------------------------
(* The queue.                                                              *)

(* Its first d commands go.                                                *)
Dropped(q, p, d) ==
    /\ d \in Nat /\ Len(p) \in Nat /\ Len(q) \in Nat /\ Len(p) + d = Len(q)
    /\ \A i \in 1 .. Len(p) : p[i] = q[i + d]

LEMMA DroppedIs ==
    ASSUME NEW q, NEW p, NEW d, Dropped(q, p, d)
    PROVE  /\ EventsOf(p) \subseteq EventsOf(q) /\ (Asked(p) => Asked(q))
           /\ Single(q) => Single(p)
           /\ Controlled(q) => Controlled(p)
<1>1. d \in Nat /\ \A i \in 1 .. Len(p) : i + d \in 1 .. Len(q) /\ p[i] = q[i + d] /\ i \in Nat
  BY DEF Dropped
<1>2. EventsOf(p) \subseteq EventsOf(q)
  BY <1>1 DEF EventsOf
<1>3. Asked(p) => Asked(q)
  BY <1>1 DEF Asked
<1>4. \A i, j \in 1 .. Len(p) : i + d = j + d => i = j
  BY <1>1
<1>5. Single(q) => Single(p)
  BY <1>1, <1>4 DEF Single
<1>6. Controlled(q) => Controlled(p)
  BY <1>1, <1>4 DEF Controlled
<1> QED BY <1>2, <1>3, <1>5, <1>6

(* A command more.                                                         *)
LEMMA AppendedIs ==
    ASSUME NEW q \in Seq(Command), NEW c \in Command
    PROVE  /\ Len(Append(q, c)) = Len(q) + 1 /\ Len(q) \in Nat
           /\ \A i \in 1 .. Len(q) : Append(q, c)[i] = q[i]
           /\ Append(q, c)[Len(q) + 1] = c
           /\ EventsOf(Append(q, c)) = EventsOf(q) \cup (IF c.kind = "event" THEN {c.ev} ELSE {})
           /\ Asked(Append(q, c)) <=> Asked(q) \/ c.kind # "event"
           /\ Single(q) /\ (c.kind = "event" => c.ev \notin EventsOf(q)) => Single(Append(q, c))
           /\ Controlled(q) /\ (c.kind # "event" => ~Asked(q)) => Controlled(Append(q, c))
<1> DEFINE p == Append(q, c)
           n == Len(q)
<1>1. /\ Len(p) = n + 1 /\ n \in Nat /\ p[n + 1] = c /\ \A i \in 1 .. n : p[i] = q[i]
  BY AppendProperties, LenProperties
<1> HIDE DEF p
<1>2. \A i : i \in 1 .. Len(p) <=> i \in 1 .. n \/ i = n + 1
  BY <1>1
<1>3. EventsOf(p) = EventsOf(q) \cup (IF c.kind = "event" THEN {c.ev} ELSE {})
  <2>1. ASSUME NEW e PROVE e \in EventsOf(p) <=> e \in EventsOf(q) \/ (c.kind = "event" /\ e = c.ev)
    <3>1. e \in EventsOf(p) <=> \E i \in 1 .. Len(p) : p[i].kind = "event" /\ p[i].ev = e
      BY DEF EventsOf
    <3>2. e \in EventsOf(q) <=> \E i \in 1 .. n : q[i].kind = "event" /\ q[i].ev = e
      BY DEF EventsOf
    <3> QED BY <1>1, <1>2, <3>1, <3>2
  <2> QED BY <2>1
<1>4. Asked(p) <=> Asked(q) \/ c.kind # "event"
  BY <1>1, <1>2 DEF Asked
<1>5. ASSUME Single(q), c.kind = "event" => c.ev \notin EventsOf(q) PROVE Single(p)
  <2>1. ASSUME NEW i \in 1 .. n, q[i].kind = "event" PROVE q[i].ev \in EventsOf(q)
    BY <2>1 DEF EventsOf
  <2> QED BY <1>1, <1>2, <1>5, <2>1 DEF Single
<1>6. ASSUME Controlled(q), c.kind # "event" => ~Asked(q) PROVE Controlled(p)
  BY <1>1, <1>2, <1>6 DEF Controlled, Asked
<1> QED BY <1>1, <1>3, <1>4, <1>5, <1>6 DEF p

(* Nothing is on an empty queue.                                           *)
LEMMA EmptyIs ==
    /\ Len(<<>>) = 0 /\ EventsOf(<<>>) = {} /\ ~Asked(<<>>) /\ Single(<<>>) /\ Controlled(<<>>)
    /\ ToSet(<<>>) = {}
<1>1. Len(<<>>) = 0 /\ \A i \in 1 .. Len(<<>>) : FALSE
  OBVIOUS
<1> QED BY <1>1 DEF EventsOf, Asked, Single, Controlled, ToSet

-----------------------------------------------------------------------------
(* What keeps the parts of the invariant.                                  *)

Stored ==
    /\ IsFiniteSet(RecordPlaces(seg')) /\ IsFiniteSet(RecordPlaces(acked'))
    /\ Taken(seg') + Taken(acked') <= Taken(seg) + Taken(acked)

LEMMA CountedLess ==
    ASSUME Counted, Stored, HeldSlots' \subseteq HeldSlots, mem'.queued \in Nat, mem'.queued <= mem.queued
    PROVE  Counted'
<1>1. /\ IsFiniteSet(HeldSlots') /\ Held' \in Nat /\ Held' <= Held /\ Held \in Nat
  BY HeldLess DEF Counted
<1>2. Taken(seg) \in Nat /\ Taken(acked) \in Nat /\ Taken(seg') \in Nat /\ Taken(acked') \in Nat
  BY EventPlacesFinite DEF Counted, Stored
<1>3. Held' + mem'.queued <= Capacity
  BY <1>1, SpoolAssumption DEF Counted
<1>4. Taken(seg') + Taken(acked') + Held' + mem'.queued <= MaxBytes
  BY <1>1, <1>2, SpoolAssumption DEF Counted, Stored
<1> QED BY <1>1, <1>3, <1>4 DEF Counted, Stored

LEMMA KnownEvents ==
    ASSUME Good
    PROVE  Known \subseteq Event
<1>1. Queued \subseteq Event
  <2> SUFFICES ASSUME NEW i \in 1 .. Len(queue), queue[i].kind = "event" PROVE queue[i].ev \in Event
    BY DEF Queued
  <2>1. queue[i] \in Command
    BY Types, ElementOfSeq
  <2> QED BY <2>1 DEF Command
<1>2. ToSet(flight) \subseteq Event
  BY Types, LenProperties, ElementOfSeq DEF ToSet
<1>3. ASSUME NEW s, Files(s) PROVE EventsIn(s) \subseteq Event \cup {Gap}
  <2> SUFFICES ASSUME NEW i \in DOMAIN s, NEW k \in 1 .. Size(s, i) PROVE s[i].recs[k].ev \in Event \cup {Gap}
    BY <1>3, EventsInAre
  <2>1. s[i].recs[k] \in Record
    BY <1>3, FileFields DEF Files, Size
  <2> QED BY <2>1 DEF Record
<1> QED BY <1>1, <1>2, <1>3, Types DEF Known

(* No event more is known, and none is in two places.                      *)
LEMMA OnceLess ==
    ASSUME Good, Once, Known' \subseteq Known, Queued' \cap (ToSet(flight') \cup EventsIn(seg')) = {},
           Single(queue'), flight' = flight \/ flight' = <<>>, hist'.used = hist.used,
           \A r \in Request : left'[r] \in Nat /\ left'[r] <= left[r]
    PROVE  Once'
<1>1. \A r \in Request : left[r] \in Nat /\ Budget[r] \in Nat
  BY Types, SpoolAssumption DEF Slots
<1>2. \A r \in Request : r \notin hist'.used => left'[r] = 0
  BY <1>1 DEF Once
<1>3. ASSUME NEW e \in Known' PROVE e.req \in hist.used /\ e.n <= Budget[e.req] - left'[e.req]
  <2>1. e \in Event /\ Old(e)
    BY KnownEvents DEF Once
  <2>2. e.req \in Request /\ e.n \in Nat
    BY <2>1, EventHas
  <2> DEFINE b == Budget[e.req]
             l == left[e.req]
             m == left'[e.req]
  <2>3. e.n <= b - l /\ m <= l /\ b \in Nat /\ l \in Nat /\ m \in Nat /\ e.req \in hist.used
    BY <1>1, <2>1, <2>2 DEF Old
  <2> HIDE DEF b, l, m
  <2>4. e.n <= b - m
    BY <2>2, <2>3
  <2> QED BY <2>3, <2>4 DEF b, m
<1>4. \A i, j \in 1 .. Len(flight') : flight'[i] = flight'[j] => i = j
  BY EmptyIs DEF Once
<1>5. \A e \in Known' : Old(e)'
  BY <1>3 DEF Old
<1> QED BY <1>2, <1>4, <1>5 DEF Once

(* The queue stays.                                                        *)
LEMMA ControlsQuiet ==
    ASSUME Controls, queue' = queue, apc' = apc, mem'.accepting => mem.accepting,
           mem'.status = "healthy" => mem.status = "healthy",
           \A r \in Request : left[r] = 0 => left'[r] = 0,
           wpc' \notin Serving => wpc \notin Serving, wpc' = "append" => wpc = "append",
           wpc' \in {"drain", "dead"} => mem'.status = "failed"
    PROVE  Controls'
  BY DEF Controls, MaintenanceFree

(* No control command is on it.                                            *)
LEMMA ControlsSilent ==
    ASSUME ~Asked(queue'), wpc' \notin Serving => queue' = <<>>,
           wpc' = "append" => MaintenanceFree', wpc' \in {"drain", "dead"} => mem'.status = "failed"
    PROVE  Controls'
<1>1. \A i \in 1 .. Len(queue') : ~(queue'[i].kind # "event")
  BY DEF Asked
<1> QED BY <1>1 DEF Controls, Controlled

LEMMA QueueingQuiet ==
    ASSUME Queueing, queue' = queue, mem'.queued = mem.queued,
           wpc' \in {"batch", "append"} =>
             wpc' = wpc /\ flight' = flight
             /\ (EventsIn(seg') = EventsIn(seg) \/ (wpc = "batch" /\ EventsIn(seg') \subseteq EventsIn(seg)))
    PROVE  Queueing'
<1>1. Len(queue') <= mem'.queued + Asking(queue')
  BY DEF Queueing
<1>2. ASSUME wpc' \in {"batch", "append"} PROVE \E w \in Nat : Flown(w)'
  <2>1. PICK w \in Nat : Flown(w)
    BY <1>2 DEF Queueing
  <2>2. w \in 0 .. Len(flight') /\ (wpc' = "batch" => w = 0)
    BY <1>2, <2>1 DEF Flown
  <2>3. Len(queue') + Len(flight') - w <= mem'.queued + Asking(queue')
    BY <1>2, <2>1 DEF Flown
  <2>4. ASSUME NEW k \in 1 .. Len(flight) PROVE flight[k] \in EventsIn(seg') <=> k <= w
    <3>1. CASE EventsIn(seg') = EventsIn(seg)
      BY <2>1, <3>1 DEF Flown
    <3>2. CASE wpc = "batch" /\ EventsIn(seg') \subseteq EventsIn(seg)
      <4>1. w = 0 /\ ~(k <= w)
        BY <2>1, <3>2 DEF Flown
      <4>2. flight[k] \notin EventsIn(seg)
        BY <2>1, <4>1 DEF Flown
      <4> QED BY <3>2, <4>1, <4>2
    <3> QED BY <1>2, <3>1, <3>2
  <2> QED BY <1>2, <2>2, <2>3, <2>4 DEF Flown
<1> QED BY <1>1, <1>2 DEF Queueing

LEMMA QueueingEmpty ==
    ASSUME queue' = <<>>, mem'.queued \in Nat, wpc' \notin {"batch", "append"}
    PROVE  Queueing'
<1>1. Len(queue') = 0 /\ Asking(queue') \in Nat
  BY EmptyIs DEF Asking
<1>2. 0 <= mem'.queued + Asking(queue')
  BY <1>1
<1> QED BY <1>1, <1>2 DEF Queueing

-----------------------------------------------------------------------------
(* The request path.                                                       *)

LEMMA NotGap == ASSUME NEW e \in Event PROVE e # Gap
<1>1. e.n \in 1 .. Budget[e.req] /\ e.n \in Nat
  BY EventHas
<1>2. Gap.n = 0
  BY DEF Gap
<1> QED BY <1>1, <1>2

(* An event that was not submitted before.                                 *)
Unseen(r, e, rest) ==
    /\ e.n <= Budget[r] - rest
    /\ r \notin hist.used \/ (e.n > Budget[r] - left[r] /\ rest <= left[r])

Affords ==
    /\ IsFiniteSet(HeldSlots') /\ Held' \in Nat /\ Held' + mem.queued + 1 <= Capacity
    /\ Taken(seg) + Taken(acked) + Held' + mem.queued + 1 <= MaxBytes

LEMMA SubmitRoomy ==
    ASSUME Good, Roomy, NEW r \in Request, NEW e \in Event, e.req = r, NEW rest \in Nat,
           Submit(e, rest), UNCHANGED <<disk, flight, wpc, apc, kept, count>>,
           Unseen(r, e, rest), Affords, mem.accepting \/ left[r] # 0
    PROVE  Roomy'
<1> DEFINE c == EventCommand(e)
<1>1. /\ mem.status = "healthy" /\ left' = [left EXCEPT ![r] = rest] /\ queue' = Append(queue, c)
      /\ mem' = [mem EXCEPT !.queued = @ + 1]
      /\ hist' = [hist EXCEPT !.accepted = @ \cup {e}, !.used = @ \cup {r}]
      /\ seg' = seg /\ acked' = acked /\ flight' = flight /\ wpc' = wpc /\ apc' = apc
  BY DEF Submit, disk
<1>2. /\ mem'.queued = mem.queued + 1 /\ mem'.status = "healthy" /\ mem'.accepting = mem.accepting
  BY <1>1, Types DEF Memory
<1>3. hist'.used = hist.used \cup {r}
  BY <1>1, Types DEF Events
<1>4. c \in Command /\ c.kind = "event" /\ c.ev = e
  BY DEF Command, EventCommand
<1> HIDE DEF c
<1>5. /\ Len(queue') = Len(queue) + 1 /\ Len(queue) \in Nat
      /\ EventsOf(queue') = EventsOf(queue) \cup {e} /\ (Asked(queue') <=> Asked(queue))
      /\ \A i \in 1 .. Len(queue) : queue'[i] = queue[i]
      /\ queue'[Len(queue) + 1] = c
      /\ Single(queue) /\ e \notin EventsOf(queue) => Single(queue')
      /\ Controlled(queue) => Controlled(queue')
  BY <1>1, <1>4, Types, AppendedIs
<1>6. left \in [Request -> Nat] /\ \A x \in Request : left[x] \in Nat /\ Budget[x] \in Nat
  BY Types, SpoolAssumption DEF Slots
<1>7. left'[r] = rest /\ \A x \in Request \ {r} : left'[x] = left[x]
  BY <1>1, <1>6
<1>8. e \notin Known
  <2> SUFFICES ASSUME e \in Known PROVE FALSE
    OBVIOUS
  <2>1. e.req \in hist.used /\ e.n <= Budget[e.req] - left[e.req]
    BY DEF Roomy, Once, Old
  <2>2. e.n > Budget[r] - left[r] /\ e.n \in Nat
    BY <2>1, EventHas DEF Unseen
  <2> QED BY <1>6, <2>1, <2>2
<1>9. Counted'
  <2>1. Counted /\ Affords
    BY DEF Roomy
  <2>2. Held' + mem'.queued <= Capacity
    BY <1>2, <2>1, SpoolAssumption DEF Counted, Affords
  <2>3. Taken(seg') + Taken(acked') + Held' + mem'.queued <= MaxBytes
    <3>1. Taken(seg) \in Nat /\ Taken(acked) \in Nat
      BY <2>1, EventPlacesFinite DEF Counted
    <3>2. seg' = seg /\ acked' = acked
      BY <1>1
    <3>3. Taken(seg') = Taken(seg) /\ Taken(acked') = Taken(acked)
      BY <3>2
    <3> QED BY <1>2, <2>1, <3>1, <3>3, SpoolAssumption DEF Counted, Affords
  <2>4. mem'.queued \in Nat
    BY <1>2, <2>1 DEF Counted
  <2> QED BY <1>1, <2>1, <2>2, <2>3, <2>4 DEF Counted, Affords
<1>10. Once'
  <2>1. \A x \in Request : x \notin hist'.used => left'[x] = 0
    BY <1>3, <1>7 DEF Roomy, Once
  <2>2. Known' = Known \cup {e}
    BY <1>1, <1>5, NotGap DEF Known, Queued, EventsOf
  <2>3. ASSUME NEW x \in Known' PROVE x.req \in hist'.used /\ x.n <= Budget[x.req] - left'[x.req]
    <3>1. CASE x = e
      BY <1>3, <1>7, <3>1 DEF Unseen
    <3>2. CASE x # e
      <4>1. x \in Known /\ x \in Event
        BY <2>2, <3>2, KnownEvents
      <4>2. x.req \in hist.used /\ x.n <= Budget[x.req] - left[x.req]
        BY <4>1 DEF Roomy, Once, Old
      <4>3. x.req \in Request /\ x.n \in Nat
        BY <4>1, EventHas
      <4>4. CASE x.req = r
        <5>1. rest <= left[r]
          BY <4>2, <4>4 DEF Unseen
        <5> DEFINE b == Budget[r]
                   l == left[r]
        <5>2. x.n <= b - l /\ rest <= l /\ b \in Nat /\ l \in Nat
          BY <1>6, <4>2, <4>4, <5>1
        <5> HIDE DEF b, l
        <5>3. x.n <= b - rest
          BY <4>3, <5>2
        <5> QED BY <1>3, <1>7, <4>4, <5>3 DEF b
      <4>5. CASE x.req # r
        BY <1>3, <1>7, <4>2, <4>3, <4>5
      <4> QED BY <4>4, <4>5
    <3> QED BY <3>1, <3>2
  <2>4. Single(queue')
    BY <1>5, <1>8 DEF Roomy, Once, Known, Queued, EventsOf
  <2>5. Queued' \cap (ToSet(flight') \cup EventsIn(seg')) = {}
    <3>1. e \notin ToSet(flight) /\ e \notin EventsIn(seg)
      BY <1>8, NotGap DEF Known
    <3>2. Queued' = Queued \cup {e}
      BY <1>5 DEF Queued, EventsOf
    <3> QED BY <1>1, <3>1, <3>2 DEF Roomy, Once
  <2>6. \A i, j \in 1 .. Len(flight') : flight'[i] = flight'[j] => i = j
    BY <1>1 DEF Roomy, Once
  <2>7. \A x \in Known' : Old(x)'
    BY <2>3 DEF Old
  <2> QED BY <2>1, <2>4, <2>5, <2>6, <2>7 DEF Once
<1>11. Controls'
  <2>0. Controls
    BY DEF Roomy
  <2>1. ASSUME NEW i \in 1 .. Len(queue') PROVE queue'[i].kind # "stop"
    <3>1. i \in 1 .. Len(queue) \/ i = Len(queue) + 1
      BY <1>5
    <3>2. ASSUME NEW k \in 1 .. Len(queue) PROVE queue[k].kind # "stop"
      BY <2>0 DEF Controls
    <3> QED BY <1>4, <1>5, <3>1, <3>2
  <2>2. wpc \in Serving
    BY <1>1, Types
  <2> QED BY <1>1, <1>2, <1>5, <2>0, <2>1, <2>2 DEF Controls, MaintenanceFree
<1>12. Queueing'
  <2>0. mem.queued \in Nat /\ Asking(queue') = Asking(queue) /\ Asking(queue) \in Nat
    BY <1>5 DEF Asking, Roomy, Counted
  <2>1. Len(queue') <= mem'.queued + Asking(queue')
    BY <1>2, <1>5, <2>0 DEF Roomy, Queueing
  <2>2. ASSUME wpc' \in {"batch", "append"} PROVE \E w \in Nat : Flown(w)'
    <3>1. PICK w \in Nat : Flown(w)
      BY <1>1, <2>2 DEF Roomy, Queueing
    <3>2. Len(flight) \in Nat
      BY Types, LenProperties
    <3>3. Len(queue') + Len(flight') - w <= mem'.queued + Asking(queue')
      BY <1>1, <1>2, <1>5, <2>0, <3>1, <3>2 DEF Flown
    <3> QED BY <1>1, <3>1, <3>3 DEF Flown
  <2> QED BY <2>1, <2>2 DEF Queueing
<1> QED BY <1>9, <1>10, <1>11, <1>12 DEF Roomy

LEMMA ReserveRoomy ==
    ASSUME Good, Roomy, NEW r \in Request, Reserve(r)
    PROVE  Roomy'
<1> DEFINE e == [req |-> r, n |-> 1]
           b == Budget[r]
<1>1. /\ mem.accepting /\ HasSlots(r) /\ r \notin hist.used /\ Submit(e, b - 1)
      /\ UNCHANGED <<disk, flight, wpc, apc, kept, count>>
  BY DEF Reserve
<1>2. b \in Nat /\ b >= 2
  BY SpoolAssumption
<1>3. e \in Event /\ e.req = r /\ e.n = 1
  <2>1. 1 \in 1 .. b
    BY <1>2
  <2> QED BY <2>1, EventIs
<1>4. left' = [left EXCEPT ![r] = Budget[r] - 1]
  BY <1>1, <1>3 DEF Submit
<1>5. left[r] = 0
  BY <1>1 DEF Roomy, Once
<1>6. IsFiniteSet(HeldSlots') /\ Held' \in Nat /\ Held \in Nat /\ Held' + 1 <= Held + b
  BY <1>4, <1>5, HeldMore DEF Roomy, Counted
<1> HIDE DEF e
<1>7. Affords
  <2>1. /\ Taken(seg) \in Nat /\ Taken(seg) <= Cardinality(RecordPlaces(seg))
        /\ Taken(acked) \in Nat /\ Taken(acked) <= Cardinality(RecordPlaces(acked))
        /\ Cardinality(RecordPlaces(seg)) \in Nat /\ Cardinality(RecordPlaces(acked)) \in Nat
    BY EventPlacesFinite DEF Roomy, Counted
  <2>2. mem.queued \in Nat
    BY DEF Roomy, Counted
  <2>3. Held + mem.queued + b <= Capacity /\ MaxBytes - Physical - Held - mem.queued >= b
    BY <1>1 DEF HasSlots, Usable
  <2>4. Held' + mem.queued + 1 <= Capacity
    <3> DEFINE h == Held'
               g == Held
               q == mem.queued
    <3>1. /\ h \in Nat /\ g \in Nat /\ q \in Nat /\ b \in Nat /\ Capacity \in Nat
          /\ h + 1 <= g + b /\ g + q + b <= Capacity
      BY <1>2, <1>6, <2>2, <2>3, SpoolAssumption
    <3> HIDE DEF b, h, g, q
    <3>2. h + q + 1 <= Capacity
      BY <3>1
    <3> QED BY <3>2 DEF h, q
  <2>5. Taken(seg) + Taken(acked) + Held' + mem.queued + 1 <= MaxBytes
    <3> HIDE DEF b
    <3>1. Physical \in Nat /\ Taken(seg) + Taken(acked) <= Physical
      BY <2>1 DEF Physical
    <3> DEFINE t == Taken(seg) + Taken(acked)
               h == Held'
               g == Held
               q == mem.queued
    <3>2. /\ t \in Nat /\ t <= Physical /\ h \in Nat /\ g \in Nat /\ q \in Nat /\ b \in Nat
          /\ MaxBytes \in Nat /\ h + 1 <= g + b /\ MaxBytes - Physical - g - q >= b
      <4>1. t \in Nat
        BY <2>1
      <4>2. MaxBytes \in Nat
        BY SpoolAssumption
      <4> QED BY <1>2, <1>6, <2>2, <2>3, <3>1, <4>1, <4>2
    <3> HIDE DEF t, h, g, q
    <3>3. t + h + q + 1 <= MaxBytes
      BY <3>1, <3>2
    <3> QED BY <3>3 DEF t, h, q
  <2> QED BY <1>6, <2>4, <2>5 DEF Affords
<1>8. Unseen(r, e, b - 1) /\ b - 1 \in Nat
  BY <1>1, <1>2, <1>3 DEF Unseen
<1> HIDE DEF b
<1> QED BY <1>1, <1>3, <1>7, <1>8, SubmitRoomy

LEMMA EmitRoomy ==
    ASSUME Good, Roomy, NEW r \in Request, Emit(r) \/ EmitTerminal(r)
    PROVE  Roomy'
<1> DEFINE b == Budget[r]
           l == left[r]
<1>1. b \in Nat /\ l \in Nat /\ l <= b
  BY Types, SpoolAssumption DEF Slots
<1>2. PICK n \in Nat, rest \in Nat :
           /\ n \in 1 .. b /\ n > b - l /\ rest < l /\ n <= b - rest /\ l >= 1
           /\ Submit([req |-> r, n |-> n], rest) /\ UNCHANGED <<disk, flight, wpc, apc, kept, count>>
  <2>1. CASE Emit(r)
    <3>1. /\ l >= 2 /\ Submit([req |-> r, n |-> b - l + 1], l - 1)
          /\ UNCHANGED <<disk, flight, wpc, apc, kept, count>>
      BY <2>1 DEF Emit
    <3> HIDE DEF b, l
    <3>2. /\ b - l + 1 \in 1 .. b /\ b - l + 1 \in Nat /\ l - 1 \in Nat /\ b - l + 1 > b - l /\ l - 1 < l
          /\ b - l + 1 <= b - (l - 1) /\ l >= 1
      BY <1>1, <3>1
    <3> QED BY <3>1, <3>2
  <2>2. CASE EmitTerminal(r)
    <3>1. /\ l >= 1 /\ Submit([req |-> r, n |-> b], 0) /\ UNCHANGED <<disk, flight, wpc, apc, kept, count>>
      BY <2>2 DEF EmitTerminal
    <3> HIDE DEF b, l
    <3>2. b \in 1 .. b /\ b > b - l /\ 0 < l /\ b <= b - 0 /\ 0 \in Nat
      BY <1>1, <3>1
    <3> QED BY <1>1, <3>1, <3>2
  <2> QED BY <2>1, <2>2
<1> DEFINE e == [req |-> r, n |-> n]
<1>3. e \in Event /\ e.req = r /\ e.n = n
  BY <1>2, EventIs
<1>4. left' = [left EXCEPT ![r] = rest]
  BY <1>2, <1>3 DEF Submit
<1>5. IsFiniteSet(HeldSlots') /\ Held' \in Nat /\ Held \in Nat /\ Held' + 1 <= Held
  BY <1>2, <1>4, HeldFewer DEF Roomy, Counted
<1> HIDE DEF e, b, l
<1>6. Affords
  <2>1. Taken(seg) \in Nat /\ Taken(acked) \in Nat /\ mem.queued \in Nat
    BY EventPlacesFinite DEF Roomy, Counted
  <2>2. Held + mem.queued <= Capacity /\ Taken(seg) + Taken(acked) + Held + mem.queued <= MaxBytes
    BY DEF Roomy, Counted
  <2> DEFINE t == Taken(seg) + Taken(acked)
             h == Held'
             g == Held
             q == mem.queued
  <2>3. /\ t \in Nat /\ h \in Nat /\ g \in Nat /\ q \in Nat /\ Capacity \in Nat /\ MaxBytes \in Nat
        /\ h + 1 <= g /\ g + q <= Capacity /\ t + g + q <= MaxBytes
    <3>1. t \in Nat
      BY <2>1
    <3>2. Capacity \in Nat /\ MaxBytes \in Nat
      BY SpoolAssumption
    <3> QED BY <1>5, <2>1, <2>2, <3>1, <3>2
  <2> HIDE DEF t, h, g, q
  <2>4. h + q + 1 <= Capacity /\ t + h + q + 1 <= MaxBytes
    BY <2>3
  <2> QED BY <1>5, <2>4 DEF Affords, t, h, q
<1>7. Unseen(r, e, rest)
  <2>1. rest <= l
    BY <1>1, <1>2
  <2> QED BY <1>2, <1>3, <2>1 DEF Unseen, b, l
<1>8. left[r] # 0
  BY <1>1, <1>2 DEF l
<1> QED BY <1>2, <1>3, <1>6, <1>7, <1>8, SubmitRoomy DEF e

LEMMA PreserveRoomy ==
    ASSUME Good, Roomy, NEW r \in Request, PreserveTerminal(r)
    PROVE  Roomy'
<1>1. /\ left' = [left EXCEPT ![r] = 0] /\ left[r] >= 1
      /\ hist' = [hist EXCEPT !.accepted = @ \cup {[req |-> r, n |-> Budget[r]]}]
      /\ seg' = seg /\ acked' = acked /\ mem' = mem /\ queue' = queue /\ flight' = flight /\ wpc' = wpc
      /\ apc' = apc
  BY DEF PreserveTerminal, disk
<1>2. hist'.used = hist.used
  BY <1>1, Types DEF Events
<1>3. left \in [Request -> Nat]
  BY Types DEF Slots
<1>4. \A x \in Request : left'[x] \in Nat /\ left'[x] <= left[x] /\ (left[x] = 0 => left'[x] = 0)
  BY <1>1, <1>3
<1>5. HeldSlots' \subseteq HeldSlots
  <2>1. 0 \in Nat /\ 0 < left[r]
    BY <1>1, <1>3
  <2> QED BY <1>1, <2>1, HeldFewer DEF Roomy, Counted
<1>6. Counted'
  <2>1. Stored
    <3>1. Taken(seg) \in Nat /\ Taken(acked) \in Nat
      BY EventPlacesFinite DEF Roomy, Counted
    <3> QED BY <1>1, <3>1 DEF Stored, Roomy, Counted
  <2>2. mem'.queued \in Nat /\ mem'.queued <= mem.queued
    BY <1>1 DEF Roomy, Counted
  <2> QED BY <1>5, <2>1, <2>2, CountedLess DEF Roomy
<1>7. Once'
  <2>1. Known' = Known /\ Queued' = Queued
    BY <1>1 DEF Known, Queued
  <2>2. Queued' \cap (ToSet(flight') \cup EventsIn(seg')) = {} /\ Single(queue')
    BY <1>1, <2>1 DEF Roomy, Once
  <2> QED BY <1>1, <1>2, <1>4, <2>1, <2>2, OnceLess DEF Roomy
<1>8. Controls'
  BY <1>1, <1>4, ControlsQuiet DEF Roomy, Controls
<1>9. Queueing'
  BY <1>1, QueueingQuiet DEF Roomy
<1> QED BY <1>6, <1>7, <1>8, <1>9 DEF Roomy

-----------------------------------------------------------------------------
(* Steps that add no event.                                                *)

LEMMA LevelSelf == ASSUME NEW s PROVE Level(s, s)
  BY DEF Level

Settles ==
    /\ Stored /\ mem'.queued \in Nat /\ mem'.queued <= mem.queued /\ hist'.used = hist.used
    /\ \A r \in Request : left'[r] \in Nat /\ left'[r] <= left[r]
    /\ flight' = flight \/ flight' = <<>>
    /\ EventsOf(queue') \subseteq EventsOf(queue) /\ Single(queue')
    /\ EventsIn(seg') \cup EventsIn(acked') \subseteq EventsIn(seg) \cup EventsIn(acked) \cup {Gap}
    /\ queue' = <<>> \/ EventsIn(seg') \subseteq EventsIn(seg)

LEMMA SettleRoomy ==
    ASSUME Good, Roomy, Settles, Controls', Queueing'
    PROVE  Roomy'
<1>1. HeldSlots' \subseteq HeldSlots
  <2> SUFFICES ASSUME NEW e \in Event, e.n <= left'[e.req] PROVE e.n <= left[e.req]
    BY DEF HeldSlots
  <2>1. e.req \in Request /\ e.n \in Nat
    BY EventHas
  <2>2. left[e.req] \in Nat /\ left'[e.req] \in Nat /\ left'[e.req] <= left[e.req]
    BY <2>1, Types DEF Settles, Slots
  <2> QED BY <2>1, <2>2
<1>2. Counted'
  BY <1>1, CountedLess DEF Roomy, Settles
<1>3. Queued = EventsOf(queue) /\ Queued' = EventsOf(queue')
  BY DEF Queued, EventsOf
<1>4. ToSet(flight') \subseteq ToSet(flight)
  BY EmptyIs DEF Settles
<1>5. Known' \subseteq Known
  BY <1>3, <1>4 DEF Settles, Known
<1>6. Queued' \cap (ToSet(flight') \cup EventsIn(seg')) = {}
  <2>1. CASE queue' = <<>>
    BY <1>3, <2>1, EmptyIs
  <2>2. CASE EventsIn(seg') \subseteq EventsIn(seg)
    BY <1>3, <1>4, <2>2 DEF Settles, Roomy, Once
  <2> QED BY <2>1, <2>2 DEF Settles
<1>7. Once'
  BY <1>5, <1>6, OnceLess DEF Roomy, Settles
<1> QED BY <1>2, <1>7 DEF Roomy

(* Neither the files' records nor the queue change.                        *)
Quiet ==
    /\ Level(seg, seg') /\ Level(acked, acked') /\ queue' = queue /\ left' = left
    /\ mem'.queued = mem.queued /\ hist'.used = hist.used
    /\ flight' = flight \/ flight' = <<>>

LEMMA QuietSettles ==
    ASSUME Good, Roomy, Quiet
    PROVE  Settles
<1>1. /\ IsFiniteSet(RecordPlaces(seg)) /\ IsFiniteSet(RecordPlaces(acked))
      /\ mem.queued \in Nat
  BY DEF Roomy, Counted
<1>2. Taken(seg) \in Nat /\ Taken(acked) \in Nat
  BY <1>1, EventPlacesFinite
<1>3. Taken(seg') = Taken(seg) /\ Taken(acked') = Taken(acked)
  BY DEF Quiet, Level, Taken
<1>4. Stored
  BY <1>1, <1>2, <1>3 DEF Quiet, Level, Stored
<1>5. \A r \in Request : left[r] \in Nat /\ left[r] <= left[r]
  BY Types DEF Slots
<1>6. Single(queue)
  BY DEF Roomy, Once
<1>7. mem'.queued \in Nat /\ mem'.queued <= mem.queued
  BY <1>1 DEF Quiet
<1> QED BY <1>4, <1>5, <1>6, <1>7 DEF Quiet, Settles, Level

LEMMA QuietRoomy ==
    ASSUME Good, Roomy, Quiet, Controls',
           wpc' \in {"batch", "append"} => wpc' = wpc /\ flight' = flight
    PROVE  Roomy'
<1>1. EventsIn(seg') = EventsIn(seg) /\ Queueing
  BY DEF Quiet, Level, Roomy
<1>2. Queueing'
  BY <1>1, QueueingQuiet DEF Quiet
<1> QED BY <1>2, QuietSettles, SettleRoomy

-----------------------------------------------------------------------------
(* The writer, while it adds no record.                                    *)

LEMMA StartAppendRoomy ==
    ASSUME Good, Roomy, StartAppend
    PROVE  Roomy'
<1>1. /\ wpc = "batch" /\ MaintenanceFree /\ wpc' = "append" /\ seg' = seg /\ acked' = acked
      /\ mem' = mem /\ queue' = queue /\ flight' = flight /\ apc' = apc /\ left' = left /\ hist' = hist
  BY DEF StartAppend, disk
<1>2. Quiet
  BY <1>1, LevelSelf DEF Quiet
<1>3. Controls'
  BY <1>1 DEF Roomy, Controls, MaintenanceFree, Serving
<1>4. Queueing'
  <2>1. PICK w \in Nat : Flown(w)
    BY <1>1 DEF Roomy, Queueing
  <2>2. Flown(w)'
    BY <1>1, <2>1 DEF Flown
  <2> QED BY <1>1, <2>2 DEF Roomy, Queueing
<1> QED BY <1>2, <1>3, <1>4, QuietSettles, SettleRoomy

LEMMA WriterQuietRoomy ==
    ASSUME Good, Roomy, SyncIdle \/ EndBatch \/ WriterFailed
    PROVE  Roomy'
<1>1. /\ seg' = seg /\ acked' = acked /\ queue' = queue /\ apc' = apc /\ left' = left /\ hist' = hist
      /\ flight' = flight \/ flight' = <<>>
  BY DEF SyncIdle, EndBatch, WriterFailed, disk
<1>2. wpc \in Serving /\ wpc' \in {"sync", "idle", "drain"}
  BY DEF SyncIdle, EndBatch, WriterFailed, Serving
<1>3. /\ mem'.queued = mem.queued /\ (mem'.accepting => mem.accepting)
      /\ mem'.status = "healthy" => mem.status = "healthy"
      /\ wpc' = "drain" => mem'.status = "failed"
  <2>1. CASE WriterFailed
    <3>1. mem' = [mem EXCEPT !.status = "failed", !.accepting = FALSE]
      BY <2>1 DEF WriterFailed
    <3> QED BY <3>1, Types DEF Memory
  <2>2. CASE SyncIdle \/ EndBatch
    BY <2>2 DEF SyncIdle, EndBatch
  <2> QED BY <2>1, <2>2
<1>4. Quiet
  BY <1>1, <1>3, LevelSelf DEF Quiet
<1>5. Controls'
  <2>1. wpc' \in Serving /\ wpc' # "append" /\ wpc' # "dead"
    BY <1>2 DEF Serving
  <2> QED BY <1>1, <1>3, <2>1, ControlsQuiet DEF Roomy
<1>6. wpc' \notin {"batch", "append"}
  BY <1>2
<1> QED BY <1>4, <1>5, <1>6, QuietRoomy

-----------------------------------------------------------------------------
(* Steps of the writer that sync, list or open segments.                   *)

(* The queue and what is counted stay.                                     *)
Steady ==
    /\ acked' = acked /\ queue' = queue /\ left' = left /\ mem'.queued = mem.queued
    /\ hist'.used = hist.used /\ apc' = apc
    /\ flight' = flight \/ flight' = <<>>

LEMMA SteadyRoomy ==
    ASSUME Good, Roomy, Steady, Level(seg, seg'), Controls',
           wpc' \in {"batch", "append"} => wpc' = wpc /\ flight' = flight
    PROVE  Roomy'
<1>1. Quiet
  BY LevelSelf DEF Steady, Quiet
<1> QED BY <1>1, QuietRoomy

LEMMA SyncRoomy ==
    ASSUME Good, Roomy, Fdatasync \/ GapSync
    PROVE  Roomy'
<1>1. /\ seg' = Synced(seg) /\ acked' = acked /\ mem' = mem /\ queue' = queue /\ flight' = flight
      /\ apc' = apc /\ left' = left /\ hist' = hist
      /\ (wpc = "sync" /\ wpc' = "manifest") \/ (wpc = "gapsync" /\ wpc' = "opened")
  BY DEF Fdatasync, GapSync
<1>2. DOMAIN seg # {}
  BY <1>1 DEF Good, Phase
<1>3. Level(seg, seg')
  BY <1>1, <1>2, SyncedIs, SameLevel, Types
<1>4. Controls'
  <2>1. wpc' \notin Serving => wpc \notin Serving
    BY <1>1 DEF Serving
  <2> QED BY <1>1, <2>1, ControlsQuiet DEF Roomy
<1>5. Steady /\ wpc' \notin {"batch", "append"}
  BY <1>1 DEF Steady
<1> QED BY <1>3, <1>4, <1>5, SteadyRoomy

LEMMA RotateSyncRoomy ==
    ASSUME Good, Roomy, RotateSync
    PROVE  Roomy'
<1>1. /\ seg' = Linked(Synced(seg)) /\ acked' = acked /\ mem' = mem /\ queue' = queue
      /\ flight' = flight /\ apc' = apc /\ left' = left /\ hist' = Promised(seg)
      /\ wpc = "append" /\ wpc' = wpc
  BY DEF RotateSync
<1>2. DOMAIN seg # {}
  BY <1>1 DEF Good, Phase
<1>3. Same(seg, Synced(seg)) /\ Files(Synced(seg))
  BY <1>2, SyncedIs, SameFiles, Types
<1>4. Level(seg, Synced(seg)) /\ Level(Synced(seg), seg')
  BY <1>1, <1>3, LinkedIs, SameLevel
<1>5. Level(seg, seg')
  BY <1>4 DEF Level
<1>6. hist'.used = hist.used
  BY <1>1, Types DEF Promised, Events
<1>7. Controls'
  BY <1>1, ControlsQuiet DEF Roomy, Controls
<1>8. Steady
  BY <1>1, <1>6 DEF Steady
<1> QED BY <1>1, <1>5, <1>7, <1>8, SteadyRoomy

LEMMA ManifestRoomy ==
    ASSUME Good, Roomy, WriteManifest
    PROVE  Roomy'
<1>1. /\ seg' = Linked(seg) /\ acked' = acked /\ mem' = mem /\ queue' = queue
      /\ flight' = <<>> /\ apc' = apc /\ left' = left /\ hist' = Promised(seg)
      /\ wpc = "manifest" /\ wpc' = "idle"
  BY DEF WriteManifest
<1>2. Level(seg, seg')
  BY <1>1, LinkedIs, SameLevel, Types
<1>3. hist'.used = hist.used
  BY <1>1, Types DEF Promised, Events
<1>4. Controls'
  <2>1. wpc \in Serving /\ wpc' \in Serving
    BY <1>1 DEF Serving
  <2> QED BY <1>1, <2>1, ControlsQuiet DEF Roomy
<1>5. Steady /\ wpc' \notin {"batch", "append"}
  BY <1>1, <1>3 DEF Steady
<1> QED BY <1>2, <1>4, <1>5, SteadyRoomy

LEMMA OpenManifestRoomy ==
    ASSUME Good, Roomy, OpenManifest
    PROVE  Roomy'
<1>1. /\ seg' = Linked(seg) /\ acked' = acked /\ queue' = queue
      /\ mem' = [mem EXCEPT !.status = "healthy", !.accepting = TRUE]
      /\ flight' = flight /\ apc' = apc /\ left' = left
      /\ hist' = [Promised(seg) EXCEPT !.lost = @ /\ seg[Current].recs = <<>>]
      /\ wpc = "opened" /\ wpc' = "idle"
  BY DEF OpenManifest
<1>2. Level(seg, seg')
  BY <1>1, LinkedIs, SameLevel, Types
<1>3. hist'.used = hist.used
  <2> DEFINE b == seg[Current].recs = <<>>
  <2>1. hist' = [Promised(seg) EXCEPT !.lost = @ /\ b]
    BY <1>1
  <2> HIDE DEF b
  <2>2. Promised(seg).used = hist.used /\ Promised(seg) \in Events
    BY Types, ListedIs DEF Promised, Events
  <2> QED BY <2>1, <2>2 DEF Events
<1>4. mem'.queued = mem.queued
  BY <1>1, Types DEF Memory
<1>5. Controls'
  <2>1. queue' = <<>>
    BY <1>1 DEF Roomy, Controls, Serving
  <2>2. ~Asked(queue')
    BY <2>1, EmptyIs
  <2> QED BY <1>1, <2>1, <2>2, ControlsSilent
<1>6. Steady /\ wpc' \notin {"batch", "append"}
  BY <1>1, <1>3, <1>4 DEF Steady
<1> QED BY <1>2, <1>5, <1>6, SteadyRoomy

LEMMA WriterFailsRoomy ==
    ASSUME Good, Roomy, WriterFails
    PROVE  Roomy'
<1>1. /\ acked' = acked /\ mem' = mem /\ queue' = queue /\ flight' = flight /\ apc' = apc
      /\ left' = left /\ hist' = hist /\ wpc \in {"append", "sync", "manifest"} /\ wpc' = "failing"
  BY DEF WriterFails
<1>2. PICK b \in BOOLEAN : seg' = Torn(b)
  BY DEF WriterFails, Torn
<1>3. Level(seg, seg')
  BY <1>2, TornIs, SameLevel, Types
<1>4. Controls'
  <2>1. wpc \in Serving /\ wpc' \in Serving
    BY <1>1 DEF Serving
  <2> QED BY <1>1, <2>1, ControlsQuiet DEF Roomy
<1>5. Steady /\ wpc' \notin {"batch", "append"}
  BY <1>1 DEF Steady
<1> QED BY <1>3, <1>4, <1>5, SteadyRoomy

LEMMA WidenRoomy ==
    ASSUME Good, Roomy, RotateOpen \/ OpenSegment
    PROVE  Roomy'
<1>1. PICK n : WidenStep(n)
  BY RotateOpenIs, OpenSegmentIs
<1>2. /\ seg' = With(seg, n, NewSegment) /\ acked' = acked /\ queue' = queue /\ flight' = flight
      /\ apc' = apc /\ left' = left /\ hist' = hist /\ n \in Nat \ {0} /\ n \notin DOMAIN seg
      /\ wpc = wpc' \/ (wpc = "open" /\ wpc' \in {"opened", "gap"})
  <2>1. \A j \in DOMAIN seg : j < n /\ j \in Nat
    BY <1>1, Types, HighestName DEF WidenStep
  <2>2. n \in Nat \ {0} /\ n \notin DOMAIN seg
    BY <1>1, <2>1 DEF WidenStep
  <2> QED BY <1>1, <2>2 DEF WidenStep
<1>3. mem'.queued = mem.queued /\ mem'.accepting = mem.accepting /\ mem'.status = mem.status
  <2>1. \E l : mem' = [mem EXCEPT !.list = l]
    BY DEF RotateOpen, OpenSegment
  <2> QED BY <2>1, Types DEF Memory
<1>4. Level(seg, seg')
  <2>1. Widened(seg, seg', n, NewSegment)
    BY <1>2, WithIs, NewFile, Types
  <2>2. Padded(seg, seg')
    BY <1>2, <2>1, NewFile DEF Widened, Padded
  <2> QED BY <2>2, AlikeLevel
<1>5. Controls'
  <2>1. wpc' \notin Serving => wpc \notin Serving
    BY <1>2 DEF Serving
  <2>2. (wpc' = "append" => wpc = "append") /\ (wpc' \in {"drain", "dead"} => wpc \in {"drain", "dead"})
    BY <1>2
  <2>3. wpc' \in {"drain", "dead"} => mem'.status = "failed"
    BY <1>3, <2>2 DEF Roomy, Controls
  <2> QED BY <1>2, <1>3, <2>1, <2>2, <2>3, ControlsQuiet DEF Roomy
<1>6. Steady
  BY <1>2, <1>3 DEF Steady
<1> QED BY <1>2, <1>4, <1>5, <1>6, SteadyRoomy

-----------------------------------------------------------------------------
(* The consumer.                                                           *)

(* While it is busy with the files, or has not asked yet, nobody has.      *)
LEMMA ConsumerSilent ==
    ASSUME Controls, apc.at \notin {"idle", "wait"} \/ (mem.status = "healthy" /\ mem.accepting /\ apc = Idle)
    PROVE  ~Asked(queue)
  BY DEF Controls, Idle

(* A step of the consumer that adds no command and no record.              *)
LEMMA ConsumerRoomy ==
    ASSUME Good, Roomy, ~Asked(queue), wpc' = wpc, queue' = queue, flight' = flight,
           wpc = "append" => MaintenanceFree', mem.status = "failed" => mem'.status = "failed",
           Settles, EventsIn(seg') = EventsIn(seg) \/ (wpc # "append" /\ EventsIn(seg') \subseteq EventsIn(seg)),
           mem'.queued = mem.queued
    PROVE  Roomy'
<1>1. Controls /\ Queueing
  BY DEF Roomy
<1>2. Controls'
  BY <1>1, ControlsSilent DEF Controls
<1>3. Queueing'
  BY <1>1, QueueingQuiet
<1> QED BY <1>2, <1>3, SettleRoomy

LEMMA AckQuietRoomy ==
    ASSUME Good, Roomy, \/ \E c \in 1 .. LastSeq : AckStart(c)
                        \/ AckLock \/ WriteCursor \/ Renamed \/ AckManifest \/ AckFails
    PROVE  Roomy'
<1>1. /\ acked' = acked /\ queue' = queue /\ flight' = flight /\ left' = left /\ hist' = hist /\ wpc' = wpc
  BY DEF AckStart, AckLock, WriteCursor, Renamed, AckManifest, AckFails, disk
<1>2. Level(seg, seg')
  <2>1. CASE AckManifest
    <3>1. seg' = Linked(seg)
      BY <2>1 DEF AckManifest
    <3> QED BY <3>1, LinkedIs, SameLevel, Types
  <2>2. CASE ~AckManifest
    <3>1. seg' = seg
      BY <2>2 DEF AckStart, AckLock, WriteCursor, Renamed, AckFails, disk
    <3> QED BY <3>1, LevelSelf
  <2> QED BY <2>1, <2>2
<1>3. mem'.queued = mem.queued /\ (mem.status = "failed" => mem'.status = "failed")
  <2>1. CASE AckManifest
    <3>1. \E l, a : mem' = [mem EXCEPT !.list = l, !.anchor = a]
      BY <2>1 DEF AckManifest
    <3> QED BY <3>1, Types DEF Memory
  <2>2. CASE AckFails
    <3>1. mem' = [mem EXCEPT !.status = "failed", !.accepting = FALSE]
      BY <2>2 DEF AckFails
    <3> QED BY <3>1, Types DEF Memory
  <2>3. CASE ~AckManifest /\ ~AckFails
    <3>1. mem' = mem
      BY <2>3 DEF AckStart, AckLock, WriteCursor, Renamed
    <3> QED BY <3>1
  <2> QED BY <2>1, <2>2, <2>3
<1>4. ~Asked(queue)
  <2>1. \/ apc.at \notin {"idle", "wait"}
        \/ mem.status = "healthy" /\ mem.accepting /\ apc = Idle
    BY DEF AckStart, AckLock, WriteCursor, Renamed, AckManifest, AckFails, MaintenanceFree
  <2> QED BY <2>1, ConsumerSilent DEF Roomy
<1>5. wpc = "append" => MaintenanceFree'
  <2>0. wpc = "append" => MaintenanceFree
    BY DEF Roomy, Controls
  <2>1. CASE \E c \in 1 .. LastSeq : AckStart(c)
    <3>1. apc'.at = "put"
      BY <2>1 DEF AckStart
    <3> QED BY <3>1 DEF MaintenanceFree
  <2>2. CASE AckLock
    BY <2>2 DEF AckLock
  <2>3. CASE WriteCursor \/ Renamed \/ AckManifest \/ AckFails
    <3>1. ~MaintenanceFree
      BY <2>3 DEF WriteCursor, Renamed, AckManifest, AckFails, MaintenanceFree
    <3> QED BY <2>0, <3>1
  <2> QED BY <2>1, <2>2, <2>3
<1>6. Quiet
  BY <1>1, <1>2, <1>3, LevelSelf DEF Quiet
<1>7. EventsIn(seg') = EventsIn(seg)
  BY <1>2 DEF Level
<1> QED BY <1>1, <1>3, <1>4, <1>5, <1>6, <1>7, QuietSettles, ConsumerRoomy

LEMMA UnlinkRoomy ==
    ASSUME Good, Roomy, Unlink
    PROVE  Roomy'
<1>1. /\ seg' = seg /\ acked' = << >> /\ mem' = mem /\ queue' = queue /\ flight' = flight
      /\ wpc' = wpc /\ left' = left /\ hist' = hist /\ apc.at = "unlink" /\ apc' = Idle
  BY DEF Unlink
<1>2. ~Asked(queue) /\ wpc # "append"
  <2>1. ~MaintenanceFree /\ apc.at \notin {"idle", "wait"}
    BY <1>1 DEF MaintenanceFree
  <2> QED BY <2>1, ConsumerSilent DEF Roomy, Controls
<1>3. RecordPlaces(acked') = {} /\ EventPlaces(acked') = {} /\ EventsIn(acked') = {}
  <2>1. DOMAIN acked' = {} /\ Recorded(acked') = {}
    BY <1>1, NoFiles
  <2> QED BY <2>1, PlaceIs DEF EventsIn
<1>4. Stored
  <2>1. IsFiniteSet(RecordPlaces(seg)) /\ IsFiniteSet(RecordPlaces(acked))
    BY DEF Roomy, Counted
  <2>2. IsFiniteSet(RecordPlaces(acked')) /\ Taken(acked') = 0
    BY <1>3, FS_EmptySet DEF Taken
  <2>3. Taken(seg) \in Nat /\ Taken(acked) \in Nat
    BY <2>1, EventPlacesFinite
  <2>4. Taken(seg') = Taken(seg)
    BY <1>1
  <2>5. Taken(seg') + Taken(acked') <= Taken(seg) + Taken(acked)
    BY <2>2, <2>3, <2>4
  <2> QED BY <1>1, <2>1, <2>2, <2>5 DEF Stored
<1>5. Settles
  <2>1. \A r \in Request : left[r] \in Nat /\ left[r] <= left[r]
    BY Types DEF Slots
  <2>2. mem'.queued \in Nat /\ mem'.queued <= mem.queued
    BY <1>1 DEF Roomy, Counted
  <2>3. Single(queue)
    BY DEF Roomy, Once
  <2> QED BY <1>1, <1>3, <1>4, <2>1, <2>2, <2>3 DEF Settles
<1> QED BY <1>1, <1>2, <1>5, ConsumerRoomy

(* A segment is renamed: its records move.                                 *)
PlacesAt(s, n) == {p \in EventPlaces(s) : p[1] = n}

LEMMA RenamedPlaces ==
    ASSUME NEW s, NEW a, NEW t, NEW b, NEW n \in DOMAIN s, Files(s), Files(a),
           IsFiniteSet(RecordPlaces(s)), IsFiniteSet(RecordPlaces(a)),
           DOMAIN t = DOMAIN s \ {n}, \A j \in DOMAIN t : t[j] = s[j],
           DOMAIN b = DOMAIN a \cup {n}, b[n] = s[n], \A j \in DOMAIN a \ {n} : b[j] = a[j]
    PROVE  /\ IsFiniteSet(RecordPlaces(t)) /\ IsFiniteSet(RecordPlaces(b))
           /\ Taken(t) + Taken(b) <= Taken(s) + Taken(a)
           /\ RecordPlaces(t) \subseteq RecordPlaces(s)
<1> DEFINE P == PlacesAt(s, n)
<1>1. \A j \in DOMAIN t : j \in DOMAIN s /\ j # n /\ Size(t, j) = Size(s, j)
  BY DEF Size
<1>2. \A j \in DOMAIN b : \/ j = n /\ b[j] = s[n] /\ Size(b, j) = Size(s, n)
                          \/ j \in DOMAIN a /\ j # n /\ b[j] = a[j] /\ Size(b, j) = Size(a, j)
  BY DEF Size
<1>3. RecordPlaces(t) \in SUBSET RecordPlaces(s)
  <2> SUFFICES ASSUME NEW p, p \in RecordPlaces(t) PROVE p \in RecordPlaces(s)
    OBVIOUS
  <2> QED BY <1>1, PlaceIs
<1>4. RecordPlaces(b) \in SUBSET (RecordPlaces(s) \cup RecordPlaces(a))
  <2> SUFFICES ASSUME NEW p, p \in RecordPlaces(b) PROVE p \in RecordPlaces(s) \/ p \in RecordPlaces(a)
    OBVIOUS
  <2> QED BY <1>2, PlaceIs
<1>5. EventPlaces(t) \in SUBSET (EventPlaces(s) \ P)
  <2> SUFFICES ASSUME NEW p, p \in EventPlaces(t) PROVE p \in EventPlaces(s) /\ p \notin P
    OBVIOUS
  <2>1. PICK i \in DOMAIN t : \E k \in 1 .. Size(t, i) : p = <<i, k>> /\ t[i].recs[k].ev # Gap
    BY PlaceIs
  <2>2. p[1] = i
    BY <2>1
  <2>3. p \in EventPlaces(s)
    BY <1>1, <2>1, PlaceIs
  <2> QED BY <1>1, <2>2, <2>3 DEF PlacesAt
<1>6. EventPlaces(b) \in SUBSET (EventPlaces(a) \cup P)
  <2> SUFFICES ASSUME NEW p, p \in EventPlaces(b) PROVE p \in EventPlaces(a) \/ p \in P
    OBVIOUS
  <2>1. PICK i \in DOMAIN b : \E k \in 1 .. Size(b, i) : p = <<i, k>> /\ b[i].recs[k].ev # Gap
    BY PlaceIs
  <2>2. p[1] = i
    BY <2>1
  <2>3. CASE i = n
    <3>1. p \in EventPlaces(s)
      BY <1>2, <2>1, <2>3, PlaceIs
    <3> QED BY <2>2, <2>3, <3>1 DEF PlacesAt
  <2>4. CASE i # n
    BY <1>2, <2>1, <2>4, PlaceIs
  <2> QED BY <2>3, <2>4
<1>7. /\ IsFiniteSet(RecordPlaces(t)) /\ IsFiniteSet(RecordPlaces(b))
      /\ IsFiniteSet(EventPlaces(s)) /\ IsFiniteSet(EventPlaces(a))
  <2>1. IsFiniteSet(RecordPlaces(s) \cup RecordPlaces(a))
    BY FS_Union
  <2> QED BY <1>3, <1>4, <2>1, FS_Subset, EventPlacesFinite
<1> DEFINE S == EventPlaces(s)
           A == EventPlaces(a)
<1>8. P \in SUBSET S
  BY DEF PlacesAt
<1>9. IsFiniteSet(S) /\ IsFiniteSet(A) /\ EventPlaces(t) \in SUBSET (S \ P) /\ EventPlaces(b) \in SUBSET (A \cup P)
  BY <1>5, <1>6, <1>7
<1> HIDE DEF P, S, A
<1>10. IsFiniteSet(P) /\ IsFiniteSet(S \ P) /\ IsFiniteSet(A \cup P) /\ IsFiniteSet(A \cap P)
  BY <1>8, <1>9, FS_Subset, FS_Union, FS_Difference, FS_Intersection
<1>11. /\ Cardinality(S \ P) = Cardinality(S) - Cardinality(S \cap P) /\ S \cap P = P
       /\ Cardinality(A \cup P) = Cardinality(A) + Cardinality(P) - Cardinality(A \cap P)
  BY <1>8, <1>9, <1>10, FS_Union, FS_Difference
<1>12. /\ Cardinality(EventPlaces(t)) <= Cardinality(S \ P) /\ IsFiniteSet(EventPlaces(t))
       /\ Cardinality(EventPlaces(b)) <= Cardinality(A \cup P) /\ IsFiniteSet(EventPlaces(b))
  BY <1>9, <1>10, FS_Subset
<1>13. /\ Cardinality(S) \in Nat /\ Cardinality(P) \in Nat /\ Cardinality(A) \in Nat
       /\ Cardinality(A \cap P) \in Nat /\ Cardinality(EventPlaces(t)) \in Nat
       /\ Cardinality(EventPlaces(b)) \in Nat
  BY <1>9, <1>10, <1>12, FS_CardinalityType
<1>14. Cardinality(EventPlaces(t)) + Cardinality(EventPlaces(b)) <= Cardinality(S) + Cardinality(A)
  <2> DEFINE x == Cardinality(EventPlaces(t))
             y == Cardinality(EventPlaces(b))
             u == Cardinality(S)
             v == Cardinality(A)
             w == Cardinality(P)
             z == Cardinality(A \cap P)
  <2>1. x \in Nat /\ y \in Nat /\ u \in Nat /\ v \in Nat /\ w \in Nat /\ z \in Nat
    BY <1>13
  <2>2. x <= u - w /\ y <= v + w - z
    BY <1>11, <1>12
  <2> HIDE DEF x, y, u, v, w, z
  <2>3. x + y <= u + v
    BY <2>1, <2>2
  <2> QED BY <2>3 DEF x, y, u, v
<1> QED BY <1>3, <1>7, <1>14 DEF Taken, S, A

LEMMA RenameRoomy ==
    ASSUME Good, Roomy, NEW n \in DOMAIN seg, Rename(n)
    PROVE  Roomy'
<1>1. /\ acked' = With(acked, n, seg[n]) /\ seg' = [j \in DOMAIN seg \ {n} |-> seg[j]]
      /\ mem' = mem /\ queue' = queue /\ flight' = flight /\ wpc' = wpc /\ left' = left
      /\ hist' = hist /\ apc' = apc /\ apc.at = "rename"
  BY DEF Rename
<1>2. ~Asked(queue) /\ wpc # "append"
  <2>1. ~MaintenanceFree /\ apc.at \notin {"idle", "wait"}
    BY <1>1 DEF MaintenanceFree
  <2> QED BY <2>1, ConsumerSilent DEF Roomy, Controls
<1>3. Files(seg) /\ Files(acked) /\ Files(seg') /\ Files(acked')
  <2>1. Good'
    BY RenameMoves DEF Moves
  <2> QED BY <2>1, Types DEF Good, Typed
<1>4. /\ DOMAIN acked' = DOMAIN acked \cup {n} /\ acked'[n] = seg[n]
      /\ \A j \in DOMAIN acked \ {n} : acked'[j] = acked[j]
      /\ DOMAIN seg' = DOMAIN seg \ {n} /\ \A j \in DOMAIN seg' : seg'[j] = seg[j]
  BY <1>1 DEF With
<1>5. Stored
  <2>1. IsFiniteSet(RecordPlaces(seg)) /\ IsFiniteSet(RecordPlaces(acked))
    BY DEF Roomy, Counted
  <2> QED BY <1>3, <1>4, <2>1, RenamedPlaces DEF Stored
<1>6. /\ EventsIn(seg') \subseteq EventsIn(seg)
      /\ EventsIn(acked') \subseteq EventsIn(seg) \cup EventsIn(acked)
  <2>1. Recorded(seg') \subseteq Recorded(seg)
    BY <1>4 DEF Recorded
  <2>2. Recorded(acked') \subseteq Recorded(seg) \cup Recorded(acked)
    BY <1>4 DEF Recorded
  <2> QED BY <2>1, <2>2 DEF EventsIn
<1>7. Settles
  <2>1. \A r \in Request : left[r] \in Nat /\ left[r] <= left[r]
    BY Types DEF Slots
  <2>2. mem'.queued \in Nat /\ mem'.queued <= mem.queued
    BY <1>1 DEF Roomy, Counted
  <2>3. Single(queue)
    BY DEF Roomy, Once
  <2> QED BY <1>1, <1>5, <1>6, <2>1, <2>2, <2>3 DEF Settles
<1> QED BY <1>1, <1>2, <1>6, <1>7, ConsumerRoomy

(* A control command more.                                                 *)
LEMMA AskRoomy ==
    ASSUME Good, Roomy, NEW k \in {"flush", "stop"}, queue' = Append(queue, Control(k)), ~Asked(queue),
           seg' = seg, acked' = acked, flight' = flight, left' = left, hist' = hist, wpc' = wpc,
           mem'.queued = mem.queued, mem'.status = mem.status,
           wpc = "append" => MaintenanceFree', wpc \in Serving,
           \/ apc'.at = "wait"
           \/ apc'.at = "idle" /\ ~mem'.accepting,
           k = "stop" => ~mem'.accepting /\ apc' = Idle /\ \A r \in Request : left[r] = 0
    PROVE  Roomy'
<1> DEFINE c == Control(k)
<1>1. c \in Command /\ c.kind = k /\ c.kind # "event"
  BY DEF Control, Command
<1>2. queue' = Append(queue, c) /\ queue \in Seq(Command)
  BY Types
<1> HIDE DEF c
<1>3. /\ Len(queue') = Len(queue) + 1 /\ Len(queue) \in Nat
      /\ \A i \in 1 .. Len(queue) : queue'[i] = queue[i]
      /\ queue'[Len(queue) + 1] = c
      /\ EventsOf(queue') = EventsOf(queue) /\ Asked(queue')
      /\ Single(queue) => Single(queue')
      /\ Controlled(queue) => Controlled(queue')
  <2>1. /\ Len(queue') = Len(queue) + 1 /\ Len(queue) \in Nat
        /\ \A i \in 1 .. Len(queue) : queue'[i] = queue[i]
        /\ queue'[Len(queue) + 1] = c
    BY <1>1, <1>2, AppendedIs
  <2>2. EventsOf(queue') = EventsOf(queue) \cup (IF c.kind = "event" THEN {c.ev} ELSE {})
    BY <1>1, <1>2, AppendedIs
  <2>3. /\ Asked(queue') /\ (Single(queue) => Single(queue'))
        /\ Controlled(queue) => Controlled(queue')
    BY <1>1, <1>2, AppendedIs
  <2>4. EventsOf(queue') = EventsOf(queue)
    BY <1>1, <2>2
  <2> QED BY <2>1, <2>3, <2>4
<1>4. \A i \in 1 .. Len(queue') : i \in 1 .. Len(queue) \/ i = Len(queue) + 1
  BY <1>3
<1>5. \A i \in 1 .. Len(queue) : queue'[i].kind = "event"
  BY <1>3 DEF Asked
<1>6. Counted /\ Once /\ Controls /\ Queueing
  BY DEF Roomy
<1>7. Controls'
  <2>1. Controlled(queue')
    BY <1>3, <1>6 DEF Controls
  <2>2. ASSUME NEW i \in 1 .. Len(queue'), queue'[i].kind = "stop"
        PROVE  i = Len(queue') /\ k = "stop"
    <3>1. i = Len(queue) + 1
      BY <1>4, <1>5, <2>2
    <3> QED BY <1>1, <1>3, <2>2, <3>1
  <2>3. wpc' \in {"drain", "dead"} => mem'.status = "failed"
    BY <1>6 DEF Controls
  <2> QED BY <1>3, <2>1, <2>2, <2>3 DEF Controls
<1>8. Settles
  <2>1. \A r \in Request : left[r] \in Nat /\ left[r] <= left[r]
    BY Types DEF Slots
  <2>2. mem'.queued \in Nat /\ mem'.queued <= mem.queued
    BY <1>6 DEF Counted
  <2>3. Stored
    <3>1. Taken(seg) \in Nat /\ Taken(acked) \in Nat
      BY <1>6, EventPlacesFinite DEF Counted
    <3> QED BY <1>6, <3>1 DEF Stored, Counted
  <2> QED BY <1>3, <1>6, <2>1, <2>2, <2>3 DEF Settles, Once
<1>9. Queueing'
  <2>1. Asking(queue') = 1 /\ Asking(queue) = 0
    BY <1>3 DEF Asking
  <2>2. mem.queued \in Nat /\ Len(flight) \in Nat
    BY <1>6, Types, LenProperties DEF Counted
  <2>3. Len(queue') <= mem'.queued + Asking(queue')
    BY <1>3, <1>6, <2>1, <2>2 DEF Queueing
  <2>4. ASSUME wpc' \in {"batch", "append"} PROVE \E w \in Nat : Flown(w)'
    <3>1. PICK w \in Nat : Flown(w)
      BY <1>6, <2>4 DEF Queueing
    <3>2. Len(queue') + Len(flight') - w <= mem'.queued + Asking(queue')
      BY <1>3, <2>1, <2>2, <3>1 DEF Flown
    <3> QED BY <3>1, <3>2 DEF Flown
  <2> QED BY <2>3, <2>4 DEF Queueing
<1> QED BY <1>7, <1>8, <1>9, SettleRoomy

LEMMA AckFlushRoomy ==
    ASSUME Good, Roomy, AckFlush
    PROVE  Roomy'
<1>1. /\ queue' = Append(queue, Control("flush")) /\ seg' = seg /\ acked' = acked /\ flight' = flight
      /\ left' = left /\ hist' = hist /\ wpc' = wpc /\ mem' = mem
      /\ apc.at = "put" /\ apc' = [apc EXCEPT !.at = "wait"]
  BY DEF AckFlush, disk
<1>2. apc'.at = "wait" /\ MaintenanceFree'
  BY <1>1, Types DEF Pointer, MaintenanceFree
<1>3. ~Asked(queue)
  BY <1>1, ConsumerSilent DEF Roomy
<1>4. wpc \in Serving
  BY <1>1, Types DEF Idle
<1> QED BY <1>1, <1>2, <1>3, <1>4, AskRoomy

LEMMA CloseRoomy ==
    ASSUME Good, Roomy, Close
    PROVE  Roomy'
<1>1. /\ queue' = Append(queue, Control("stop")) /\ seg' = seg /\ acked' = acked /\ flight' = flight
      /\ left' = left /\ hist' = hist /\ wpc' = wpc /\ mem' = [mem EXCEPT !.accepting = FALSE]
      /\ mem.status = "healthy" /\ mem.accepting /\ Held = 0 /\ apc = Idle /\ apc' = apc
  BY DEF Close, disk
<1>2. mem'.queued = mem.queued /\ mem'.status = mem.status /\ ~mem'.accepting
  BY <1>1, Types DEF Memory
<1>3. apc'.at = "idle" /\ apc' = Idle /\ MaintenanceFree'
  BY <1>1 DEF Idle, MaintenanceFree
<1>4. ~Asked(queue)
  BY <1>1, ConsumerSilent DEF Roomy
<1>5. \A r \in Request : left[r] = 0
  BY <1>1, NoneHeld DEF Roomy
<1>6. wpc \in Serving
  BY <1>1, Types
<1> QED BY <1>1, <1>2, <1>3, <1>4, <1>5, <1>6, AskRoomy

LEMMA TimesOutRoomy ==
    ASSUME Good, Roomy, FlushTimesOut
    PROVE  Roomy'
<1>1. /\ queue' = queue /\ seg' = seg /\ acked' = acked /\ flight' = flight
      /\ left' = left /\ hist' = hist /\ wpc' = wpc /\ mem' = mem
      /\ apc.at = "wait" /\ apc' = Idle /\ wpc = "dead"
  BY DEF FlushTimesOut, disk
<1>2. Quiet
  BY <1>1, LevelSelf DEF Quiet
<1>3. Controls'
  <2>1. \A i \in 1 .. Len(queue) : queue[i].kind # "stop"
    BY <1>1 DEF Roomy, Controls, Idle
  <2>2. mem.status = "failed"
    BY <1>1 DEF Roomy, Controls
  <2>3. apc'.at = "idle"
    BY <1>1 DEF Idle
  <2> QED BY <1>1, <2>1, <2>2, <2>3 DEF Roomy, Controls
<1> QED BY <1>1, <1>2, <1>3, QuietRoomy

-----------------------------------------------------------------------------
(* The writer takes commands off the queue.                                *)

(* A control command at the head is the only one.                          *)
LEMMA ControlGoes ==
    ASSUME NEW q \in Seq(Command), q # <<>>, Head(q).kind # "event", Controlled(q)
    PROVE  /\ Dropped(q, Tail(q), 1) /\ Asked(q) /\ ~Asked(Tail(q))
           /\ q[1] = Head(q) /\ 1 \in 1 .. Len(q)
<1> DEFINE p == Tail(q)
           n == Len(q)
<1>1. /\ Len(p) = n - 1 /\ n \in Nat /\ n > 0 /\ \A i \in 1 .. (n - 1) : p[i] = q[i + 1]
  BY HeadTailProperties, LenProperties, EmptySeq
<1>2. Head(q) = q[1]
  BY <1>1
<1> HIDE DEF p
<1>3. 1 \in 1 .. n /\ Len(p) \in Nat /\ Len(p) + 1 = n
  BY <1>1
<1>4. Dropped(q, p, 1)
  BY <1>1, <1>3 DEF Dropped
<1>5. Asked(q)
  BY <1>2, <1>3 DEF Asked
<1>6. ~Asked(p)
  <2> SUFFICES ASSUME NEW i \in 1 .. Len(p), p[i].kind # "event" PROVE FALSE
    BY DEF Asked
  <2>1. p[i] = q[i + 1] /\ i + 1 \in 1 .. n /\ i + 1 # 1
    BY <1>1, <1>3
  <2> QED BY <1>2, <1>3, <2>1 DEF Controlled
<1> QED BY <1>2, <1>3, <1>4, <1>5, <1>6 DEF p

(* Commands go and all else stays.                                         *)
LEMMA LessQueued ==
    ASSUME Good, Roomy, Level(seg, seg'), acked' = acked, flight' = flight, left' = left,
           hist'.used = hist.used, mem'.queued = mem.queued,
           queue' = <<>> \/ \E d : Dropped(queue, queue', d)
    PROVE  Settles
<1>1. Counted /\ Once
  BY DEF Roomy
<1>2. Stored
  <2>1. Taken(seg) \in Nat /\ Taken(acked) \in Nat
    BY <1>1, EventPlacesFinite DEF Counted
  <2>2. Taken(seg') = Taken(seg) /\ Taken(acked') = Taken(acked)
    BY DEF Level, Taken
  <2> QED BY <1>1, <2>1, <2>2 DEF Stored, Counted, Level
<1>3. EventsOf(queue') \subseteq EventsOf(queue) /\ Single(queue')
  <2>1. CASE queue' = <<>>
    BY <2>1, EmptyIs
  <2>2. CASE \E d : Dropped(queue, queue', d)
    BY <1>1, <2>2, DroppedIs DEF Once
  <2> QED BY <2>1, <2>2
<1>4. \A r \in Request : left[r] \in Nat /\ left[r] <= left[r]
  BY Types DEF Slots
<1>5. mem'.queued \in Nat /\ mem'.queued <= mem.queued
  BY <1>1 DEF Counted
<1>6. EventsIn(seg') = EventsIn(seg)
  BY DEF Level
<1> QED BY <1>2, <1>3, <1>4, <1>5, <1>6 DEF Settles

LEMMA FlushDoneRoomy ==
    ASSUME Good, Roomy, FlushDone
    PROVE  Roomy'
<1>1. /\ wpc = "idle" /\ queue # <<>> /\ Head(queue).kind # "event" /\ queue' = Tail(queue)
      /\ wpc' = wpc /\ seg' = seg /\ acked' = acked /\ mem' = mem /\ flight' = flight
      /\ left' = left /\ hist' = hist
  BY DEF FlushDone, disk
<1>2. Dropped(queue, queue', 1) /\ Asked(queue) /\ ~Asked(queue')
  BY <1>1, Types, ControlGoes DEF Roomy, Controls
<1>3. Controls'
  BY <1>1, <1>2, ControlsSilent DEF Serving
<1>4. Settles
  BY <1>1, <1>2, LevelSelf, LessQueued
<1>5. Queueing'
  <2>1. Asking(queue) = 1 /\ Asking(queue') = 0
    BY <1>2 DEF Asking
  <2>2. Len(queue) <= mem.queued + 1 /\ mem.queued \in Nat
    BY <2>1 DEF Roomy, Queueing, Counted
  <2>3. Len(queue') + 1 = Len(queue) /\ Len(queue') \in Nat
    BY <1>2 DEF Dropped
  <2>4. Len(queue') <= mem'.queued + Asking(queue')
    BY <1>1, <2>1, <2>2, <2>3
  <2> QED BY <1>1, <2>4 DEF Queueing
<1> QED BY <1>3, <1>4, <1>5, SettleRoomy

(* The stop is the last command.                                           *)
LEMMA StopRoomy ==
    ASSUME Good, Roomy, Stop
    PROVE  Roomy'
<1>1. /\ wpc = "idle" /\ queue # <<>> /\ Head(queue).kind = "stop" /\ queue' = Tail(queue)
      /\ wpc' = "none" /\ seg' = Linked(seg) /\ acked' = acked /\ flight' = flight
      /\ left' = left /\ apc' = Idle /\ mem' = [mem EXCEPT !.status = "down"]
      /\ hist' = [Promised(seg) EXCEPT !.accepted = {}]
  BY DEF Stop
<1>2. /\ Dropped(queue, queue', 1) /\ queue[1].kind = "stop" /\ 1 \in 1 .. Len(queue)
      /\ queue' \in Seq(Command)
  BY <1>1, Types, ControlGoes, QueueTail DEF Roomy, Controls
<1>3. queue' = <<>>
  <2>1. 1 = Len(queue)
    BY <1>2 DEF Roomy, Controls
  <2>2. Len(queue') = 0
    <3>1. Len(queue') \in Nat /\ Len(queue') + 1 = Len(queue)
      BY <1>2 DEF Dropped
    <3>2. Len(queue') + 1 = 1
      BY <2>1, <3>1
    <3> QED BY <3>1, <3>2
  <2> QED BY <1>2, <2>2, EmptySeq
<1>4. ~Asked(queue')
  BY <1>3, EmptyIs
<1>5. Controls'
  BY <1>1, <1>3, <1>4, ControlsSilent
<1>6. mem'.queued = mem.queued /\ mem.queued \in Nat
  BY <1>1, Types DEF Memory, Roomy, Counted
<1>7. hist'.used = hist.used
  <2>1. Promised(seg).used = hist.used /\ Promised(seg) \in Events
    BY Types, ListedIs DEF Promised, Events
  <2> QED BY <1>1, <2>1 DEF Events
<1>8. Level(seg, seg')
  BY <1>1, LinkedIs, SameLevel, Types
<1>9. Settles
  BY <1>1, <1>3, <1>6, <1>7, <1>8, LessQueued
<1>10. Queueing'
  BY <1>1, <1>3, <1>6, QueueingEmpty
<1> QED BY <1>5, <1>9, <1>10, SettleRoomy

LEMMA DrainRoomy ==
    ASSUME Good, Roomy, Drain
    PROVE  Roomy'
<1>1. /\ wpc = "drain" /\ queue' = <<>> /\ wpc' = "dead" /\ seg' = seg /\ acked' = acked
      /\ flight' = flight /\ left' = left /\ mem' = mem /\ hist' = hist
  BY DEF Drain, disk
<1>2. ~Asked(queue') /\ mem.status = "failed"
  BY <1>1, EmptyIs DEF Roomy, Controls
<1>3. Controls'
  BY <1>1, <1>2, ControlsSilent
<1>4. Settles
  BY <1>1, LevelSelf, LessQueued
<1>5. Queueing'
  BY <1>1, QueueingEmpty DEF Roomy, Counted
<1> QED BY <1>3, <1>4, <1>5, SettleRoomy

LEMMA TakeRoomy ==
    ASSUME Good, Roomy, TakeBatch
    PROVE  Roomy'
<1>1. /\ wpc = "idle" /\ wpc' = "batch" /\ mem' = mem /\ left' = left /\ seg' = seg /\ acked' = acked
      /\ hist' = hist /\ apc' = apc
  BY DEF TakeBatch, disk
<1>2. PICK n \in Batches : /\ flight' = [i \in 1 .. n |-> queue[i].ev]
                           /\ queue' = SubSeq(queue, n + 1, Len(queue))
  BY DEF TakeBatch
<1>3. /\ n \in Nat /\ n >= 1 /\ n <= Len(queue) /\ Len(queue) \in Nat
      /\ \A i \in 1 .. n : queue[i].kind = "event"
  BY Types, LenProperties, SpoolAssumption DEF Batches
<1>4. Len(flight') = n /\ DOMAIN flight' = 1 .. n /\ \A i \in 1 .. n : flight'[i] = queue[i].ev
  BY <1>2, <1>3
<1>5. Dropped(queue, queue', n)
  <2> DEFINE m == Len(queue)
  <2>1. m \in Nat /\ n <= m /\ \A i \in (n + 1) .. m : queue[i] \in Command
    BY <1>3, Types, ElementOfSeq
  <2>2. /\ Len(queue') = m - n /\ \A i \in 1 .. (m - n) : queue'[i] = queue[n + i]
    BY <1>2, <1>3, <2>1, SubSeqProperties
  <2>3. \A i \in 1 .. (m - n) : n + i = i + n
    BY <1>3
  <2> QED BY <1>3, <2>1, <2>2, <2>3 DEF Dropped
<1>6. Counted /\ Once /\ Controls /\ Queueing /\ flight = <<>>
  BY <1>1 DEF Roomy, Good, Phase
<1>7. \A i \in 1 .. n : i \in 1 .. Len(queue) /\ queue[i].ev \in Queued
  BY <1>3 DEF Queued
<1>8. Queued' \subseteq Queued /\ Single(queue')
  <2>1. EventsOf(queue') \subseteq EventsOf(queue) /\ (Single(queue) => Single(queue'))
    BY <1>5, DroppedIs
  <2>2. Queued = EventsOf(queue) /\ Queued' = EventsOf(queue')
    BY DEF Queued, EventsOf
  <2>3. Single(queue)
    BY <1>6 DEF Once
  <2> QED BY <2>1, <2>2, <2>3
<1>9. ToSet(flight') \subseteq Queued
  BY <1>4, <1>7 DEF ToSet
<1>10. Counted'
  BY <1>1, <1>6 DEF Counted, Held, HeldSlots
<1>11. Once'
  <2>1. Known' \subseteq Known
    BY <1>1, <1>8, <1>9 DEF Known
  <2>2. \A e \in Known' : Old(e)'
    BY <1>1, <1>6, <2>1 DEF Once, Old
  <2>3. \A r \in Request : r \notin hist'.used => left'[r] = 0
    BY <1>1, <1>6 DEF Once
  <2>4. \A i, j \in 1 .. Len(flight') : flight'[i] = flight'[j] => i = j
    BY <1>3, <1>4, <1>6, <1>7 DEF Once, Single
  <2>5. Queued' \cap ToSet(flight') = {}
    <3> SUFFICES ASSUME NEW k \in 1 .. n, NEW i \in 1 .. Len(queue'), queue'[i].kind = "event",
                        queue'[i].ev = flight'[k]
                 PROVE  FALSE
      BY <1>4 DEF Queued, ToSet
    <3>1. queue'[i] = queue[i + n] /\ i + n \in 1 .. Len(queue) /\ i + n # k
      BY <1>3, <1>5 DEF Dropped
    <3> QED BY <1>3, <1>4, <1>6, <1>7, <3>1 DEF Once, Single
  <2>6. Queued' \cap EventsIn(seg') = {}
    BY <1>1, <1>6, <1>8 DEF Once
  <2> QED BY <1>8, <2>2, <2>3, <2>4, <2>5, <2>6 DEF Once
<1>12. Asked(queue') <=> Asked(queue)
  <2>1. Asked(queue') => Asked(queue)
    BY <1>5, DroppedIs
  <2>2. ASSUME NEW i \in 1 .. Len(queue), queue[i].kind # "event" PROVE Asked(queue')
    <3>1. i \notin 1 .. n
      BY <1>3, <2>2
    <3>2. i - n \in 1 .. Len(queue') /\ (i - n) + n = i
      BY <1>3, <1>5, <3>1 DEF Dropped
    <3>3. queue'[i - n] = queue[i]
      BY <1>5, <3>2 DEF Dropped
    <3> QED BY <2>2, <3>2, <3>3 DEF Asked
  <2> QED BY <2>1, <2>2 DEF Asked
<1>13. Controls'
  <2>1. Controlled(queue')
    BY <1>5, <1>6, DroppedIs DEF Controls
  <2>2. ASSUME NEW i \in 1 .. Len(queue'), queue'[i].kind = "stop"
        PROVE  i = Len(queue') /\ ~mem.accepting /\ apc = Idle /\ \A r \in Request : left[r] = 0
    <3>1. queue'[i] = queue[i + n] /\ i + n \in 1 .. Len(queue) /\ Len(queue') + n = Len(queue)
      BY <1>3, <1>5 DEF Dropped
    <3>2. /\ i + n = Len(queue) /\ ~mem.accepting /\ apc = Idle /\ \A r \in Request : left[r] = 0
      BY <1>6, <2>2, <3>1 DEF Controls
    <3>3. i = Len(queue')
      BY <1>3, <1>5, <3>1, <3>2 DEF Dropped
    <3> QED BY <3>2, <3>3
  <2> QED BY <1>1, <1>6, <1>12, <2>1, <2>2 DEF Controls, Serving
<1>14. Queueing'
  <2>1. Asking(queue') = Asking(queue) /\ Asking(queue) \in Nat /\ mem.queued \in Nat
    BY <1>6, <1>12 DEF Asking, Counted
  <2>2. Len(queue') + n = Len(queue) /\ Len(queue') \in Nat /\ Len(queue) <= mem.queued + Asking(queue)
    BY <1>5, <1>6 DEF Dropped, Queueing
  <2>3. Len(queue') <= mem'.queued + Asking(queue')
    BY <1>1, <1>3, <2>1, <2>2
  <2>4. ASSUME NEW k \in 1 .. Len(flight') PROVE flight'[k] \in EventsIn(seg') <=> k <= 0
    <3>1. flight'[k] \in Queued /\ ~(k <= 0)
      BY <1>3, <1>4, <1>7
    <3> QED BY <1>1, <1>6, <3>1 DEF Once
  <2>5. Len(queue') + Len(flight') - 0 <= mem'.queued + Asking(queue')
    BY <1>1, <1>3, <1>4, <2>1, <2>2
  <2>6. Flown(0)'
    BY <1>3, <1>4, <2>4, <2>5 DEF Flown
  <2> QED BY <2>3, <2>6 DEF Queueing
<1> QED BY <1>10, <1>11, <1>13, <1>14 DEF Roomy

-----------------------------------------------------------------------------
(* The writer adds a record.                                               *)

LEMMA AppendPlaces ==
    ASSUME Good, Roomy, NEW r, AppendStep(r)
    PROVE  /\ IsFiniteSet(RecordPlaces(seg')) /\ Taken(seg') <= Taken(seg) + 1
           /\ r.ev = Gap => Taken(seg') = Taken(seg)
           /\ EventsIn(seg') = EventsIn(seg) \cup {r.ev}
           /\ Taken(seg) \in Nat /\ Taken(seg') \in Nat
<1>1. /\ seg' = Added(seg, Current, r) /\ r \in Record /\ r.seq = LastSeq + 1
      /\ (wpc = "append" /\ wpc' = "append") \/ (wpc = "gap" /\ wpc' = "gapsync")
  BY DEF AppendStep
<1>2. Current \in DOMAIN seg
  BY <1>1, HighestName, Types DEF Good, Phase, Current
<1>3. Appended(seg, seg', Current, r)
  <2>1. mem.anchor \in Nat
    BY Types DEF Memory
  <2>2. LastSeq \in Nat /\ \A x \in Recorded(seg) : x.seq \in Nat /\ x.seq <= LastSeq
    BY <2>1, Types, HighestSeq DEF LastSeq
  <2>3. \A x \in Recorded(seg) : x.seq <= r.seq
    BY <1>1, <2>2
  <2>4. Appended(seg, Added(seg, Current, r), Current, r)
    BY <1>1, <1>2, <2>3, Types, AddedIs
  <2> QED BY <1>1, <2>4
<1>4. seg'[Current].recs[Size(seg, Current) + 1] = r
  <2>1. seg[Current] \in Segment /\ seg[Current].recs \in Seq(Record)
    BY <1>2, Types, FileFields DEF Files, File
  <2>2. seg'[Current] = [seg[Current] EXCEPT !.recs = Append(@, r)]
    BY <1>1, <1>2 DEF Added
  <2>3. seg'[Current].recs = Append(seg[Current].recs, r)
    BY <2>1, <2>2 DEF Segment
  <2>4. Append(seg[Current].recs, r)[Len(seg[Current].recs) + 1] = r
    BY <1>1, <2>1, AppendProperties
  <2> QED BY <2>3, <2>4 DEF Size
<1>5. IsFiniteSet(RecordPlaces(seg))
  BY DEF Roomy, Counted
<1>6. Files(seg)
  BY Types
<1>7. /\ IsFiniteSet(RecordPlaces(seg')) /\ Taken(seg') <= Taken(seg) + 1
      /\ r.ev = Gap => Taken(seg') = Taken(seg)
      /\ EventsIn(seg') = EventsIn(seg) \cup {r.ev}
  <2> DEFINE c == Current
             s == seg
             t == seg'
  <2>1. /\ Files(s) /\ c \in DOMAIN s /\ Appended(s, t, c, r) /\ t[c].recs[Size(s, c) + 1] = r
        /\ IsFiniteSet(RecordPlaces(s))
    BY <1>2, <1>3, <1>4, <1>5, <1>6
  <2> HIDE DEF c, s, t
  <2>2. /\ IsFiniteSet(RecordPlaces(t)) /\ Taken(t) <= Taken(s) + 1 /\ (r.ev = Gap => Taken(t) = Taken(s))
        /\ EventsIn(t) = EventsIn(s) \cup {r.ev}
    BY <2>1, AddedPlaces
  <2> QED BY <2>2 DEF s, t
<1> QED BY <1>5, <1>7, EventPlacesFinite

(* As many are written as Flown says.                                      *)
LEMMA FlownWritten ==
    ASSUME NEW w \in Nat, Flown(w), Len(flight) \in Nat
    PROVE  Written = w
<1> DEFINE n == Len(flight)
           W == {k \in 1 .. n : flight[k] \in EventsIn(seg)}
<1>1. w <= n /\ \A k \in 1 .. n : flight[k] \in EventsIn(seg) <=> k <= w
  BY DEF Flown
<1>2. W = 1 .. w
  <2>1. ASSUME NEW k PROVE k \in W <=> k \in 1 .. w
    BY <1>1
  <2> QED BY <2>1
<1>3. Cardinality(1 .. w) = w
  <2>1. 1 \in Int /\ w \in Int /\ (IF 1 > w THEN 0 ELSE w - 1 + 1) = w
    OBVIOUS
  <2>2. Cardinality(1 .. w) = IF 1 > w THEN 0 ELSE w - 1 + 1
    BY <2>1, FS_Interval
  <2> QED BY <2>1, <2>2
<1> QED BY <1>2, <1>3 DEF Written

LEMMA AppendRecordRoomy ==
    ASSUME Good, Roomy, AppendRecord
    PROVE  Roomy'
<1>1. /\ acked' = acked /\ queue' = queue /\ flight' = flight /\ apc' = apc /\ left' = left
      /\ hist' = hist /\ mem' = [mem EXCEPT !.queued = @ - 1]
      /\ wpc = "append" /\ wpc' = "append" /\ Written < Len(flight)
  BY DEF AppendRecord
<1>2. mem'.queued = mem.queued - 1 /\ mem'.status = mem.status /\ mem'.accepting = mem.accepting
  BY <1>1, Types DEF Memory
<1>3. PICK r : AppendStep(r) /\ r.ev = NextEvent
  BY AppendRecordIs
<1>4. Counted /\ Once /\ Controls /\ Queueing
  BY DEF Roomy
<1>5. PICK w \in Nat : Flown(w)
  BY <1>1, <1>4 DEF Queueing
<1> DEFINE n == Len(flight)
           e == flight[w + 1]
<1>6. n \in Nat /\ flight \in Seq(Event) /\ DOMAIN flight = 1 .. n
  BY Types, LenProperties
<1>7. w < n /\ r.ev = e
  BY <1>1, <1>3, <1>5, <1>6, FlownWritten DEF NextEvent
<1> HIDE DEF n
<1>8. w + 1 \in 1 .. n
  BY <1>6, <1>7
<1>9. e \in Event /\ e \in ToSet(flight) /\ e # Gap
  <2>1. e \in Event /\ e \in ToSet(flight)
    BY <1>6, <1>8, ElementOfSeq DEF ToSet, n
  <2> QED BY <2>1, NotGap
<1>10. \A k \in 1 .. n : flight[k] = e <=> k = w + 1
  <2>1. \A i, j \in 1 .. n : flight[i] = flight[j] => i = j
    BY <1>4 DEF Once, n
  <2> QED BY <1>8, <2>1
<1> HIDE DEF e
<1>11. /\ IsFiniteSet(RecordPlaces(seg')) /\ Taken(seg') <= Taken(seg) + 1
       /\ EventsIn(seg') = EventsIn(seg) \cup {e} /\ Taken(seg) \in Nat /\ Taken(seg') \in Nat
  BY <1>3, <1>7, AppendPlaces
<1>12. /\ Asking(queue) \in Nat /\ Asking(queue) <= Len(queue) /\ Len(queue) \in Nat
  <2>1. Len(queue) \in Nat
    BY Types, LenProperties
  <2>2. Asked(queue) => 1 <= Len(queue)
    BY <2>1 DEF Asked
  <2> QED BY <2>1, <2>2 DEF Asking
<1>13. Len(queue) + n - w <= mem.queued + Asking(queue) /\ mem.queued \in Nat
  BY <1>4, <1>5 DEF Flown, Counted, n
<1>14. mem'.queued \in Nat
  <2> DEFINE q == mem.queued
             a == Asking(queue)
             l == Len(queue)
  <2>1. l + n - w <= q + a /\ q \in Nat /\ a \in Nat /\ a <= l /\ l \in Nat
    BY <1>12, <1>13
  <2> HIDE DEF q, a, l
  <2>2. q - 1 \in Nat
    BY <1>6, <1>7, <2>1
  <2> QED BY <1>2, <2>2 DEF q
<1>15. Counted'
  <2>1. HeldSlots' = HeldSlots /\ Held' = Held /\ Held \in Nat
    BY <1>1, <1>4, HeldNat DEF HeldSlots, Held
  <2>2. acked' = acked /\ Taken(acked') = Taken(acked) /\ Taken(acked) \in Nat
    BY <1>1, <1>4, EventPlacesFinite DEF Counted
  <2> DEFINE q == mem.queued
             h == Held
             s == Taken(seg)
             t == Taken(seg')
             a == Taken(acked)
  <2>3. /\ q \in Nat /\ h \in Nat /\ s \in Nat /\ t \in Nat /\ a \in Nat /\ t <= s + 1
        /\ h + q <= Capacity /\ s + a + h + q <= MaxBytes /\ mem'.queued = q - 1 /\ q - 1 \in Nat
    BY <1>2, <1>4, <1>11, <1>13, <1>14, <2>1, <2>2 DEF Counted
  <2>4. Capacity \in Nat /\ MaxBytes \in Nat
    BY SpoolAssumption
  <2> HIDE DEF q, h, s, t, a
  <2>5. h + (q - 1) <= Capacity /\ t + a + h + (q - 1) <= MaxBytes
    BY <2>3, <2>4
  <2>6. Held' + mem'.queued <= Capacity /\ Taken(seg') + Taken(acked') + Held' + mem'.queued <= MaxBytes
    BY <2>1, <2>2, <2>3, <2>5 DEF h, t, a
  <2> QED BY <1>1, <1>4, <1>11, <1>14, <2>1, <2>6 DEF Counted
<1>16. Once'
  <2>1. Known' \subseteq Known
    BY <1>1, <1>9, <1>11 DEF Known, Queued
  <2>2. Queued' \cap (ToSet(flight') \cup EventsIn(seg')) = {}
    BY <1>1, <1>4, <1>9, <1>11 DEF Once, Queued
  <2>3. \A x \in Request : left'[x] \in Nat /\ left'[x] <= left[x]
    BY <1>1, Types DEF Slots
  <2> QED BY <1>1, <1>4, <2>1, <2>2, <2>3, OnceLess DEF Once
<1>17. Controls'
  BY <1>1, <1>2, <1>4, ControlsQuiet
<1>18. Queueing'
  <2> DEFINE q == mem.queued
             a == Asking(queue)
             l == Len(queue)
  <2>1. l + n - w <= q + a /\ q \in Nat /\ a \in Nat /\ l \in Nat
    BY <1>12, <1>13
  <2> HIDE DEF q, a, l
  <2>2. l + n - (w + 1) <= (q - 1) + a /\ l <= (q - 1) + a /\ w + 1 \in 0 .. n
    BY <1>6, <1>7, <2>1
  <2>3. Len(queue') = l /\ Asking(queue') = a /\ Len(flight') = n /\ mem'.queued = q - 1
    BY <1>1, <1>2 DEF l, a, n, q
  <2>4. ASSUME NEW k \in 1 .. n PROVE flight[k] \in EventsIn(seg') <=> k <= w + 1
    <3>1. flight[k] \in EventsIn(seg) <=> k <= w
      BY <1>5 DEF Flown, n
    <3>2. k <= w + 1 <=> k <= w \/ k = w + 1
      BY <1>6
    <3> QED BY <1>10, <1>11, <3>1, <3>2
  <2>5. Flown(w + 1)'
    BY <1>1, <2>2, <2>3, <2>4 DEF Flown
  <2>6. w + 1 \in Nat
    OBVIOUS
  <2> QED BY <2>2, <2>3, <2>5, <2>6 DEF Queueing
<1> QED BY <1>15, <1>16, <1>17, <1>18 DEF Roomy

LEMMA AppendGapRoomy ==
    ASSUME Good, Roomy, AppendGap
    PROVE  Roomy'
<1>1. /\ acked' = acked /\ queue' = queue /\ flight' = flight /\ apc' = apc /\ left' = left
      /\ hist' = hist /\ mem' = mem /\ wpc = "gap" /\ wpc' = "gapsync"
  BY DEF AppendGap
<1>2. PICK r : AppendStep(r) /\ r.ev = Gap
  BY AppendGapIs
<1>3. /\ IsFiniteSet(RecordPlaces(seg')) /\ Taken(seg') = Taken(seg) /\ Taken(seg) \in Nat
      /\ EventsIn(seg') = EventsIn(seg) \cup {Gap}
  BY <1>2, AppendPlaces
<1>4. Counted /\ Once /\ Controls /\ Queueing
  BY DEF Roomy
<1>5. queue' = <<>>
  BY <1>1, <1>4 DEF Controls, Serving
<1>6. Settles
  <2>1. \A x \in Request : left'[x] \in Nat /\ left'[x] <= left[x]
    BY <1>1, Types DEF Slots
  <2>2. Taken(acked) \in Nat
    BY <1>4, EventPlacesFinite DEF Counted
  <2>3. Taken(seg') + Taken(acked') <= Taken(seg) + Taken(acked)
    BY <1>1, <1>3, <2>2
  <2>4. Stored
    BY <1>1, <1>3, <1>4, <2>3 DEF Stored, Counted
  <2>5. mem'.queued \in Nat /\ mem'.queued <= mem.queued
    BY <1>1, <1>4 DEF Counted
  <2>6. Single(queue')
    BY <1>1, <1>4 DEF Once
  <2> QED BY <1>1, <1>3, <1>5, <2>1, <2>4, <2>5, <2>6 DEF Settles
<1>7. Controls'
  BY <1>1, <1>4, ControlsQuiet DEF Serving
<1>8. Queueing'
  BY <1>1, <1>4, QueueingQuiet
<1> QED BY <1>6, <1>7, <1>8, SettleRoomy

-----------------------------------------------------------------------------
(* Ends and starts.                                                        *)

LEMMA CrashRoomy ==
    ASSUME Good, Roomy, NEW fault \in Faults, Crash(fault)
    PROVE  Roomy'
<1>1. /\ mem' = [mem EXCEPT !.status = "down", !.accepting = FALSE]
      /\ queue' = <<>> /\ flight' = <<>> /\ wpc' = "none" /\ apc' = Idle
      /\ left' = [r \in Request |-> 0] /\ acked' = acked
  BY DEF Crash
<1>2. Less(seg, seg')
  BY CrashCuts DEF CutOff, Less, Left, Size
<1>3. Within(seg, seg')
  BY <1>2, LessWithin, Types
<1>4. mem'.queued = mem.queued
  BY <1>1, Types DEF Memory
<1>5. hist'.used = hist.used
  <2>0. hist \in Events
    BY Types
  <2> DEFINE a == ~(hist.accepted \subseteq EventsIn(seg') \cup EventsPromised)
             b == manifest.clean /\ DOMAIN seg' # manifest.names
  <2>1. hist' = [hist EXCEPT !.accepted = {}, !.lost = @ \/ a, !.cut = @ \/ b]
    BY DEF Crash
  <2> HIDE DEF a, b
  <2> QED BY <2>0, <2>1 DEF Events
<1>6. Counted
  BY DEF Roomy
<1>7. Stored
  <2>1. IsFiniteSet(RecordPlaces(seg')) /\ IsFiniteSet(EventPlaces(seg)) /\ Taken(acked) \in Nat
    <3>1. RecordPlaces(seg') \in SUBSET RecordPlaces(seg)
      BY <1>3 DEF Within
    <3> QED BY <1>6, <3>1, FS_Subset, EventPlacesFinite DEF Counted
  <2>2. Taken(seg') <= Taken(seg) /\ Taken(seg) \in Nat /\ Taken(seg') \in Nat
    <3>1. EventPlaces(seg') \in SUBSET EventPlaces(seg)
      BY <1>3 DEF Within
    <3>2. Taken(seg') <= Taken(seg)
      BY <2>1, <3>1, FS_Subset DEF Taken
    <3> QED BY <1>6, <2>1, <3>2, EventPlacesFinite DEF Counted
  <2>3. Taken(seg') + Taken(acked') <= Taken(seg) + Taken(acked)
    BY <1>1, <2>1, <2>2
  <2> QED BY <1>1, <1>6, <2>1, <2>3 DEF Stored, Counted
<1>8. Settles
  <2>1. \A r \in Request : left'[r] \in Nat /\ left'[r] <= left[r]
    <3>1. \A r \in Request : left'[r] = 0 /\ left[r] \in Nat
      BY <1>1, Types DEF Slots
    <3> QED BY <3>1
  <2>2. mem'.queued \in Nat /\ mem'.queued <= mem.queued
    BY <1>4, <1>6 DEF Counted
  <2>3. EventsOf(queue') = {} /\ Single(queue')
    BY <1>1, EmptyIs
  <2>4. EventsIn(seg') \subseteq EventsIn(seg) /\ EventsIn(acked') = EventsIn(acked)
    BY <1>1, <1>3 DEF Within
  <2> QED BY <1>1, <1>5, <1>7, <2>1, <2>2, <2>3, <2>4 DEF Settles
<1>9. Controls'
  <2>1. ~Asked(queue')
    BY <1>1, EmptyIs
  <2> QED BY <1>1, <2>1, ControlsSilent
<1>10. Queueing'
  BY <1>1, <1>4, <1>6, QueueingEmpty DEF Counted
<1> QED BY <1>8, <1>9, <1>10, SettleRoomy

(* A start reads segments and renamed segments, each once.                 *)
LEMMA RepairedPlaces ==
    ASSUME Good, IsFiniteSet(RecordPlaces(seg)), IsFiniteSet(RecordPlaces(acked))
    PROVE  /\ IsFiniteSet(RecordPlaces(Repaired)) /\ Taken(Repaired) <= Taken(seg) + Taken(acked)
           /\ Taken(Repaired) \in Nat /\ Taken(seg) \in Nat /\ Taken(acked) \in Nat
           /\ EventsIn(Repaired) \subseteq EventsIn(seg) \cup EventsIn(acked)
<1> DEFINE t == Repaired
<1>1. /\ \A i \in DOMAIN t : i \in DOMAIN seg \/ i \in DOMAIN acked
      /\ \A i \in DOMAIN t : i \in DOMAIN seg => t[i] = seg[i]
      /\ \A i \in DOMAIN t : i \notin DOMAIN seg => t[i] = acked[i]
  BY RepairedIs
<1> HIDE DEF t
<1>2. \A i \in DOMAIN t : \/ i \in DOMAIN seg /\ t[i] = seg[i] /\ Size(t, i) = Size(seg, i)
                          \/ i \in DOMAIN acked /\ t[i] = acked[i] /\ Size(t, i) = Size(acked, i)
  BY <1>1 DEF Size
<1>3. RecordPlaces(t) \in SUBSET (RecordPlaces(seg) \cup RecordPlaces(acked))
  <2> SUFFICES ASSUME NEW p, p \in RecordPlaces(t) PROVE p \in RecordPlaces(seg) \/ p \in RecordPlaces(acked)
    OBVIOUS
  <2> QED BY <1>2, PlaceIs
<1>4. EventPlaces(t) \in SUBSET (EventPlaces(seg) \cup EventPlaces(acked))
  <2> SUFFICES ASSUME NEW p, p \in EventPlaces(t) PROVE p \in EventPlaces(seg) \/ p \in EventPlaces(acked)
    OBVIOUS
  <2> QED BY <1>2, PlaceIs
<1>5. Recorded(t) \subseteq Recorded(seg) \cup Recorded(acked)
  BY <1>2 DEF Recorded
<1>6. EventsIn(t) \subseteq EventsIn(seg) \cup EventsIn(acked)
  BY <1>5 DEF EventsIn
<1>7. IsFiniteSet(RecordPlaces(t))
  BY <1>3, FS_Union, FS_Subset
<1>8. /\ Taken(t) \in Nat /\ Taken(seg) \in Nat /\ Taken(acked) \in Nat
      /\ IsFiniteSet(EventPlaces(seg)) /\ IsFiniteSet(EventPlaces(acked))
  BY <1>7, EventPlacesFinite
<1> DEFINE S == EventPlaces(seg)
           A == EventPlaces(acked)
<1>9. EventPlaces(t) \in SUBSET (S \cup A) /\ IsFiniteSet(S) /\ IsFiniteSet(A)
  BY <1>4, <1>8
<1>10. Taken(t) <= Taken(seg) + Taken(acked)
  <2>1. Taken(seg) = Cardinality(S) /\ Taken(acked) = Cardinality(A) /\ Taken(t) = Cardinality(EventPlaces(t))
    BY DEF Taken
  <2> HIDE DEF S, A
  <2>2. /\ IsFiniteSet(S \cup A) /\ IsFiniteSet(S \cap A)
        /\ Cardinality(S \cup A) = Cardinality(S) + Cardinality(A) - Cardinality(S \cap A)
    BY <1>9, FS_Union, FS_Intersection
  <2>3. Cardinality(EventPlaces(t)) <= Cardinality(S \cup A)
    BY <1>9, <2>2, FS_Subset
  <2>4. Cardinality(S \cap A) \in Nat
    BY <2>2, FS_CardinalityType
  <2> DEFINE u == Cardinality(S)
             v == Cardinality(A)
             x == Cardinality(S \cap A)
             y == Cardinality(EventPlaces(t))
  <2>5. u \in Nat /\ v \in Nat /\ x \in Nat /\ y \in Nat /\ y <= u + v - x
    BY <1>8, <2>1, <2>2, <2>3, <2>4
  <2> HIDE DEF u, v, x, y
  <2>6. y <= u + v
    BY <2>5
  <2> QED BY <2>1, <2>6 DEF u, v, y
<1> QED BY <1>6, <1>7, <1>8, <1>10 DEF t

LEMMA OpenRoomy ==
    ASSUME Good, Roomy, Open
    PROVE  Roomy'
<1>1. /\ queue' = queue /\ flight' = flight /\ apc' = apc /\ left' = left /\ hist' = hist
      /\ mem.status = "down"
  BY DEF Open
<1>2. wpc = "none"
  BY <1>1 DEF Good, Phase
<1>3. queue' = <<>> /\ Counted
  BY <1>1, <1>2 DEF Roomy, Controls, Serving
<1>4. \A r \in Request : left'[r] \in Nat /\ left'[r] <= left[r]
  BY <1>1, Types DEF Slots
<1>5. EventsOf(queue') = EventsOf(queue) /\ Single(queue') /\ ~Asked(queue')
  BY <1>1, <1>3, EmptyIs
<1>6. CASE Readable(Scanned(Repaired))
  <2> DEFINE s == Scanned(Repaired)
  <2>1. /\ seg' = s /\ acked' = << >> /\ wpc' = "open"
        /\ mem' = [status |-> "opening", accepting |-> FALSE, queued |-> 0,
                   anchor |-> manifest.anchor, list |-> DOMAIN s]
    BY <1>6 DEF Open
  <2>2. Level(Repaired, s)
    BY RepairedIs, ScannedIs, SameLevel
  <2> HIDE DEF s
  <2>3. /\ IsFiniteSet(RecordPlaces(Repaired)) /\ Taken(Repaired) <= Taken(seg) + Taken(acked)
        /\ Taken(Repaired) \in Nat /\ Taken(seg) \in Nat /\ Taken(acked) \in Nat
        /\ EventsIn(Repaired) \subseteq EventsIn(seg) \cup EventsIn(acked)
    BY <1>3, RepairedPlaces DEF Counted
  <2>4. IsFiniteSet(RecordPlaces(s)) /\ Taken(s) = Taken(Repaired) /\ EventsIn(s) = EventsIn(Repaired)
    BY <2>2, <2>3 DEF Level, Taken
  <2>5. RecordPlaces(acked') = {} /\ Taken(acked') = 0 /\ EventsIn(acked') = {}
    <3>1. DOMAIN acked' = {} /\ Recorded(acked') = {}
      BY <2>1, NoFiles
    <3>2. RecordPlaces(acked') = {} /\ EventPlaces(acked') = {} /\ EventsIn(acked') = {}
      BY <3>1, PlaceIs DEF EventsIn
    <3> QED BY <3>2, FS_EmptySet DEF Taken
  <2>6. Stored
    <3>1. Taken(seg') + Taken(acked') <= Taken(seg) + Taken(acked)
      BY <2>1, <2>3, <2>4, <2>5
    <3> QED BY <2>1, <2>4, <2>5, <3>1, FS_EmptySet DEF Stored
  <2>7. mem'.queued \in Nat /\ mem'.queued <= mem.queued
    BY <1>3, <2>1 DEF Counted
  <2>8. Settles
    BY <1>1, <1>3, <1>4, <1>5, <2>1, <2>3, <2>4, <2>5, <2>6, <2>7 DEF Settles
  <2>9. Controls'
    BY <1>3, <1>5, <2>1, ControlsSilent
  <2>10. Queueing'
    BY <1>3, <2>1, <2>7, QueueingEmpty
  <2> QED BY <2>8, <2>9, <2>10, SettleRoomy
<1>7. CASE ~Readable(Scanned(Repaired))
  <2>1. seg' = seg /\ acked' = acked /\ wpc' = wpc /\ mem' = [mem EXCEPT !.status = "corrupt"]
    BY <1>7 DEF Open
  <2>2. mem'.queued = mem.queued
    BY <2>1, Types DEF Memory
  <2>3. Quiet
    BY <1>1, <2>1, <2>2, LevelSelf DEF Quiet
  <2>4. Controls'
    BY <1>2, <1>3, <1>5, <2>1, ControlsSilent
  <2> QED BY <1>1, <2>1, <2>3, <2>4, QuietRoomy
<1> QED BY <1>6, <1>7

LEMMA StayRoomy ==
    ASSUME Good, Roomy, UNCHANGED vars
    PROVE  Roomy'
<1>1. /\ seg' = seg /\ acked' = acked /\ mem' = mem /\ queue' = queue /\ flight' = flight
      /\ wpc' = wpc /\ apc' = apc /\ left' = left /\ hist' = hist
  BY DEF vars
<1>2. Quiet
  BY <1>1, LevelSelf DEF Quiet
<1>3. Controls'
  BY <1>1 DEF Roomy, Controls, MaintenanceFree
<1> QED BY <1>1, <1>2, <1>3, QuietRoomy

LEMMA InitRoomy ==
    ASSUME Init
    PROVE  Roomy
<1>1. /\ seg = << >> /\ acked = << >> /\ mem.queued = 0 /\ queue = <<>> /\ flight = <<>> /\ wpc = "open"
      /\ left = [r \in Request |-> 0]
  BY DEF Init
<1>2. /\ DOMAIN << >> = {} /\ Recorded(<< >>) = {}
  BY NoFiles
<1>3. RecordPlaces(<< >>) = {} /\ EventPlaces(<< >>) = {} /\ EventsIn(<< >>) = {}
  BY <1>2, PlaceIs DEF EventsIn
<1>4. IsFiniteSet({}) /\ Cardinality({}) = 0
  BY FS_EmptySet
<1>5. HeldSlots = {}
  <2> SUFFICES ASSUME NEW e \in Event, e.n <= left[e.req] PROVE FALSE
    BY DEF HeldSlots
  <2>1. e.req \in Request /\ e.n \in 1 .. Budget[e.req] /\ e.n \in Nat
    BY EventHas
  <2>2. left[e.req] = 0 /\ e.n # 0
    BY <1>1, <2>1
  <2> QED BY <2>1, <2>2
<1>6. Held = 0 /\ Taken(seg) = 0 /\ Taken(acked) = 0
  BY <1>1, <1>3, <1>4, <1>5 DEF Held, Taken
<1>7. Counted
  <2>1. Capacity \in Nat /\ MaxBytes \in Nat
    BY SpoolAssumption
  <2>2. IsFiniteSet(HeldSlots) /\ IsFiniteSet(RecordPlaces(seg)) /\ IsFiniteSet(RecordPlaces(acked))
    BY <1>1, <1>3, <1>4, <1>5
  <2>3. mem.queued = 0
    BY <1>1
  <2>4. 0 + 0 <= Capacity /\ 0 + 0 + 0 + 0 <= MaxBytes /\ 0 \in Nat
    BY <2>1
  <2> QED BY <1>6, <2>2, <2>3, <2>4 DEF Counted
<1>8. Queued = {} /\ ToSet(flight) = {} /\ Len(flight) = 0 /\ Len(queue) = 0
  BY <1>1, EmptyIs DEF Queued, EventsOf
<1>9. Known = {}
  BY <1>1, <1>3, <1>8 DEF Known
<1>10. Once
  <2>1. \A i, j \in 1 .. Len(flight) : flight[i] = flight[j] => i = j
    BY <1>8
  <2>2. Single(queue)
    BY <1>1, EmptyIs
  <2> QED BY <1>1, <1>8, <1>9, <2>1, <2>2 DEF Once
<1>11. Controls
  <2>1. ~Asked(queue) /\ Controlled(queue)
    BY <1>1, EmptyIs
  <2>2. \A i \in 1 .. Len(queue) : FALSE
    BY <1>8
  <2> QED BY <1>1, <2>1, <2>2 DEF Controls
<1>12. Queueing
  <2>1. Asking(queue) \in Nat
    BY DEF Asking
  <2> QED BY <1>1, <1>8, <2>1 DEF Queueing
<1> QED BY <1>7, <1>10, <1>11, <1>12 DEF Roomy

LEMMA NextRoomy ==
    ASSUME Good, Roomy, [Next]_vars
    PROVE  Roomy'
<1>1. CASE \E r \in Request : Reserve(r) \/ Emit(r) \/ EmitTerminal(r) \/ PreserveTerminal(r)
  BY <1>1, ReserveRoomy, EmitRoomy, PreserveRoomy
<1>2. CASE Writer
  BY <1>2, TakeRoomy, StartAppendRoomy, AppendRecordRoomy, RotateSyncRoomy, WidenRoomy,
     WriterQuietRoomy, SyncRoomy, ManifestRoomy, FlushDoneRoomy, StopRoomy, DrainRoomy DEF Writer
<1>3. CASE WriterFails
  BY <1>3, WriterFailsRoomy
<1>4. CASE (\E c \in 1 .. LastSeq : AckStart(c)) \/ AckFails
  BY <1>4, AckQuietRoomy
<1>5. CASE Close
  BY <1>5, CloseRoomy
<1>6. CASE Acknowledge
  BY <1>6, AckFlushRoomy, TimesOutRoomy, AckQuietRoomy, RenameRoomy, UnlinkRoomy DEF Acknowledge
<1>7. CASE \E fault \in Faults : Crash(fault)
  BY <1>7, CrashRoomy
<1>8. CASE Start
  BY <1>8, OpenRoomy, WidenRoomy, AppendGapRoomy, SyncRoomy, OpenManifestRoomy DEF Start
<1>9. CASE UNCHANGED vars
  BY <1>9, StayRoomy
<1> QED BY <1>1, <1>2, <1>3, <1>4, <1>5, <1>6, <1>7, <1>8, <1>9 DEF Next

LEMMA RoomyHolds ==
    ASSUME Good, Roomy
    PROVE  SlotsHold
<1>1. Counted /\ Queueing
  BY DEF Roomy
<1>2. Held \in Nat /\ Len(queue) \in Nat /\ Capacity \in Nat
  BY <1>1, HeldNat, Types, LenProperties, SpoolAssumption
<1>3. mem.queued \in Nat /\ Held + mem.queued <= Capacity
  BY <1>1 DEF Counted
<1>4. Asking(queue) \in Nat /\ Asking(queue) <= 1 /\ Len(queue) <= mem.queued + Asking(queue)
  BY <1>1 DEF Asking, Queueing
<1> DEFINE l == Len(queue)
           q == mem.queued
           h == Held
           a == Asking(queue)
<1>5. /\ l \in Nat /\ q \in Nat /\ h \in Nat /\ a \in Nat /\ Capacity \in Nat
      /\ h + q <= Capacity /\ a <= 1 /\ l <= q + a
  BY <1>2, <1>3, <1>4
<1> HIDE DEF l, q, h, a
<1>6. l <= Capacity + 1
  BY <1>5
<1>7. Taken(seg) + Taken(acked) + Held + mem.queued <= MaxBytes
  BY <1>1 DEF Counted
<1>8. /\ Taken(seg) = Cardinality({p \in RecordPlaces(seg) : seg[p[1]].recs[p[2]].ev # Gap})
      /\ Taken(acked) = Cardinality({p \in RecordPlaces(acked) : acked[p[1]].recs[p[2]].ev # Gap})
  BY DEF Taken, EventPlaces
<1>9. Len(queue) <= Capacity + 1
  BY <1>6 DEF l
<1> QED BY <1>7, <1>8, <1>9 DEF SlotsHold

(* A reservation is authoritative, in every interleaving of the requests,  *)
(* the writer, its failures, the consumer, crashes and restarts: an event  *)
(* that holds a slot never meets a full queue, and the events on disk, on  *)
(* their way and promised a place never exceed the spool (try_reserve,     *)
(* _submit, _write_batch).                                                 *)
THEOREM SpoolSlotsHold == Spec => []SlotsHold
<1>1. Init => Good /\ Roomy
  BY InitGood, InitRoomy
<1>2. Good /\ Roomy /\ [Next]_vars => Good' /\ Roomy'
  BY NextMoves, NextRoomy DEF Moves
<1>3. Good /\ Roomy => SlotsHold
  BY RoomyHolds
<1> QED BY <1>1, <1>2, <1>3, PTL DEF Spec
=============================================================================
