--------------------------- MODULE AttemptJournal ---------------------------
(***************************************************************************)
(* The attempt journal (gateway/journal.py): segment files, a manifest and *)
(* two checkpoints, written by one thread and read back by _recover.       *)
(*                                                                         *)
(* Every record carries the digest of its predecessor, so a digest stands  *)
(* for the whole history before it.  The model makes that literal: a       *)
(* record IS the history it ends (a sequence of values), its sequence      *)
(* number is the length and previous_digest is the history without its     *)
(* last value.  A checkpoint's snapshot is the history it summarises.      *)
(*                                                                         *)
(* The callers are serialised by RuntimeState._lock, so one command is in  *)
(* flight and a batch has one record.  The writer's steps are separated    *)
(* where another outcome may strike: an I/O error, a killed process (what  *)
(* was written stays in the page cache) or a power loss (what was not      *)
(* fdatasynced may be cut anywhere, a file whose directory was not synced  *)
(* may be gone).  Directory operations reach the disk in order.            *)
(***************************************************************************)
EXTENDS Integers, Sequences, FiniteSets, FiniteSetsExt, SequencesExt, TLC

CONSTANTS
    Value,        \* record payloads
    SegmentCap,   \* records that fit a segment (segment_bytes)
    MaxSeq,       \* bound: records written
    MaxCkpt,      \* bound: checkpoints written
    Ends,         \* bound: processes killed or closed, with power losses: [stop, power]
    MaxFail,      \* bound: I/O errors
    MaxRot        \* bound: checkpoint files that become unreadable

ASSUME JournalAssumption ==
    /\ SegmentCap \in Nat \ {0}
    /\ {MaxSeq, MaxCkpt, MaxFail, MaxRot} \subseteq Nat
    /\ Ends \subseteq [stop : Nat, power : Nat]

VARIABLES
    seg,        \* segment files, by the sequence number in their name
    manifest,   \* history the manifest names
    ckpt,       \* checkpoint files, by the order of their names
    status,     \* "healthy", "recovery_required" or "down"
    pc,         \* where the writer thread is
    arg,        \* the value being appended, in a sequence of its own
    last,       \* _last_sequence and _last_digest
    open,       \* start of the open segment, 0 if none
    safe,       \* sequence up to which segments may be deleted
    acked,      \* history the callers rely on
    told,       \* the last sequence number returned to a caller
    count       \* what the bounds count

files  == <<seg, manifest, ckpt>>
writer == <<pc, arg, last, open, safe>>
vars   == <<seg, manifest, ckpt, status, pc, arg, last, open, safe, acked, told, count>>

NewSegment == [recs |-> <<>>, synced |-> 0, torn |-> FALSE, linked |-> FALSE]

Counted(what) == count' = [count EXCEPT ![what] = @ + 1]
Ended(what) ==
    /\ Counted(what)
    /\ \E e \in Ends : count'.stop <= e.stop /\ count'.power <= e.power

-----------------------------------------------------------------------------
(* _recover, as a function of the files.                                   *)

Readable == {i \in DOMAIN ckpt : ckpt[i].readable}

(* Checkpoints are sorted by sequence, then by name.                       *)
Before(i, j) == \/ Len(ckpt[i].at) < Len(ckpt[j].at)
                \/ Len(ckpt[i].at) = Len(ckpt[j].at) /\ i < j

Newest(I) == CHOOSE i \in I : \A j \in I \ {i} : Before(j, i)

Eldest(I) == CHOOSE i \in I : \A j \in I \ {i} : Before(i, j)

Base == IF Readable = {} THEN <<>> ELSE ckpt[Newest(Readable)].at

Records == UNION {{<<s, i>> : i \in 1..Len(seg[s].recs)} : s \in DOMAIN seg}
Rec(p)  == seg[p[1]].recs[p[2]]

(* The records behind the base; older ones are skipped.                    *)
Replayed == {p \in Records : Len(Rec(p)) > Len(Base)}

RecoveredAt == Len(Base) + Cardinality(Replayed)
RecoveredHistory ==
    IF Replayed = {} THEN Base
    ELSE Rec(CHOOSE p \in Replayed : \A q \in Replayed : Len(Rec(q)) <= Len(Rec(p)))

(* No gap, no record twice, and every record extends its predecessor.      *)
Chained ==
    /\ {Len(Rec(p)) : p \in Replayed} = (Len(Base) + 1)..RecoveredAt
    /\ \A p \in Replayed :
          \/ Front(Rec(p)) = Base
          \/ \E q \in Replayed : Front(Rec(p)) = Rec(q)

(* Only the newest segment may end in an incomplete line.                  *)
OnlyTailTorn == \A s \in DOMAIN seg : seg[s].torn => s = Max(DOMAIN seg)

ManifestFits ==
    /\ Len(manifest) <= RecoveredAt
    /\ Len(manifest) = RecoveredAt => manifest = RecoveredHistory

Recovers ==
    /\ DOMAIN ckpt # {} => Readable # {}
    /\ OnlyTailTorn /\ Chained /\ ManifestFits

-----------------------------------------------------------------------------
(* Appending one record: _append, _write_append_batch.                     *)

Idle == status = "healthy" /\ pc = "idle"

Call(v) ==
    /\ Idle /\ Len(last) < MaxSeq
    /\ pc' = "write" /\ arg' = <<v>>
    /\ UNCHANGED <<seg, manifest, ckpt, status, last, open, safe, acked, told, count>>

(* _ensure_segment, and the segments after a record went to its segment.   *)
Full == open # 0 /\ Len(seg[open].recs) >= SegmentCap

Target == IF open = 0 \/ Full THEN Len(last) + 1 ELSE open
Flushed == IF open = 0 THEN seg ELSE [seg EXCEPT ![open].synced = Len(seg[open].recs)]

Opened ==
    LET f == IF Full THEN Flushed ELSE seg
    IN  [s \in DOMAIN f \cup {Target} |-> IF s \in DOMAIN f THEN f[s] ELSE NewSegment]

Written == [Opened EXCEPT ![Target].recs = Append(@, last \o arg)]

WriteRecord ==
    /\ pc = "write"
    /\ seg' = Written /\ open' = Target /\ last' = last \o arg
    /\ pc' = "sync" /\ arg' = <<>>
    /\ UNCHANGED <<manifest, ckpt, status, safe, acked, told, count>>

(* Mutant of SyncRecord: the record is not synced before the manifest.     *)
SkipSync ==
    /\ pc = "sync" /\ pc' = "manifest"
    /\ UNCHANGED <<seg, manifest, ckpt, status, arg, last, open, safe, acked, told, count>>

SyncRecord ==
    /\ pc = "sync"
    /\ seg' = Flushed
    /\ pc' = "manifest"
    /\ UNCHANGED <<manifest, ckpt, status, arg, last, open, safe, acked, told, count>>

Linked(f) == [s \in DOMAIN f |-> [f[s] EXCEPT !.linked = TRUE]]

(* _write_manifest replaces the file and syncs the directory.              *)
WriteManifest ==
    /\ pc = "manifest"
    /\ manifest' = last /\ seg' = Linked(seg)
    /\ pc' = "ack"
    /\ UNCHANGED <<ckpt, status, arg, last, open, safe, acked, told, count>>

(* Mutant of Acknowledge: the caller also hears before the record is synced. *)
AcknowledgeUnsynced ==
    /\ pc \in {"sync", "ack"}
    /\ acked' = last /\ told' = Len(last)
    /\ pc' = IF pc = "ack" THEN "idle" ELSE pc
    /\ UNCHANGED <<seg, manifest, ckpt, status, arg, last, open, safe, count>>

Acknowledge ==
    /\ pc = "ack"
    /\ acked' = last /\ told' = Len(last) /\ pc' = "idle"
    /\ UNCHANGED <<seg, manifest, ckpt, status, arg, last, open, safe, count>>

-----------------------------------------------------------------------------
(* Writing a checkpoint: _write_checkpoint, _compact_segments.             *)

CallCheckpoint ==
    /\ Idle /\ count.ckpt < MaxCkpt
    /\ pc' = "snapshot" /\ Counted("ckpt")
    /\ UNCHANGED <<seg, manifest, ckpt, status, arg, last, open, safe, acked, told>>

Renamed ==
    [i \in DOMAIN ckpt \cup {count.ckpt} |->
        IF i = count.ckpt THEN [at |-> last, readable |-> TRUE] ELSE ckpt[i]]

(* The temporary file is complete and synced before it is renamed.         *)
RenameCheckpoint ==
    /\ pc = "snapshot"
    /\ ckpt' = Renamed
    /\ seg' = Linked(seg)
    /\ pc' = "prune"
    /\ UNCHANGED <<manifest, status, arg, last, open, safe, acked, told, count>>

(* Read the new checkpoint back, then drop all but the two newest that can *)
(* be read; segments go only up to the older of the two.                   *)
Obsolete == {i \in Readable : Cardinality({j \in Readable : Before(i, j)}) >= 2}

PruneCheckpoints ==
    LET kept == Readable \ Obsolete
    IN  /\ pc = "prune" /\ ckpt[count.ckpt].readable
        /\ ckpt' = [i \in DOMAIN ckpt \ Obsolete |-> ckpt[i]]
        /\ IF Cardinality(kept) = 2
           THEN /\ pc' = "compact" /\ safe' = Len(ckpt[Eldest(kept)].at)
                /\ open' = 0 /\ seg' = Flushed
           ELSE pc' = "idle" /\ UNCHANGED <<seg, open, safe>>
        /\ UNCHANGED <<manifest, status, arg, last, acked, told, count>>

(* A segment ends before the next one starts; the newest always stays.     *)
Deletable == {s \in DOMAIN seg : \E t \in DOMAIN seg :
                 /\ t > s /\ \A u \in DOMAIN seg : u > s => t <= u
                 /\ t - 1 <= safe}

DeleteSegment ==
    /\ pc = "compact" /\ Deletable # {}
    /\ seg' = Linked([s \in DOMAIN seg \ {Min(Deletable)} |-> seg[s]])
    /\ UNCHANGED <<manifest, ckpt, status, pc, arg, last, open, safe, acked, told, count>>

Compacted ==
    /\ pc = "compact" /\ Deletable = {}
    /\ pc' = "idle" /\ safe' = 0
    /\ UNCHANGED <<seg, manifest, ckpt, status, arg, last, open, acked, told, count>>

-----------------------------------------------------------------------------
(* What goes wrong.                                                        *)

(* How much of the record in flight has reached the file by now.           *)
Partial ==
    IF pc # "write" THEN {seg}
    ELSE {seg, Opened, Written, [Opened EXCEPT ![Target].torn = TRUE]}

(* An I/O error: the writer fails its command and stops for good.  A       *)
(* checkpoint that cannot be read back is one.                             *)
WriterFails ==
    /\ status = "healthy" /\ pc \notin {"idle", "ack"}
    /\ \/ count.fail < MaxFail /\ Counted("fail")
       \/ /\ pc = "prune" /\ ~ckpt[count.ckpt].readable
          /\ UNCHANGED count
    /\ \/ seg' \in Partial /\ UNCHANGED <<manifest, ckpt>>
       \/ /\ pc = "manifest" /\ manifest' = last
          /\ seg' = Linked(seg) /\ UNCHANGED ckpt
       \/ /\ pc = "snapshot" /\ ckpt' = Renamed
          /\ seg' = Linked(seg) /\ UNCHANGED manifest
    /\ status' = "recovery_required" /\ pc' = "idle" /\ open' = 0
    /\ arg' = <<>> /\ safe' = 0
    /\ UNCHANGED <<last, acked, told>>

(* The media fail under a checkpoint.                                      *)
Rot(i) ==
    /\ count.rot < MaxRot /\ ckpt[i].readable
    /\ ckpt' = [ckpt EXCEPT ![i].readable = FALSE]
    /\ Counted("rot")
    /\ UNCHANGED <<seg, manifest, status, writer, acked, told>>

Gone == /\ status' = "down" /\ pc' = "idle" /\ open' = 0 /\ last' = <<>>
        /\ arg' = <<>> /\ safe' = 0
        /\ UNCHANGED <<acked, told>>

(* close: the writer drains, syncs the open segment and stops.             *)
Close ==
    /\ status # "down" /\ pc = "idle" /\ Gone
    /\ seg' = Flushed
    /\ Ended("stop")
    /\ UNCHANGED <<manifest, ckpt>>

Kill ==
    /\ status # "down" /\ Gone
    /\ Ended("stop")
    /\ seg' \in Partial
    /\ UNCHANGED <<manifest, ckpt>>

(* What a power loss may leave of a segment.                               *)
Cut(g) ==
    {[recs |-> SubSeq(g.recs, 1, k), synced |-> k, torn |-> t, linked |-> TRUE] :
        k \in g.synced..Len(g.recs), t \in BOOLEAN}

Remains(g) ==
    {h \in Cut(g) : h.torn => g.torn \/ Len(h.recs) < Len(g.recs)}

PowerLoss ==
    /\ status # "down" /\ Gone
    /\ Ended("power")
    /\ \E now \in Partial :
       \E D \in SUBSET DOMAIN now :
          /\ \A s \in DOMAIN now \ D : ~now[s].linked
          /\ seg' \in {f \in [D -> UNION {Remains(now[s]) : s \in D}] :
                          \A s \in D : f[s] \in Remains(now[s])}
    /\ UNCHANGED <<manifest, ckpt>>

(* _recover at the next start.  An incomplete last line is cut off and the *)
(* file synced; nothing else is written back.                              *)
Boot ==
    /\ status = "down"
    /\ IF Recovers
       THEN /\ status' = "healthy" /\ last' = RecoveredHistory
            /\ acked' = RecoveredHistory
            /\ seg' = IF \E s \in DOMAIN seg : seg[s].torn
                      THEN Linked([seg EXCEPT ![Max(DOMAIN seg)].torn = FALSE,
                             ![Max(DOMAIN seg)].synced = Len(seg[Max(DOMAIN seg)].recs)])
                      ELSE seg
       ELSE status' = "recovery_required" /\ UNCHANGED <<last, acked, seg>>
    /\ UNCHANGED <<manifest, ckpt, pc, arg, open, safe, told, count>>

-----------------------------------------------------------------------------
Init ==
    /\ seg = <<>> /\ manifest = <<>> /\ ckpt = <<>>
    /\ status = "healthy" /\ pc = "idle"
    /\ arg = <<>> /\ last = <<>> /\ open = 0 /\ safe = 0
    /\ acked = <<>> /\ told = 0
    /\ count = [ckpt |-> 0, stop |-> 0, power |-> 0, fail |-> 0, rot |-> 0]

Next ==
    \/ \E v \in Value : Call(v)
    \/ WriteRecord \/ SyncRecord \/ WriteManifest \/ Acknowledge
    \/ CallCheckpoint \/ RenameCheckpoint \/ PruneCheckpoints
    \/ DeleteSegment \/ Compacted
    \/ WriterFails
    \/ \E i \in DOMAIN ckpt : Rot(i)
    \/ Close \/ Kill \/ PowerLoss
    \/ Boot

Spec == Init /\ [][Next]_vars
-----------------------------------------------------------------------------
(* Whatever was killed, cut or failed, the next start finds a journal it   *)
(* accepts: no gap, no record twice, no manifest ahead of the records, as  *)
(* long as one checkpoint can be read (_recover, _compact_segments).       *)
Recoverable == (DOMAIN ckpt # {} => Readable # {}) => Recovers

(* A record that was fdatasynced and returned to its caller is found by    *)
(* the next start (reserve_before_send).                                   *)
ReturnedDurable == told > 0 => Recovers /\ told <= RecoveredAt

(* The journal implements the log its callers rely on: a restart finds     *)
(* every acknowledged record, unchanged, and at most the one in flight     *)
(* besides (reserve_before_send returns only after fdatasync).             *)
Log == INSTANCE DurableLog WITH log <- RecoveredHistory, acked <- Len(acked)
ImplementsLog == Log!Spec
=============================================================================
