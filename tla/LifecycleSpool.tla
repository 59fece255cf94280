--------------------------- MODULE LifecycleSpool ---------------------------
(***************************************************************************)
(* The bounded lifecycle spool (telemetry/writer.py): requests reserve     *)
(* slots and put events on a queue, one thread appends them to segment     *)
(* files, syncs and writes the manifest, a consumer replays and            *)
(* acknowledges, and a start recovers what the last process left.          *)
(*                                                                         *)
(* A record is [seq, ev]: the digest chain is checked at every read, and   *)
(* what breaks it is a record missing under a later one, so the sequence   *)
(* number stands for the digest.  Every record fills one slot              *)
(* (MAX_EVENT_BYTES) and bytes are counted in slots.  JSON files are       *)
(* replaced atomically; the directory is synced with them, which makes     *)
(* every file created before durable.                                      *)
(***************************************************************************)
EXTENDS Integers, Sequences, FiniteSets, FiniteSetsExt, SequencesExt

CONSTANTS
    Request,       \* requests that reserve events
    Budget,        \* Budget[r]: events request r reserves (4 and 2 for each attempt)
    Capacity,      \* queue_capacity
    MaxBytes,      \* max_bytes, in slots
    Watermark,     \* watermark_events
    Batch,         \* batch_records
    SegmentCap,    \* records that fit a segment (segment_bytes)
    Faults,        \* how a process ends without close: "kill", "power"
    MaxTrouble,    \* bound: I/O errors, and ends of a process, closed ones included
    MaxAcks        \* bound: acknowledgements

ASSUME SpoolAssumption ==
    /\ Budget \in [Request -> Nat \ {0, 1}] /\ {Capacity, Batch, SegmentCap} \subseteq Nat \ {0}
    /\ {MaxBytes, Watermark, MaxTrouble, MaxAcks} \subseteq Nat
    /\ Faults \subseteq {"kill", "power"}

VARIABLES
    seg,        \* segment files by index
    acked,      \* segments renamed to .acked, not yet unlinked
    manifest,   \* manifest file: clean, chain anchor, names
    cursor,     \* ACK cursor file (its sequence)
    mem,        \* the process: status, accepting, queued slots, anchor, segment list
    queue,      \* the bounded queue: events and control commands
    flight,     \* events the writer has taken off the queue
    wpc,        \* where the writer thread is
    apc,        \* where the acknowledging consumer is, and its target
    left,       \* left[r]: slots the request still holds
    kept,       \* terminal events preserved in memory (failed_terminal_events)
    hist,       \* what was accepted, promised, lost
    count       \* what the bounds count

vars == <<seg, acked, manifest, cursor, mem, queue, flight, wpc, apc, left, kept,
          hist, count>>
disk == <<seg, acked, manifest, cursor>>

(* Event n of a request; the last of its budget is its terminal event.     *)
Event    == UNION {[req : {r}, n : 1 .. Budget[r]] : r \in Request}
Gap      == [req |-> "gap", n |-> 0]
Terminal(e) == e.n = Budget[e.req]

NewSegment == [recs |-> <<>>, synced |-> 0, torn |-> FALSE, linked |-> FALSE]

Current == Max(DOMAIN seg)

(* A file more, under a name not used yet.                                 *)
With(s, i, file) == [j \in DOMAIN s \cup {i} |-> IF j = i THEN file ELSE s[j]]

(* Every record of the segments, in the order of their names.              *)
Records(s) ==
    LET Upto[i \in 0 .. Max(DOMAIN s \cup {0})] ==
          IF i = 0 THEN <<>>
          ELSE Upto[i - 1] \o (IF i \in DOMAIN s THEN s[i].recs ELSE <<>>)
    IN  Upto[Max(DOMAIN s \cup {0})]

EventsPromised == {r.ev : r \in hist.promised}

Recorded(s) == UNION {ToSet(s[i].recs) : i \in DOMAIN s}
EventsIn(s) == {r.ev : r \in Recorded(s)}

LastSeq == Max({mem.anchor} \cup {r.seq : r \in Recorded(seg)})

(* Where the files have a record, and where a request holds a slot.        *)
RecordPlaces(s) == UNION {{i} \X (1 .. Len(s[i].recs)) : i \in DOMAIN s}
HeldSlots == {e \in Event : e.n <= left[e.req]}

Physical == Cardinality(RecordPlaces(seg)) + Cardinality(RecordPlaces(acked))
Held     == Cardinality(HeldSlots)
Usable   == MaxBytes - Physical - Held - mem.queued

EventCommand(e) == [kind |-> "event", ev |-> e]
Control(k)      == [kind |-> k]

Queued == {queue[i].ev : i \in {j \in 1 .. Len(queue) : queue[j].kind = "event"}}

Idle == [at |-> "idle", to |-> 0]
-----------------------------------------------------------------------------
(* The request path.                                                       *)

(* Mutant of HasSlots: events already queued are not counted.              *)
HasSlotsUnqueued(r) ==
    /\ Usable >= Watermark /\ Usable >= Budget[r]
    /\ Held + Budget[r] <= Capacity

HasSlots(r) ==
    /\ Usable >= Watermark /\ Usable >= Budget[r]
    /\ Held + mem.queued + Budget[r] <= Capacity

(* _submit: the event moves from the reservation to the queue.            *)
Submit(e, rest) ==
    /\ mem.status = "healthy"
    /\ left' = [left EXCEPT ![e.req] = rest]
    /\ queue' = Append(queue, EventCommand(e))
    /\ mem' = [mem EXCEPT !.queued = @ + 1]
    /\ hist' = [hist EXCEPT !.accepted = @ \cup {e}, !.used = @ \cup {e.req}]

(* try_reserve, and the first event of the lifecycle.                      *)
Reserve(r) ==
    /\ mem.accepting /\ HasSlots(r) /\ r \notin hist.used
    /\ Submit([req |-> r, n |-> 1], Budget[r] - 1)
    /\ UNCHANGED <<disk, flight, wpc, apc, kept, count>>

(* A failed spool refuses an event that is not terminal, and nothing       *)
(* changes: it accepts no reservation any more.                            *)
Emit(r) ==
    /\ left[r] >= 2
    /\ Submit([req |-> r, n |-> Budget[r] - left[r] + 1], left[r] - 1)
    /\ UNCHANGED <<disk, flight, wpc, apc, kept, count>>

(* The terminal event, and release_unused of the rest of the budget.       *)
EmitTerminal(r) ==
    /\ left[r] >= 1
    /\ Submit([req |-> r, n |-> Budget[r]], 0)
    /\ UNCHANGED <<disk, flight, wpc, apc, kept, count>>

(* The same with a failed spool: _preserve_failed_terminal.                *)
PreserveTerminal(r) ==
    /\ mem.status = "failed" /\ left[r] >= 1
    /\ left' = [left EXCEPT ![r] = 0]
    /\ kept' = kept \cup {[req |-> r, n |-> Budget[r]]}
    /\ hist' = [hist EXCEPT !.accepted = @ \cup {[req |-> r, n |-> Budget[r]]}]
    /\ UNCHANGED <<disk, mem, queue, flight, wpc, apc, count>>
-----------------------------------------------------------------------------
(* The writer thread.  It holds the maintenance lock while it appends and  *)
(* while it syncs, not in between.                                         *)

MaintenanceFree == apc.at \notin {"cursor", "rename", "manifest", "unlink"}

(* A batch ends at a terminal event, at a control command, at its size or  *)
(* when its time is over.                                                  *)
Batches ==
    {n \in 1 .. Batch :
        /\ n <= Len(queue)
        /\ \A i \in 1 .. n : queue[i].kind = "event"
        /\ \A i \in 1 .. n - 1 : ~Terminal(queue[i].ev)}

TakeBatch ==
    /\ wpc = "idle"
    /\ \E n \in Batches :
         /\ flight' = [i \in 1 .. n |-> queue[i].ev]
         /\ queue' = SubSeq(queue, n + 1, Len(queue))
    /\ wpc' = "batch"
    /\ UNCHANGED <<disk, mem, apc, left, kept, hist, count>>

StartAppend ==
    /\ wpc = "batch" /\ MaintenanceFree
    /\ wpc' = "append"
    /\ UNCHANGED <<disk, mem, queue, flight, apc, left, kept, hist, count>>

Written == Cardinality({k \in 1 .. Len(flight) : flight[k] \in EventsIn(seg)})
NextEvent == flight[Written + 1]

AppendRecord ==
    /\ wpc = "append" /\ Written < Len(flight)
    /\ Len(seg[Current].recs) < SegmentCap
    /\ seg' = [seg EXCEPT ![Current].recs =
                 Append(@, [seq |-> LastSeq + 1, ev |-> NextEvent])]
    /\ mem' = [mem EXCEPT !.queued = @ - 1]
    /\ UNCHANGED <<acked, manifest, cursor, queue, flight, wpc, apc, left, kept, hist, count>>

(* fdatasync of the open segment, then the manifest and its directory.     *)
Synced(s)    == [s EXCEPT ![Current].synced = Len(s[Current].recs)]
Linked(s)    == [i \in DOMAIN s |-> [s[i] EXCEPT !.linked = TRUE]]
Promised(s)  == [hist EXCEPT !.promised = @ \cup Recorded(s)]

(* Mutant of NewManifest: a running spool is marked clean.                 *)
CleanManifest(clean) == [clean |-> TRUE, anchor |-> mem.anchor, names |-> mem.list]

NewManifest(clean) == [clean |-> clean, anchor |-> mem.anchor, names |-> mem.list]

(* _rotate_if_needed: sync, manifest, close, and a new file.               *)
RotateSync ==
    /\ wpc = "append" /\ Written < Len(flight)
    /\ Len(seg[Current].recs) >= SegmentCap /\ seg[Current].synced < SegmentCap
    /\ seg' = Linked(Synced(seg)) /\ manifest' = NewManifest(FALSE)
    /\ hist' = Promised(seg)
    /\ UNCHANGED <<acked, cursor, mem, queue, flight, wpc, apc, left, kept, count>>

RotateOpen ==
    /\ wpc = "append" /\ Written < Len(flight)
    /\ Len(seg[Current].recs) >= SegmentCap /\ seg[Current].synced >= SegmentCap
    /\ seg' = With(seg, Current + 1, NewSegment)
    /\ mem' = [mem EXCEPT !.list = @ \cup {Current + 1}]
    /\ UNCHANGED <<acked, manifest, cursor, queue, flight, wpc, apc, left, kept, hist, count>>

(* The end of a batch.  A terminal event forces the sync; otherwise it may *)
(* wait for the cadence.                                                   *)
EndBatch ==
    /\ wpc = "append" /\ Written = Len(flight)
    /\ wpc' \in IF Terminal(Last(flight)) THEN {"sync"} ELSE {"sync", "idle"}
    /\ flight' = IF wpc' = "idle" THEN <<>> ELSE flight
    /\ UNCHANGED <<disk, mem, queue, apc, left, kept, hist, count>>

Dirty == seg[Current].synced < Len(seg[Current].recs)

(* The cadence, or a control command: a flush, and the stop, sync first.   *)
SyncIdle ==
    /\ wpc = "idle" /\ Dirty
    /\ queue # <<>> => Head(queue).kind # "event"
    /\ wpc' = "sync"
    /\ UNCHANGED <<disk, mem, queue, flight, apc, left, kept, hist, count>>

Fdatasync ==
    /\ wpc = "sync" /\ MaintenanceFree
    /\ seg' = Synced(seg) /\ wpc' = "manifest"
    /\ UNCHANGED <<acked, manifest, cursor, mem, queue, flight, apc, left, kept, hist, count>>

WriteManifest ==
    /\ wpc = "manifest"
    /\ seg' = Linked(seg) /\ manifest' = NewManifest(FALSE)
    /\ hist' = Promised(seg)
    /\ wpc' = "idle" /\ flight' = <<>>
    /\ UNCHANGED <<acked, cursor, mem, queue, apc, left, kept, count>>

(* A flush at the head of the queue with nothing left to sync.             *)
FlushDone ==
    /\ wpc = "idle" /\ queue # <<>> /\ Head(queue).kind = "flush" /\ ~Dirty
    /\ queue' = Tail(queue)
    /\ apc' = IF apc.at = "wait" THEN [apc EXCEPT !.at = "lock"] ELSE apc
    /\ UNCHANGED <<disk, mem, flight, wpc, left, kept, hist, count>>

(* The stop command: the manifest says clean, and the process is gone.     *)
Stop ==
    /\ wpc = "idle" /\ queue # <<>> /\ Head(queue).kind = "stop" /\ ~Dirty
    /\ seg' = Linked(seg) /\ manifest' = NewManifest(TRUE)
    /\ mem' = [mem EXCEPT !.status = "down"]
    /\ queue' = Tail(queue) /\ wpc' = "none"
    /\ apc' = Idle /\ kept' = {}
    /\ hist' = [Promised(seg) EXCEPT !.accepted = {}]
    /\ UNCHANGED <<acked, cursor, flight, left, count>>

(* An I/O error ends the thread: the terminal events in its hands are      *)
(* preserved, then the status is set, then the queue is drained.           *)
ForgetTerminals(es) == kept' = kept      \* mutant of KeepTerminals

KeepTerminals(es) == kept' = kept \cup {e \in es : Terminal(e)}

WriterFails ==
    /\ wpc \in {"append", "sync", "manifest"} /\ count.trouble < MaxTrouble
    /\ KeepTerminals(ToSet(flight))
    /\ \E torn \in {FALSE, wpc = "append"} : seg' = [seg EXCEPT ![Current].torn = torn]
    /\ wpc' = "failing"
    /\ count' = [count EXCEPT !.trouble = @ + 1]
    /\ UNCHANGED <<acked, manifest, cursor, mem, queue, flight, apc, left, hist>>

(* Mutant of WriterFailed: the thread ends and the queue is not drained.   *)
WriterFailedUndrained ==
    /\ wpc = "failing"
    /\ mem' = [mem EXCEPT !.status = "failed", !.accepting = FALSE]
    /\ wpc' = "dead"
    /\ UNCHANGED <<disk, queue, flight, apc, left, kept, hist, count>>

WriterFailed ==
    /\ wpc = "failing"
    /\ mem' = [mem EXCEPT !.status = "failed", !.accepting = FALSE]
    /\ wpc' = "drain"
    /\ UNCHANGED <<disk, queue, flight, apc, left, kept, hist, count>>

Drain ==
    /\ wpc = "drain"
    /\ KeepTerminals(Queued)
    /\ apc' = IF apc.at = "wait" THEN Idle ELSE apc
    /\ queue' = <<>> /\ wpc' = "dead"
    /\ UNCHANGED <<disk, mem, flight, left, hist, count>>
-----------------------------------------------------------------------------
(* The consumer: ack(cursor) of a record it has replayed.  It flushes,     *)
(* takes the maintenance lock, writes the cursor, renames the segments     *)
(* that end below it, writes the manifest without them and unlinks them.   *)

(* replay has flushed and yields every record after the cursor.            *)
Replayable == {r.seq : r \in Recorded(seg)}

AckStart(c) ==
    /\ mem.status = "healthy" /\ mem.accepting /\ apc = Idle /\ count.acks < MaxAcks
    /\ c > cursor /\ c \in Replayable
    /\ apc' = [at |-> "put", to |-> c]
    /\ count' = [count EXCEPT !.acks = @ + 1]
    /\ UNCHANGED <<disk, mem, queue, flight, wpc, left, kept, hist>>

(* flush has checked the status and puts its command; a writer that failed *)
(* in between has drained the queue already and will never answer.         *)
AckFlush ==
    /\ apc.at = "put"
    /\ queue' = Append(queue, Control("flush"))
    /\ apc' = [apc EXCEPT !.at = "wait"]
    /\ UNCHANGED <<disk, mem, flight, wpc, left, kept, hist, count>>

FlushTimesOut ==
    /\ apc.at = "wait" /\ wpc = "dead"
    /\ apc' = Idle
    /\ UNCHANGED <<disk, mem, queue, flight, wpc, left, kept, hist, count>>

AckLock ==
    /\ apc.at = "lock" /\ wpc \notin {"append", "manifest"}
    /\ apc' = [apc EXCEPT !.at = "cursor"]
    /\ UNCHANGED <<disk, mem, queue, flight, wpc, left, kept, hist, count>>

WriteCursor ==
    /\ apc.at = "cursor"
    /\ cursor' = apc.to
    /\ apc' = [apc EXCEPT !.at = "rename"]
    /\ UNCHANGED <<seg, acked, manifest, mem, queue, flight, wpc, left, kept, hist, count>>

(* Mutant of Deletable: the segment that holds the cursor goes too, and    *)
(* with it records after the cursor.                                       *)
DeletableByFirst(i) ==
    i # Current /\ seg[i].recs # <<>> /\ Head(seg[i].recs).seq <= apc.to

Deletable(i) ==
    i # Current /\ seg[i].recs # <<>> /\ Last(seg[i].recs).seq < apc.to

Rename(i) ==
    /\ apc.at = "rename" /\ Deletable(i)
    /\ acked' = With(acked, i, seg[i])
    /\ seg' = [j \in DOMAIN seg \ {i} |-> seg[j]]
    /\ UNCHANGED <<manifest, cursor, mem, queue, flight, wpc, apc, left, kept, hist, count>>

Renamed ==
    /\ apc.at = "rename" /\ ~\E i \in DOMAIN seg : Deletable(i)
    /\ apc' = IF acked = << >> THEN Idle ELSE [apc EXCEPT !.at = "manifest"]
    /\ UNCHANGED <<disk, mem, queue, flight, wpc, left, kept, hist, count>>

AckManifest ==
    /\ apc.at = "manifest"
    /\ mem' = [mem EXCEPT !.list = DOMAIN seg,
                           !.anchor = Max({r.seq : r \in Recorded(acked)})]
    /\ manifest' = [clean |-> FALSE, anchor |-> mem'.anchor, names |-> mem'.list]
    /\ seg' = Linked(seg)
    /\ apc' = [apc EXCEPT !.at = "unlink"]
    /\ UNCHANGED <<acked, cursor, queue, flight, wpc, left, kept, hist, count>>

Unlink ==
    /\ apc.at = "unlink"
    /\ acked' = << >> /\ apc' = Idle
    /\ UNCHANGED <<seg, manifest, cursor, mem, queue, flight, wpc, left, kept, hist, count>>

AckFails ==
    /\ ~MaintenanceFree /\ count.trouble < MaxTrouble
    /\ mem' = [mem EXCEPT !.status = "failed", !.accepting = FALSE]
    /\ apc' = Idle
    /\ count' = [count EXCEPT !.trouble = @ + 1]
    /\ UNCHANGED <<disk, queue, flight, wpc, left, kept, hist>>
-----------------------------------------------------------------------------
(* Ends and starts.                                                        *)

(* close, after aclose has released every lifecycle.                       *)
Close ==
    /\ mem.status = "healthy" /\ mem.accepting /\ Held = 0 /\ apc = Idle
    /\ count.trouble < MaxTrouble
    /\ mem' = [mem EXCEPT !.accepting = FALSE]
    /\ queue' = Append(queue, Control("stop"))
    /\ count' = [count EXCEPT !.trouble = @ + 1]
    /\ UNCHANGED <<disk, flight, wpc, apc, left, kept, hist>>

(* What a crash leaves of segment i: all of it after a kill; after a power *)
(* loss what was synced and any part of the rest, unless the file is gone. *)
(* A record being written is cut.                                          *)
Remains(fault, i) ==
    LET s == seg[i]
        n == Len(s.recs)
    IN  IF fault = "kill"
        THEN {[s EXCEPT !.torn = t] : t \in {s.torn, wpc = "append" /\ i = Current}}
        ELSE {[recs |-> SubSeq(s.recs, 1, k), synced |-> k, linked |-> TRUE, torn |-> t] :
                k \in s.synced .. n,
                t \in {FALSE, s.torn \/ s.synced < n \/ (wpc = "append" /\ i = Current)}}

Outcomes(fault) ==
    LET Loose == {i \in DOMAIN seg : Cardinality(Remains(fault, i)) > 1}
        Ends  == {f \in [Loose -> UNION {Remains(fault, i) : i \in Loose}] :
                    \A i \in Loose : f[i] \in Remains(fault, i)}
    IN  {[i \in DOMAIN seg |-> IF i \in Loose THEN f[i]
                               ELSE CHOOSE s \in Remains(fault, i) : TRUE] : f \in Ends}

Gone(fault) == IF fault = "power" THEN {i \in DOMAIN seg : ~seg[i].linked} ELSE {}

Crash(fault) ==
    /\ mem.status \notin {"down", "corrupt"} /\ count.trouble < MaxTrouble
    /\ \E gone \in SUBSET Gone(fault), f \in Outcomes(fault) :
         seg' = [i \in DOMAIN seg \ gone |-> f[i]]
    /\ hist' = [hist EXCEPT
          !.accepted = {},
          !.lost = @ \/ ~(hist.accepted \subseteq EventsIn(seg') \cup EventsPromised),
          !.cut = @ \/ (manifest.clean /\ DOMAIN seg' # manifest.names)]
    /\ mem' = [mem EXCEPT !.status = "down", !.accepting = FALSE]
    /\ queue' = <<>> /\ flight' = <<>> /\ wpc' = "none" /\ apc' = Idle /\ kept' = {}
    /\ left' = [r \in Request |-> 0]
    /\ count' = [count EXCEPT !.trouble = @ + 1]
    /\ UNCHANGED <<acked, manifest, cursor>>

(* _initialize: _repair_ack_deletions, the checks of the names, the scan   *)
(* with the repair of the last tail, the check of the cursor.              *)
Repaired ==
    [i \in DOMAIN seg \cup (DOMAIN acked \cap manifest.names) |->
       IF i \in DOMAIN seg THEN seg[i] ELSE acked[i]]

Scanned(s) ==
    LET last == Max(DOMAIN s \cup {0})
    IN  [i \in DOMAIN s |->
           IF i = last /\ ~manifest.clean /\ s[i].torn
           THEN [s[i] EXCEPT !.torn = FALSE, !.synced = Len(s[i].recs)] ELSE s[i]]

Readable(s) ==
    LET rs == Records(s)
    IN  /\ manifest.names \subseteq DOMAIN s
        /\ manifest.clean => DOMAIN s = manifest.names
        /\ \A i \in DOMAIN s : ~s[i].torn
        /\ \A k \in DOMAIN rs : rs[k].seq = manifest.anchor + k
        /\ cursor = manifest.anchor \/ \E k \in DOMAIN rs : rs[k].seq = cursor

Open ==
    /\ mem.status = "down"
    /\ LET s == Scanned(Repaired)
       IN  IF Readable(s)
           THEN /\ seg' = s /\ acked' = << >>
                /\ mem' = [status |-> "opening", accepting |-> FALSE, queued |-> 0,
                           anchor |-> manifest.anchor, list |-> DOMAIN s]
                /\ wpc' = "open"
           ELSE /\ mem' = [mem EXCEPT !.status = "corrupt"]
                /\ UNCHANGED <<seg, acked, wpc>>
    /\ UNCHANGED <<manifest, cursor, queue, flight, apc, left, kept, hist, count>>

OpenSegment ==
    /\ wpc = "open"
    /\ LET i == Max(DOMAIN seg \cup {0}) + 1
       IN  seg' = With(seg, i, NewSegment) /\ mem' = [mem EXCEPT !.list = @ \cup {i}]
    /\ wpc' = IF manifest.clean THEN "opened" ELSE "gap"
    /\ UNCHANGED <<acked, manifest, cursor, queue, flight, apc, left, kept, hist, count>>

AppendGap ==
    /\ wpc = "gap"
    /\ seg' = [seg EXCEPT ![Current].recs = Append(@, [seq |-> LastSeq + 1, ev |-> Gap])]
    /\ wpc' = "gapsync"
    /\ UNCHANGED <<acked, manifest, cursor, mem, queue, flight, apc, left, kept, hist, count>>

GapSync ==
    /\ wpc = "gapsync"
    /\ seg' = Synced(seg) /\ wpc' = "opened"
    /\ UNCHANGED <<acked, manifest, cursor, mem, queue, flight, apc, left, kept, hist, count>>

OpenManifest ==
    /\ wpc = "opened"
    /\ seg' = Linked(seg) /\ manifest' = NewManifest(FALSE)
    /\ mem' = [mem EXCEPT !.status = "healthy", !.accepting = TRUE]
    /\ hist' = [Promised(seg) EXCEPT !.lost = @ /\ seg[Current].recs = <<>>]
    /\ wpc' = "idle"
    /\ UNCHANGED <<acked, cursor, queue, flight, apc, left, kept, count>>
-----------------------------------------------------------------------------
Init ==
    /\ seg = << >> /\ acked = << >> /\ cursor = 0
    /\ manifest = [clean |-> TRUE, anchor |-> 0, names |-> {}]
    /\ mem = [status |-> "opening", accepting |-> FALSE, queued |-> 0, anchor |-> 0,
              list |-> {}]
    /\ queue = <<>> /\ flight = <<>> /\ wpc = "open" /\ apc = Idle
    /\ left = [r \in Request |-> 0] /\ kept = {}
    /\ hist = [used |-> {}, accepted |-> {}, promised |-> {}, lost |-> FALSE, cut |-> FALSE]
    /\ count = [trouble |-> 0, acks |-> 0]

Writer ==
    \/ TakeBatch \/ StartAppend \/ AppendRecord \/ RotateSync \/ RotateOpen \/ EndBatch
    \/ SyncIdle \/ Fdatasync \/ WriteManifest \/ FlushDone \/ Stop
    \/ WriterFailed \/ Drain

Acknowledge ==
    \/ AckFlush \/ FlushTimesOut \/ AckLock \/ WriteCursor
    \/ \E i \in DOMAIN seg : Rename(i)
    \/ Renamed \/ AckManifest \/ Unlink

Start == Open \/ OpenSegment \/ AppendGap \/ GapSync \/ OpenManifest

Next ==
    \/ \E r \in Request : Reserve(r) \/ Emit(r) \/ EmitTerminal(r) \/ PreserveTerminal(r)
    \/ Writer \/ WriterFails
    \/ \E c \in 1 .. LastSeq : AckStart(c)
    \/ Acknowledge \/ AckFails
    \/ Close \/ \E fault \in Faults : Crash(fault)
    \/ Start

(* The threads keep running; a deployment restarts the process.            *)
Spec == Init /\ [][Next]_vars /\ WF_vars(Writer) /\ WF_vars(Acknowledge) /\ WF_vars(Start)
-----------------------------------------------------------------------------
(* A reservation is authoritative: an event that holds a slot never meets  *)
(* a full queue, and the events on disk and promised a place never exceed  *)
(* the spool; only the gap records of restarts come on top (try_reserve,   *)
(* _submit, _write_batch).                                                 *)
SlotsHold ==
    LET Taken(s) == Cardinality({p \in RecordPlaces(s) : s[p[1]].recs[p[2]].ev # Gap})
    IN  /\ Len(queue) <= Capacity + 1
        /\ mem.status = "healthy" =>
             Taken(seg) + Taken(acked) + Held + mem.queued <= MaxBytes

(* A terminal event is never forgotten while its process lives: it is on   *)
(* the queue, with the writer, in a segment, or preserved in memory, also  *)
(* when the writer fails at that moment (_writer_loop, _submit,            *)
(* _release_control_waiters).                                              *)
TerminalKept ==
    \A e \in hist.accepted : Terminal(e) =>
        e \in Queued \cup ToSet(flight) \cup EventsIn(seg) \cup EventsIn(acked)
              \cup kept \cup EventsPromised

(* Deletion is strict: a record that was synced and listed is on disk, or  *)
(* comes back there at the next start, until a cursor above it is written, *)
(* through every crash in an acknowledgement, a rotation or a start        *)
(* (ack, _repair_ack_deletions, _sync).                                    *)
NothingLost ==
    \A r \in hist.promised : r.seq >= cursor => r \in Recorded(Repaired)

(* A start reads what the last process left, whenever that ended, except   *)
(* when a start was cut between its new segment and its manifest; and it   *)
(* hides no loss: when a process ended without close and an event it had   *)
(* accepted is gone, the open spool has a gap record (_initialize,         *)
(* _append_gap).                                                           *)
OpensHonestly ==
    /\ mem.status = "corrupt" => hist.cut
    /\ mem.status = "healthy" => ~hist.lost

(* Every start can read what the last process left.                        *)
Reopenable == mem.status # "corrupt"

(* A terminal event does not wait for ever: it reaches the disk or is      *)
(* preserved in memory, or its process ends first, whatever the            *)
(* acknowledging consumer and a failing writer do meanwhile (_writer_loop  *)
(* forces the sync, _submit and _release_control_waiters preserve).        *)
TerminalSettles ==
    []<>(\A e \in hist.accepted : Terminal(e) => e \in EventsPromised \cup kept)
=============================================================================
