----------------------------- MODULE Activation -----------------------------
(***************************************************************************)
(* Bundle activation and the deny overlay of one Gateway (GatewayLocalState*)
(* and ActivationService in gateway/activation.py).                        *)
(*                                                                         *)
(* Control sends signed commands over a channel that loses, delays and     *)
(* repeats them.  The Gateway runs one at a time (_command_lock), records  *)
(* each with its effect in one SQLite transaction and then the             *)
(* acknowledgement in another.  Around the transactions are plain files:   *)
(* the bundles and the active pointer.  The process may be killed, or the  *)
(* machine lose power, between any two steps.                              *)
(*                                                                         *)
(* A bundle is its generation (Control gives one hash to a generation); 0  *)
(* is "none".  A transaction and the memory it updates are one step:       *)
(* nobody dispatches in between, the dispatcher gate is held.  The staged, *)
(* base and previous references in memory always equal those in the        *)
(* database, so only the fields that may differ are in mem.                *)
(***************************************************************************)
EXTENDS Integers, FiniteSets

CONSTANTS
    Gen,           \* generations Control publishes
    Subject,       \* what a deny names: an account, a leg or a route group
    Floor,         \* floors a deny may carry, 0 for none
    MaxEpoch,      \* bound: deny epochs
    MaxRecords,    \* max_command_records
    MaxNet,        \* bound: commands under way without effect
    MaxHappen,     \* bound: commands issued, crashes, takeovers, files that rot
    Faults,        \* the kinds of crash: "kill", "power"
    RotRole,       \* whose bundle file may rot: "staged", "active", "previous"
    Regenesis      \* Control answers a Gateway that reports no active bundle
                   \* with a new genesis

ASSUME ActivationAssumption ==
    /\ Gen \subseteq Nat \ {0} /\ Floor \subseteq Nat /\ Subject # {}
    /\ MaxRecords \in Nat \ {0}
    /\ {MaxEpoch, MaxNet, MaxHappen} \subseteq Nat
    /\ Faults \subseteq {"kill", "power"} /\ RotRole \subseteq {"staged", "active", "previous"}
    /\ Regenesis \in BOOLEAN

VARIABLES
    db,        \* the SQLite tables
    mem,       \* what GatewayLocalState holds in memory, and the live bundle
    disk,      \* bundle files and the active pointer file
    sent,      \* commands Control issued and the channel did not lose
    cur,       \* the command being executed
    pc,        \* where its execution is
    count,     \* commands issued and events so far
    told       \* what Control has been told, and what was done

vars == <<db, mem, disk, sent, cur, pc, count, told>>

Ref   == Gen \cup {0}
Kinds == {"prepare", "commit", "deny", "clear", "status"}

Command ==
    [id : Nat, seq : Nat, prev : Nat, boot : Nat, fence : Nat, kind : Kinds,
     base : Ref, target : Ref, subject : Subject, epoch : Nat, floor : Nat, lease : BOOLEAN]

Larger(m, n) == IF m > n THEN m ELSE n

NoDeny    == [s \in Subject |-> 0]
NoWater   == [s \in Subject |-> [epoch |-> 0, floor |-> 0]]
-----------------------------------------------------------------------------
(* The state the guards read.                                              *)

up == mem.up

(* deny_all: recovery, a fence, or no heartbeat within ten seconds.        *)
DenyAll == mem.recovery \/ db.fenced \/ ~mem.fresh

(* permits, for a leg whose account, leg and group are s.                  *)
Permits(s) == up /\ mem.active # 0 /\ ~DenyAll /\ mem.denies[s] = 0

AboveFloors(g) == \A s \in Subject : mem.water[s].floor < g

(* Mutants of the commands' reference checks.                              *)
ValidCommitNoFloor(c) == db.staged = c.target /\ db.base = mem.active

ValidPrepare(c) ==
    /\ mem.active = c.base /\ db.staged = 0
    /\ AboveFloors(c.target) /\ c.target > c.base

ValidCommit(c) ==
    /\ db.staged = c.target /\ AboveFloors(c.target) /\ db.base = mem.active

(* Records: a command is looked up by its ID, and a new one must extend    *)
(* the digest chain.                                                       *)
RecordOf(c) == {r \in db.records : r.cmd.id = c.id}

NextInChainBySequence(c) == TRUE   \* mutant: the record alone is the dedupe

NextInChain(c) == c.seq = db.seq + 1 /\ c.prev = db.head

(* _assert_unseen_binding and _assert_current_fence.                       *)
FenceUnchecked(c) == TRUE          \* mutant

CurrentFence(c) == c.fence = db.fence

Startable(c) == NextInChain(c) /\ c.boot = mem.boot /\ CurrentFence(c)

(* _reserve_command_record: a full table gives up its oldest acknowledged  *)
(* record; with none to give up, the transaction fails.                    *)
Reserved ==
    IF Cardinality(db.records) < MaxRecords THEN db.records
    ELSE {r \in db.records :
            ~(r.acked /\ \A q \in db.records : q.acked => r.cmd.seq <= q.cmd.seq)}

HasRoomAlways == TRUE              \* mutant

HasRoom == Cardinality(Reserved) < MaxRecords

(* _record_pending: the record, and the head of the chain.                 *)
Recorded(d, c) ==
    [d EXCEPT !.records = Reserved \cup {[cmd |-> c, acked |-> FALSE]},
              !.seq = c.seq, !.head = c.id]

Done(c) ==
    told' = [told EXCEPT !.done = @ \cup {c.id},
                         !.again = @ \/ c.id \in told.done]

Event == count < MaxHappen /\ count' = count + 1

NoCommand == [id |-> 0]

Goto(step) == pc' = step /\ UNCHANGED <<cur, sent, count>>
Finish     == pc' = "idle" /\ cur' = NoCommand /\ UNCHANGED <<sent, count>>
-----------------------------------------------------------------------------
(* Control (external): it signs the next command of the chain it knows,    *)
(* for the Gateway's present boot and fence.  Several may be under way at  *)
(* the same place of the chain; one that can no longer start is forgotten, *)
(* one that took effect is repeated at any time.                           *)

Send(kind, base, target, s, e, f, lease) ==
    /\ up /\ pc = "idle" /\ Event
    /\ Cardinality({c \in sent : Startable(c) /\ c.id \notin told.done}) < MaxNet
    /\ sent' = {c \in sent : c.id \in told.done \/ Startable(c)} \cup
        {[id |-> count + 1, seq |-> db.seq + 1, prev |-> db.head,
          boot |-> mem.boot, fence |-> db.fence, kind |-> kind,
          base |-> base, target |-> target, subject |-> s, epoch |-> e,
          floor |-> f, lease |-> lease]}
    /\ told' = IF kind = "clear" THEN [told EXCEPT !.clear[s] = Larger(@, e)] ELSE told
    /\ UNCHANGED <<db, mem, disk, cur, pc>>

AnySubject == CHOOSE s \in Subject : TRUE

Issue ==
    \/ \E g \in Gen : Send("prepare", IF Regenesis THEN mem.active ELSE db.active, g, AnySubject, 0, 0, FALSE)
    \/ db.staged # 0 /\ Send("commit", db.base, db.staged, AnySubject, 0, 0, FALSE)
    \/ \E s \in Subject, e \in 1 .. MaxEpoch, f \in Floor :
         Send("deny", 0, mem.active, s, e, f, FALSE)
    \/ \E s \in Subject, e \in 1 .. MaxEpoch :
         Send("clear", 0, mem.active, s, e, 0, FALSE)
    \/ \E lease \in BOOLEAN : Send("status", 0, 0, AnySubject, 0, 0, lease)
-----------------------------------------------------------------------------
(* execute: a command that has no record starts if it is next in the chain *)
(* and bound to this boot and fence; what it needs of the signed policy is *)
(* checked before the gate is taken.  Any other command leaves no trace.   *)

PolicyBinds(c) ==
    CASE c.kind = "commit"            -> c.base = db.base
      [] c.kind \in {"deny", "clear"} -> mem.active # 0 /\ c.target = mem.active
      [] OTHER                        -> TRUE

Receive(c) ==
    /\ up /\ pc = "idle" /\ RecordOf(c) = {}
    /\ Startable(c) /\ PolicyBinds(c)
    /\ cur' = c
    /\ pc' = IF c.kind = "prepare" THEN "validate" ELSE "gate"
    /\ UNCHANGED <<db, mem, disk, sent, count, told>>

Leave == Finish /\ UNCHANGED <<db, mem, disk, told>>

(* What a command needs once it holds the gate.                            *)
Loadable(g) == g \in disk.files \ disk.rotten

CanClearAny(c) == db.denies[c.subject] # 0        \* mutant: any epoch clears

CanDeny(c) ==
    /\ c.epoch > db.water[c.subject].epoch
    /\ c.floor >= db.water[c.subject].floor

CanClear(c) == db.denies[c.subject] # 0 /\ db.denies[c.subject] = c.epoch

(* A lease needs an active bundle and no deny_all; the heartbeat has just  *)
(* been renewed.                                                           *)
CanStatus(c) == c.lease => mem.active # 0 /\ ~mem.recovery /\ ~db.fenced

Executable(c) ==
    /\ CurrentFence(c)
    /\ CASE c.kind = "prepare" -> ValidPrepare(c) /\ HasRoom
         [] c.kind = "commit"  -> ValidCommit(c) /\ Loadable(c.target)
         [] c.kind = "deny"    -> CanDeny(c) /\ HasRoom
         [] c.kind = "clear"   -> CanClear(c) /\ HasRoom
         [] c.kind = "status"  -> CanStatus(c) /\ HasRoom

(* A cancelled caller: everything that writes is shielded, so the command  *)
(* stops between two writes or not at all (_await_durable).                *)
Cancel ==
    /\ \/ pc \in {"validate", "store", "gate"}
       \/ pc = "ack" /\ cur.kind = "prepare"
    /\ Leave

(* An exception before the command's transaction: the bundle is invalid    *)
(* (_validate_bundle), its path holds other bytes, a check under the gate  *)
(* fails.  A COMMIT has replaced the pointer file by the time its          *)
(* transaction may still fail.                                             *)
Refuse ==
    /\ \/ pc = "validate"
       \/ pc = "store" /\ cur.target \in disk.rotten
       \/ pc = "gate" /\ ~Executable(cur) /\ cur.kind # "status"
       \/ pc = "commit" /\ ~HasRoom
    /\ Leave

(* _prepare                                                                *)
Validate ==
    /\ pc = "validate" /\ ValidPrepare(cur)
    /\ Goto("store") /\ UNCHANGED <<db, mem, disk, told>>

(* store_bundle: fsync, rename, directory fsync; a file already there is   *)
(* taken as it is.                                                         *)
Store ==
    /\ pc = "store" /\ cur.target \notin disk.rotten
    /\ IF cur.target \in disk.files
       THEN Goto("gate") /\ UNCHANGED disk
       ELSE /\ disk' = [disk EXCEPT !.files = @ \cup {cur.target}]
            /\ Goto("sync")
    /\ UNCHANGED <<db, mem, told>>

SyncDirectory ==
    /\ pc = "sync"
    /\ disk' = [disk EXCEPT !.durable = disk.files]
    /\ Goto("gate") /\ UNCHANGED <<db, mem, told>>

(* stage_prepare                                                           *)
Stage ==
    /\ pc = "gate" /\ cur.kind = "prepare" /\ Executable(cur)
    /\ db' = Recorded([db EXCEPT !.staged = cur.target, !.base = cur.base,
                                 !.bundles = @ \cup {cur.target}], cur)
    /\ Done(cur) /\ Goto("ack") /\ UNCHANGED <<mem, disk>>

(* commit_staged: the pointer file first, then the transaction.            *)
WritePointer ==
    /\ pc = "gate" /\ cur.kind = "commit" /\ Executable(cur)
    /\ disk' = [disk EXCEPT !.pointer = cur.target]
    /\ Goto("commit") /\ UNCHANGED <<db, mem, told>>

CommitStaged ==
    /\ pc = "commit" /\ HasRoom
    /\ db' = Recorded([db EXCEPT !.previous = mem.active, !.active = cur.target,
                                 !.staged = 0, !.base = 0], cur)
    /\ mem' = [mem EXCEPT !.active = cur.target]
    /\ Done(cur) /\ Goto("swap") /\ UNCHANGED disk

(* apply_bundle (GatewayApp.activate_bundle) installs the bundle, or fails *)
(* and leaves the old one live: recovery is required, first in memory.     *)
Swap ==
    /\ pc = "swap"
    /\ mem' = [mem EXCEPT !.live = cur.target]
    /\ told' = [told EXCEPT !.lived = @ \cup {cur.target}]
    /\ Goto("ack") /\ UNCHANGED <<db, disk>>

SwapFails ==
    /\ pc = "swap"
    /\ mem' = [mem EXCEPT !.recovery = TRUE, !.reason = TRUE]
    /\ Goto("recovery") /\ UNCHANGED <<db, disk, told>>

EnterRecovery ==
    /\ pc = "recovery"
    /\ db' = [db EXCEPT !.reason = TRUE]
    /\ Finish /\ UNCHANGED <<mem, disk, told>>

(* _load_denies and _load_deny_highwater, at a start and before a deny or  *)
(* a clear; a command renews the heartbeat with them.                      *)
Reloaded(m, d) == [m EXCEPT !.denies = d.denies, !.water = d.water]
Renewed(m, d)  == [Reloaded(m, d) EXCEPT !.fresh = TRUE]

(* issue_deny: overlay, high-water mark and heartbeat in one transaction.  *)
IssueDeny ==
    /\ pc = "gate" /\ cur.kind = "deny" /\ Executable(cur)
    /\ LET s == cur.subject
       IN  db' = Recorded([db EXCEPT !.denies[s] = cur.epoch,
                                     !.water[s] = [epoch |-> cur.epoch, floor |-> cur.floor]],
                          cur)
    /\ mem' = Renewed(mem, db')
    /\ Done(cur) /\ Goto("ack") /\ UNCHANGED disk

(* clear_deny: the high-water mark stays.                                  *)
ClearDeny ==
    /\ pc = "gate" /\ cur.kind = "clear" /\ Executable(cur)
    /\ db' = Recorded([db EXCEPT !.denies[cur.subject] = 0], cur)
    /\ mem' = Renewed(mem, db')
    /\ Done(cur) /\ Goto("ack") /\ UNCHANGED disk

(* record_status: the overlay is read again and its heartbeat renewed; a   *)
(* failure takes back the heartbeat, not the high-water marks just read.   *)
RecordStatus ==
    /\ pc = "gate" /\ cur.kind = "status" /\ Executable(cur)
    /\ db' = Recorded(db, cur)
    /\ mem' = Renewed(mem, db)
    /\ Done(cur) /\ Goto("ack") /\ UNCHANGED disk

StatusFails ==
    /\ pc = "gate" /\ cur.kind = "status" /\ ~Executable(cur)
    /\ mem' = [mem EXCEPT !.water = IF CurrentFence(cur) THEN db.water ELSE @]
    /\ Finish /\ UNCHANGED <<db, disk, told>>

(* _ack and push_ack.  An APPLIED acknowledgement waits for recovery.      *)
NeverRefused(r) == FALSE           \* mutant

AckRefused(r) == r.cmd.kind = "commit" /\ mem.recovery

PushAck(r) ==
    /\ db' = [db EXCEPT !.records = (@ \ {r}) \cup {[r EXCEPT !.acked = TRUE]}]
    /\ told' =
         CASE r.cmd.kind = "commit" -> [told EXCEPT !.applied = @ \cup {r.cmd.target}]
           [] r.cmd.kind = "deny"   ->
                [told EXCEPT !.denied[r.cmd.subject] = Larger(@, r.cmd.epoch),
                             !.floor = Larger(@, r.cmd.floor)]
           [] OTHER                 -> told

Ack ==
    /\ pc = "ack"
    /\ \E r \in RecordOf(cur) :
         IF AckRefused(r) THEN UNCHANGED <<db, told>> ELSE PushAck(r)
    /\ Finish /\ UNCHANGED <<mem, disk>>

(* A command that has its record already is answered again, never redone.  *)
Repeat(c) ==
    /\ up /\ pc = "idle"
    /\ \E r \in RecordOf(c) : ~r.acked /\ ~AckRefused(r) /\ PushAck(r)
    /\ UNCHANGED <<mem, disk, sent, cur, pc, count>>
-----------------------------------------------------------------------------
(* The rest of the process.                                                *)

(* The gate is not held: record_old_fence and accept_takeover may run.     *)
GateFree ==
    \/ pc \in {"idle", "validate", "store", "sync", "gate"}
    \/ pc = "ack" /\ cur.kind = "prepare"

ChangeFence(fenced) ==
    /\ up /\ GateFree /\ Event
    /\ db' = [db EXCEPT !.fence = @ + 1, !.fenced = fenced]
    /\ UNCHANGED <<mem, disk, sent, cur, pc, told>>

(* confirm_live_bundle, by a caller that has made the active bundle live.  *)
ConfirmLive ==
    /\ up /\ pc = "idle" /\ mem.reason /\ mem.active # 0
    /\ db' = [db EXCEPT !.reason = FALSE]
    /\ mem' = [mem EXCEPT !.reason = FALSE, !.recovery = FALSE, !.live = mem.active]
    /\ told' = [told EXCEPT !.lived = @ \cup {mem.active}]
    /\ UNCHANGED <<disk, sent, cur, pc, count>>

(* gc_bundles, at any time.                                                *)
CollectForgetsPrevious ==          \* mutant
    /\ up
    /\ LET kept == disk.files \cap {db.staged, mem.active}
       IN  /\ disk.files # kept
           /\ disk' = [disk EXCEPT !.files = kept, !.durable = kept,
                                   !.rotten = @ \cap kept]
    /\ UNCHANGED <<db, mem, sent, cur, pc, count, told>>

Collect ==
    /\ up
    /\ LET floors == {mem.water[s].floor : s \in Subject}
           top    == {f \in floors : f # 0 /\ \A g \in floors : g <= f}
           kept   == disk.files \cap
                       ({mem.active, db.staged, db.previous} \cup (top \cap db.bundles))
       IN  /\ disk.files # kept
           /\ disk' = [disk EXCEPT !.files = kept, !.durable = kept,
                                   !.rotten = @ \cap kept]
    /\ UNCHANGED <<db, mem, sent, cur, pc, count, told>>

(* A bundle file goes bad.                                                 *)
Rot(role) ==
    /\ Event /\ ~disk.bad /\ pc \notin {"commit", "swap"}
    /\ LET g == CASE role = "staged"   -> db.staged
                  [] role = "active"   -> db.active
                  [] role = "previous" -> db.previous
       IN  /\ g # 0 /\ Loadable(g)
           /\ disk' = [disk EXCEPT !.rotten = @ \cup {g}, !.bad = TRUE]
    /\ UNCHANGED <<db, mem, sent, cur, pc, told>>

(* The process is killed, or power fails and directory entries that were   *)
(* not synced may be gone; the transactions are durable.                   *)
Crash(fault) ==
    /\ up /\ Event
    /\ \E lost \in SUBSET (IF fault = "power" THEN disk.files \ disk.durable ELSE {}) :
         disk' = [disk EXCEPT !.files = @ \ lost, !.rotten = @ \ lost,
                              !.durable = IF fault = "power" THEN disk.files \ lost ELSE @]
    /\ mem' = [mem EXCEPT !.up = FALSE, !.active = 0, !.live = 0, !.fresh = FALSE,
                          !.denies = NoDeny, !.water = NoWater,
                          !.recovery = FALSE, !.reason = FALSE]
    /\ pc' = "idle" /\ cur' = NoCommand
    /\ UNCHANGED <<db, sent, told>>

(* open and _recover.  A bad staged bundle is put aside; a bad active or   *)
(* previous one leaves no active bundle and an overlay that was not read.  *)
ReconciledPointer == db.active

Referenced == {g \in {db.active, db.previous} : g # 0}

(* _quarantine_bundle moves a bad staged bundle out of the way.            *)
Quarantined == {g \in {db.staged} : g # 0 /\ ~Loadable(g)}

Boot ==
    /\ ~up /\ \A g \in Referenced : Loadable(g)
    /\ LET bad == Quarantined
       IN  /\ disk' = [disk EXCEPT !.files = @ \ bad, !.rotten = @ \ bad,
                                   !.durable = @ \ bad, !.pointer = ReconciledPointer]
           /\ db' = IF bad = {} THEN db ELSE [db EXCEPT !.staged = 0, !.base = 0]
    /\ mem' = [Reloaded(mem, db) EXCEPT
                  !.up = TRUE, !.boot = @ + 1, !.active = db.active, !.live = db.active,
                  !.recovery = db.reason, !.reason = db.reason]
    /\ told' = [told EXCEPT !.lived = @ \cup ({db.active} \ {0})]
    /\ UNCHANGED <<sent, cur, pc, count>>

BootFails ==
    /\ ~up /\ \E g \in Referenced : ~Loadable(g)
    /\ mem' = [mem EXCEPT !.up = TRUE, !.boot = @ + 1, !.recovery = TRUE,
                          !.reason = db.reason]
    /\ UNCHANGED <<db, disk, sent, cur, pc, count, told>>
-----------------------------------------------------------------------------
NewTables ==
    [active |-> 0, staged |-> 0, base |-> 0, previous |-> 0, bundles |-> {},
     denies |-> NoDeny, water |-> NoWater, records |-> {}, seq |-> 0, head |-> 0,
     reason |-> FALSE, fence |-> 1, fenced |-> FALSE]

NewState ==
    [up |-> TRUE, boot |-> 1, active |-> 0, live |-> 0, denies |-> NoDeny,
     water |-> NoWater, fresh |-> FALSE, recovery |-> FALSE, reason |-> FALSE]

Init ==
    /\ db = NewTables /\ mem = NewState
    /\ disk = [files |-> {}, durable |-> {}, rotten |-> {}, bad |-> FALSE, pointer |-> 0]
    /\ sent = {} /\ pc = "idle"
    /\ cur = NoCommand
    /\ count = 0
    /\ told = [denied |-> NoDeny, clear |-> NoDeny, floor |-> 0, applied |-> {},
               lived |-> {}, done |-> {}, again |-> FALSE]

Execute ==
    \/ Refuse \/ Cancel \/ Validate \/ Store \/ SyncDirectory \/ Stage
    \/ WritePointer \/ CommitStaged \/ Swap \/ SwapFails \/ EnterRecovery
    \/ IssueDeny \/ ClearDeny \/ RecordStatus \/ StatusFails \/ Ack

Next ==
    \/ Issue
    \/ \E c \in sent : Receive(c) \/ Repeat(c)
    \/ Execute
    \/ \E fenced \in BOOLEAN : ChangeFence(fenced)
    \/ ConfirmLive \/ Collect
    \/ \E role \in RotRole : Rot(role)
    \/ \E fault \in Faults : Crash(fault)
    \/ Boot \/ BootFails

Spec == Init /\ [][Next]_vars
-----------------------------------------------------------------------------
(* Types; the command table never exceeds max_command_records, and a       *)
(* synced or unreadable file is a file.                                    *)
TypeOK ==
    /\ {db.active, db.staged, db.base, db.previous, mem.active, mem.live,
        disk.pointer} \subseteq Ref
    /\ disk.durable \cup disk.rotten \subseteq disk.files /\ disk.files \subseteq Gen
    /\ Cardinality(db.records) <= MaxRecords
    /\ sent \subseteq Command
    /\ pc # "idle" => cur \in Command /\ up

(* A deny that was acknowledged holds until a clear of its epoch, or a     *)
(* later one, is issued: through crashes, activations, takeovers, repeated *)
(* and stale commands, nothing it names is permitted (issue_deny,          *)
(* clear_deny, _load_denies, deny_all).                                    *)
DenyHolds ==
    \A s \in Subject : told.denied[s] > told.clear[s] => ~Permits(s)

(* Anti-rollback: the active generation only grows, and an activation is   *)
(* above every floor that was ever acknowledged, cleared denies and        *)
(* restarts included (validate_commit_reference, deny_highwater).          *)
NoRollback ==
    [][db'.active # db.active => db'.active > db.active /\ db'.active > told.floor]_vars

(* An activation acknowledged as APPLIED is the active bundle until a      *)
(* later one replaces it, and it or a later one has been live: a swap that *)
(* failed is not acknowledged while the old bundle serves (_commit, _ack). *)
AppliedIsLive ==
    \A g \in told.applied : db.active >= g /\ \E h \in told.lived : h >= g

(* No command takes effect twice, however often it is delivered and after  *)
(* its record has been pruned (validate_new_command).                      *)
OnceOnly == ~told.again

(* No command takes effect under another fence than the one it was signed  *)
(* for, although a takeover may run while it waits for the gate            *)
(* (_assert_current_fence).                                                *)
FenceRespected ==
    [][db'.seq # db.seq => cur.fence = db.fence /\ db'.fence = db.fence]_vars

(* Every start finds the bundles that the database names: a stop between   *)
(* file and transaction, a collection and a pruned reference never leave   *)
(* the Gateway without its active bundle.  The pointer file names that     *)
(* bundle, or the staged one which a commit has begun to activate          *)
(* (store_bundle, gc_bundles, _recover, _write_active_pointer).            *)
BootKeepsActive ==
    up => /\ mem.active # db.active => mem.active = 0 /\ mem.recovery /\ disk.bad
          /\ disk.pointer # db.active => disk.pointer = db.staged

=============================================================================
