-------------------------- MODULE ActivationProofs --------------------------
(***************************************************************************)
(* What a Gateway keeps through crashes, repeated commands and takeovers:  *)
(* its deny overlay, its active bundle, the chain of commands.             *)
(*                                                                         *)
(* The inductive invariant has seven parts.  Typed, Chain and Pointed hold *)
(* whatever Control does; the other four need a Control  that never        *)
(* answers a Gateway in recovery with a new genesis (~Regenesis), and      *)
(* Filed that kills and power losses do not follow each other.             *)
(***************************************************************************)
EXTENDS Activation, FiniteSetTheorems, TLAPS

Mark   == [epoch : Nat, floor : Nat]
Record == [cmd : Command, acked : BOOLEAN]

Tables ==
    [active : Ref, staged : Ref, base : Ref, previous : Ref, bundles : SUBSET Gen,
     denies : [Subject -> Nat], water : [Subject -> Mark], records : SUBSET Record,
     seq : Nat, head : Nat, reason : BOOLEAN, fence : Nat, fenced : BOOLEAN]

Memory ==
    [up : BOOLEAN, boot : Nat, active : Ref, live : Ref, denies : [Subject -> Nat],
     water : [Subject -> Mark], fresh : BOOLEAN, recovery : BOOLEAN, reason : BOOLEAN]

Disk ==
    [files : SUBSET Gen, durable : SUBSET Gen, rotten : SUBSET Gen,
     bad : BOOLEAN, pointer : Ref]

Told ==
    [denied : [Subject -> Nat], clear : [Subject -> Nat], floor : Nat,
     applied : SUBSET Gen, lived : SUBSET Gen, done : SUBSET Nat, again : BOOLEAN]

(* A prepare and a commit name a bundle.                                   *)
Named(c) == c.kind \in {"prepare", "commit"} => c.target \in Gen

PrepareSteps == {"validate", "store", "sync"}
CommitSteps  == {"commit", "swap", "recovery"}
Steps        == {"idle", "gate", "ack"} \cup PrepareSteps \cup CommitSteps

(* The steps of a command that has not taken effect.                       *)
Before == PrepareSteps \cup {"gate", "commit"}

Typed ==
    /\ db \in Tables /\ mem \in Memory /\ disk \in Disk /\ told \in Told
    /\ count \in Nat /\ pc \in Steps
    /\ IsFiniteSet(db.records) /\ Cardinality(db.records) <= MaxRecords
    /\ disk.durable \cup disk.rotten \subseteq disk.files
    /\ sent \subseteq Command /\ \A c \in sent : Named(c)
    /\ \A r \in db.records : Named(r.cmd)
    /\ pc # "idle" => cur \in sent /\ mem.up
    /\ pc \in PrepareSteps => cur.kind = "prepare"
    /\ pc \in CommitSteps => cur.kind = "commit"

(* A command is at most one ahead of the chain, and one that took effect   *)
(* is in it; one being executed is its next.                               *)
Chain ==
    /\ \A c, d \in sent : c.id = d.id => c = d
    /\ \A c \in sent : c.id \in 1 .. count /\ c.seq <= db.seq + 1
    /\ \A c \in sent : c.id \in told.done => c.seq <= db.seq
    /\ told.done \subseteq 1 .. count
    /\ pc \in Before => cur.seq = db.seq + 1
    /\ pc = "commit" => cur.fence = db.fence
    /\ ~told.again

(* The pointer file names the active bundle, or the staged one.            *)
Pointed ==
    /\ disk.pointer = db.active \/ (db.staged # 0 /\ disk.pointer = db.staged)
    /\ pc = "commit" => db.staged = cur.target /\ disk.pointer = cur.target

(* Memory agrees with the tables, or nothing was read after a bad start.   *)
InStep ==
    /\ mem.active = db.active /\ mem.water = db.water /\ mem.denies = db.denies

Blank == mem.active = 0 /\ db.active # 0 /\ mem.recovery

Ordered ==
    /\ \A c \in sent : c.kind = "prepare" /\ c.seq = db.seq + 1 => c.base = db.active
    /\ db.staged # 0 => db.staged > db.active /\ db.base = db.active
    /\ db.previous <= db.active
    /\ IF mem.up THEN InStep \/ Blank ELSE mem.active = 0
    /\ \A r \in db.records : r.cmd.kind = "deny" =>
         /\ db.water[r.cmd.subject].epoch >= r.cmd.epoch
         /\ db.water[r.cmd.subject].floor >= r.cmd.floor
    /\ told.floor = 0 \/ \E s \in Subject : db.water[s].floor >= told.floor
    /\ pc = "commit" => InStep /\ \A s \in Subject : db.water[s].floor < cur.target
    /\ pc \in {"store", "sync"} => cur.target > cur.base

(* A deny is in the overlay under its epoch until its clear was issued.    *)
Denied ==
    /\ \A s \in Subject :
         /\ told.denied[s] <= db.water[s].epoch
         /\ db.denies[s] \in {0, db.water[s].epoch}
         /\ db.denies[s] = 0 => told.clear[s] >= db.water[s].epoch
    /\ \A c \in sent : c.kind = "clear" => told.clear[c.subject] >= c.epoch

(* The active bundle has been live, unless it is about to be, or recovery  *)
(* holds its acknowledgement back.                                         *)
Lived ==
    /\ \A r \in db.records : r.cmd.kind = "commit" => r.cmd.target <= db.active
    /\ db.active \in told.lived \cup {0} \/ ~mem.up \/ mem.recovery \/ pc = "swap"
    /\ pc = "swap" => db.active = cur.target
    /\ AppliedIsLive

(* The bundles the tables name are on disk, and outlive a crash.           *)
Filed ==
    /\ ~disk.bad => disk.rotten = {} /\ {db.active, db.previous} \subseteq disk.files \cup {0}
    /\ mem.up /\ mem.active # db.active => disk.bad
    /\ pc = "commit" => cur.target \in disk.files \ disk.rotten
    /\ "power" \in Faults =>
         \/ disk.files = disk.durable
         \/ pc = "sync" /\ disk.files \ disk.durable \subseteq {cur.target}
-----------------------------------------------------------------------------
(* A generation is a positive number, and 0 is no bundle.                  *)
LEMMA RefNat == Ref \subseteq Nat /\ Gen \subseteq Nat \ {0} /\ Gen \subseteq Ref
<1>1. Gen \subseteq Nat \ {0}
  BY ActivationAssumption
<1> QED
  BY <1>1 DEF Ref

(* A new installation starts with empty tables (GatewayLocalState.open).   *)
LEMMA InitTyped == Init => Typed
<1> SUFFICES ASSUME Init PROVE Typed
  OBVIOUS
<1>1. IsFiniteSet({}) /\ Cardinality({}) = 0
  BY FS_EmptySet
<1>2. db \in Tables /\ mem \in Memory
  BY DEF Init, NewTables, NewState, NoDeny, NoWater, Tables, Memory, Mark, Ref
<1>3. disk \in Disk /\ told \in Told
  BY DEF Init, NoDeny, Disk, Told, Ref
<1>4. db.records = {} /\ disk.durable \cup disk.rotten = {}
  BY DEF Init, NewTables
<1> QED
  BY <1>1, <1>2, <1>3, <1>4, ActivationAssumption DEF Init, Typed, Steps, PrepareSteps, CommitSteps

(* What is left of the command table when a record is reserved is part of  *)
(* it (_reserve_command_record).                                           *)
LEMMA ReservedRecords == Reserved \subseteq db.records
  BY DEF Reserved

(* Recording a command changes the records and the head of the chain only  *)
(* (_record_pending).                                                      *)
LEMMA RecordedTables ==
    ASSUME Typed, NEW d \in Tables, pc # "idle", HasRoom
    PROVE  /\ Recorded(d, cur) \in Tables
           /\ Recorded(d, cur).active = d.active /\ Recorded(d, cur).staged = d.staged
           /\ Recorded(d, cur).base = d.base /\ Recorded(d, cur).previous = d.previous
           /\ Recorded(d, cur).denies = d.denies /\ Recorded(d, cur).water = d.water
           /\ Recorded(d, cur).bundles = d.bundles
           /\ Recorded(d, cur).fence = d.fence /\ Recorded(d, cur).seq = cur.seq
           /\ Recorded(d, cur).records = Reserved \cup {[cmd |-> cur, acked |-> FALSE]}
           /\ IsFiniteSet(Recorded(d, cur).records)
           /\ Cardinality(Recorded(d, cur).records) <= MaxRecords
           /\ \A r \in Recorded(d, cur).records : Named(r.cmd)
<1> DEFINE new == [cmd |-> cur, acked |-> FALSE]
           R   == Reserved \cup {new}
<1>1. cur \in Command /\ Named(cur) /\ cur.seq \in Nat /\ cur.id \in Nat
  BY DEF Typed, Command
<1>2. R \subseteq Record /\ \A r \in R : Named(r.cmd)
  <2>1. db.records \subseteq Record /\ \A r \in db.records : Named(r.cmd)
    BY DEF Typed, Tables
  <2>2. new \in Record /\ new.cmd = cur
    BY <1>1 DEF Record
  <2> HIDE DEF new
  <2> QED
    BY <1>1, <2>1, <2>2, ReservedRecords
<1>3. IsFiniteSet(Reserved)
  BY ReservedRecords, FS_Subset DEF Typed
<1>4. IsFiniteSet(R) /\ Cardinality(R) <= MaxRecords
  <2>1. IsFiniteSet(R) /\ (Cardinality(R) = Cardinality(Reserved) \/ Cardinality(R) = Cardinality(Reserved) + 1)
    BY <1>3, FS_AddElement
  <2>2. Cardinality(Reserved) \in Nat
    BY <1>3, FS_CardinalityType
  <2> QED
    BY <2>1, <2>2, ActivationAssumption DEF HasRoom
<1>5. Recorded(d, cur) = [d EXCEPT !.records = R, !.seq = cur.seq, !.head = cur.id]
  BY DEF Recorded
<1> HIDE DEF R
<1>6. /\ Recorded(d, cur) \in Tables /\ Recorded(d, cur).records = R
      /\ Recorded(d, cur).seq = cur.seq
      /\ Recorded(d, cur).active = d.active /\ Recorded(d, cur).staged = d.staged
      /\ Recorded(d, cur).base = d.base /\ Recorded(d, cur).previous = d.previous
      /\ Recorded(d, cur).denies = d.denies /\ Recorded(d, cur).water = d.water
      /\ Recorded(d, cur).fence = d.fence /\ Recorded(d, cur).bundles = d.bundles
  BY <1>1, <1>2, <1>5 DEF Tables
<1> QED
  BY <1>2, <1>4, <1>6 DEF R

(* What issuing a command amounts to (external).                           *)
NewCommand(kind, base, target, s, e, f, lease) ==
    [id |-> count + 1, seq |-> db.seq + 1, prev |-> db.head,
     boot |-> mem.boot, fence |-> db.fence, kind |-> kind,
     base |-> base, target |-> target, subject |-> s, epoch |-> e,
     floor |-> f, lease |-> lease]

Sends(c) ==
    /\ c.id = count + 1 /\ c.seq = db.seq + 1 /\ Named(c)
    /\ c.kind = "prepare" /\ ~Regenesis => c.base = db.active
    /\ sent' \subseteq sent \cup {c} /\ c \in sent'
    /\ count' = count + 1 /\ pc = "idle"
    /\ told' = IF c.kind = "clear"
               THEN [told EXCEPT !.clear[c.subject] = Larger(@, c.epoch)] ELSE told
    /\ UNCHANGED <<db, mem, disk, cur, pc>>

(* Control sends commands that extend the chain it knows.                  *)
LEMMA IssueSends ==
    ASSUME Typed, Issue
    PROVE  \E c \in Command : Sends(c)
<1>1. /\ db.active \in Ref /\ mem.active \in Ref /\ db.staged \in Ref /\ db.base \in Ref
      /\ 0 \in Ref /\ Gen \subseteq Ref /\ (db.staged # 0 => db.staged \in Gen)
      /\ count + 1 \in Nat /\ db.seq + 1 \in Nat /\ db.head \in Nat /\ db.fence \in Nat
      /\ mem.boot \in Nat
  BY DEF Typed, Tables, Memory, Ref
<1>2. AnySubject \in Subject /\ Floor \subseteq Nat /\ 1 .. MaxEpoch \subseteq Nat
  BY ActivationAssumption DEF AnySubject
<1>3. CASE \E g \in Gen : Send("prepare", IF Regenesis THEN mem.active ELSE db.active, g, AnySubject, 0, 0, FALSE)
  <2> DEFINE base == IF Regenesis THEN mem.active ELSE db.active
  <2>1. PICK g \in Gen : Send("prepare", base, g, AnySubject, 0, 0, FALSE)
    BY <1>3
  <2> DEFINE new == NewCommand("prepare", base, g, AnySubject, 0, 0, FALSE)
  <2>2. base \in Ref /\ (~Regenesis => base = db.active) /\ g \in Ref
    BY <1>1, <2>1
  <2> HIDE DEF base
  <2>3. new \in Command
    BY <1>1, <1>2, <2>2 DEF NewCommand, Command, Kinds
  <2>4. Sends(new)
    BY <2>1, <2>2 DEF Sends, Send, Event, NewCommand, Named
  <2> QED
    BY <2>3, <2>4
<1>4. CASE db.staged # 0 /\ Send("commit", db.base, db.staged, AnySubject, 0, 0, FALSE)
  <2> DEFINE new == NewCommand("commit", db.base, db.staged, AnySubject, 0, 0, FALSE)
  <2>1. new \in Command
    BY <1>1, <1>2 DEF NewCommand, Command, Kinds
  <2>2. Sends(new)
    <3>1. /\ new.id = count + 1 /\ new.seq = db.seq + 1 /\ new.kind = "commit"
          /\ new.target = db.staged
      BY DEF NewCommand
    <3>2. new \in sent' /\ sent' \subseteq sent \cup {new}
      BY <1>4 DEF Send, NewCommand
    <3> HIDE DEF new
    <3> QED
      BY <1>4, <1>1, <3>1, <3>2 DEF Sends, Send, Event, Named
  <2> QED
    BY <2>1, <2>2
<1>5. CASE \E s \in Subject, e \in 1 .. MaxEpoch, f \in Floor :
              Send("deny", 0, mem.active, s, e, f, FALSE)
  <2>1. PICK s \in Subject, e \in 1 .. MaxEpoch, f \in Floor :
               Send("deny", 0, mem.active, s, e, f, FALSE)
    BY <1>5
  <2>4. s \in Subject /\ e \in Nat /\ f \in Nat
    BY <1>2, <2>1
  <2> DEFINE new == NewCommand("deny", 0, mem.active, s, e, f, FALSE)
  <2>2. new \in Command
    BY <1>1, <1>2, <2>4 DEF NewCommand, Command, Kinds
  <2>3. Sends(new)
    BY <2>1 DEF Sends, Send, Event, NewCommand, Named
  <2> QED
    BY <2>2, <2>3
<1>6. CASE \E s \in Subject, e \in 1 .. MaxEpoch :
              Send("clear", 0, mem.active, s, e, 0, FALSE)
  <2>1. PICK s \in Subject, e \in 1 .. MaxEpoch :
               Send("clear", 0, mem.active, s, e, 0, FALSE)
    BY <1>6
  <2>4. s \in Subject /\ e \in Nat
    BY <1>2, <2>1
  <2> DEFINE new == NewCommand("clear", 0, mem.active, s, e, 0, FALSE)
  <2>2. new \in Command
    BY <1>1, <1>2, <2>4 DEF NewCommand, Command, Kinds
  <2>3. Sends(new)
    BY <2>1 DEF Sends, Send, Event, NewCommand, Named
  <2> QED
    BY <2>2, <2>3
<1>7. CASE \E lease \in BOOLEAN : Send("status", 0, 0, AnySubject, 0, 0, lease)
  <2>1. PICK lease \in BOOLEAN : Send("status", 0, 0, AnySubject, 0, 0, lease)
    BY <1>7
  <2>4. lease \in BOOLEAN
    BY <1>2, <2>1
  <2> DEFINE new == NewCommand("status", 0, 0, AnySubject, 0, 0, lease)
  <2>2. new \in Command
    BY <1>1, <1>2, <2>4 DEF NewCommand, Command, Kinds
  <2>3. Sends(new)
    BY <2>1 DEF Sends, Send, Event, NewCommand, Named
  <2> QED
    BY <2>2, <2>3
<1> QED
  BY <1>3, <1>4, <1>5, <1>6, <1>7 DEF Issue

LEMMA IssueTyped ==
    ASSUME Typed, NEW c \in Command, Sends(c)
    PROVE  Typed'
<1>1. c.subject \in Subject /\ c.epoch \in Nat
  BY DEF Command
<1>2. told' \in Told
  BY <1>1 DEF Sends, Typed, Told, Larger
<1> QED
  BY <1>2 DEF Sends, Typed

(* An acknowledgement replaces a record by itself (push_ack).              *)
LEMMA PushAckTyped ==
    ASSUME Typed, NEW r \in db.records, PushAck(r)
    PROVE  /\ db' \in Tables /\ told' \in Told
           /\ db' = [db EXCEPT !.records = db'.records]
           /\ IsFiniteSet(db'.records) /\ Cardinality(db'.records) <= MaxRecords
           /\ \A q \in db'.records : \E p \in db.records : q.cmd = p.cmd
<1> DEFINE new == [r EXCEPT !.acked = TRUE]
           R   == (db.records \ {r}) \cup {new}
<1>1. db.records \subseteq Record /\ r \in Record /\ new \in Record /\ new.cmd = r.cmd
  BY DEF Typed, Tables, Record
<1>2. r.cmd \in Command
  BY <1>1 DEF Record
<1>3. told' \in Told
  <2>1. r.cmd.subject \in Subject /\ r.cmd.epoch \in Nat /\ r.cmd.floor \in Nat
    BY <1>2 DEF Command
  <2>2. r.cmd.kind = "commit" => r.cmd.target \in Gen
    BY DEF Typed, Named
  <2> QED
    BY <2>1, <2>2 DEF PushAck, Typed, Told, Larger
<1>4. IsFiniteSet(R) /\ Cardinality(R) <= MaxRecords
  <2>1. IsFiniteSet(db.records \ {r}) /\ Cardinality(db.records \ {r}) = Cardinality(db.records) - 1
    BY FS_RemoveElement DEF Typed
  <2>2. IsFiniteSet(R) /\ (Cardinality(R) = Cardinality(db.records \ {r})
                             \/ Cardinality(R) = Cardinality(db.records \ {r}) + 1)
    BY <2>1, FS_AddElement
  <2>3. Cardinality(db.records) \in Nat
    BY FS_CardinalityType DEF Typed
  <2> QED
    BY <2>1, <2>2, <2>3, ActivationAssumption DEF Typed
<1>5. db' = [db EXCEPT !.records = R]
  BY DEF PushAck
<1>6. R \subseteq Record /\ \A q \in R : \E p \in db.records : q.cmd = p.cmd
  BY <1>1
<1> HIDE DEF R
<1>7. db' \in Tables /\ db'.records = R
  BY <1>5, <1>6 DEF Typed, Tables
<1> QED
  BY <1>3, <1>4, <1>5, <1>6, <1>7

LEMMA AckTyped == Typed /\ (Ack \/ \E c \in sent : Repeat(c)) => Typed'
<1> SUFFICES ASSUME Typed, Ack \/ \E c \in sent : Repeat(c) PROVE Typed'
  OBVIOUS
<1>1. CASE UNCHANGED <<db, told>>
  BY <1>1 DEF Typed, Ack, Repeat, Finish, Steps, PrepareSteps, CommitSteps
<1>2. CASE \E r \in db.records : PushAck(r)
  <2>1. PICK r \in db.records : PushAck(r)
    BY <1>2
  <2>2. /\ UNCHANGED <<mem, disk, sent, count>>
        /\ UNCHANGED <<cur, pc>> \/ pc' = "idle"
    BY DEF Ack, Repeat, Finish
  <2>3. \A q \in db'.records : Named(q.cmd)
    BY <2>1, PushAckTyped DEF Typed
  <2> QED
    BY <2>1, <2>2, <2>3, PushAckTyped DEF Typed, Steps, PrepareSteps, CommitSteps
<1> QED
  BY <1>1, <1>2 DEF Ack, Repeat, RecordOf

(* The transactions: each records its command and changes the fields of    *)
(* its effect.                                                             *)
LEMMA StageTyped == Typed /\ Stage => Typed'
<1> SUFFICES ASSUME Typed, Stage PROVE Typed'
  OBVIOUS
<1> DEFINE d == [db EXCEPT !.staged = cur.target, !.base = cur.base,
                           !.bundles = @ \cup {cur.target}]
<1>1. cur \in Command /\ Named(cur) /\ cur.target \in Gen /\ cur.id \in Nat /\ cur.base \in Ref
  BY DEF Stage, Typed, Named, Command
<1>2. d \in Tables
  BY <1>1 DEF Typed, Tables, Ref
<1>3. db' = Recorded(d, cur) /\ HasRoom /\ pc # "idle"
  BY DEF Stage, Executable
<1>4. told' \in Told
  BY <1>1 DEF Stage, Done, Typed, Told
<1> HIDE DEF d
<1> QED
  BY <1>2, <1>3, <1>4, RecordedTables
     DEF Stage, Goto, Typed, Steps, PrepareSteps, CommitSteps

LEMMA CommitTyped == Typed /\ CommitStaged => Typed'
<1> SUFFICES ASSUME Typed, CommitStaged PROVE Typed'
  OBVIOUS
<1> DEFINE d == [db EXCEPT !.previous = mem.active, !.active = cur.target,
                           !.staged = 0, !.base = 0]
<1>1. cur \in Command /\ cur.target \in Ref /\ cur.id \in Nat /\ mem.active \in Ref /\ 0 \in Ref
  BY DEF CommitStaged, Typed, Command, Memory, Ref
<1>2. d \in Tables
  BY <1>1 DEF Typed, Tables
<1>3. db' = Recorded(d, cur) /\ HasRoom /\ pc # "idle"
  BY DEF CommitStaged
<1>4. told' \in Told
  BY <1>1 DEF CommitStaged, Done, Typed, Told
<1>5. mem' \in Memory /\ mem'.up = mem.up
  BY <1>1 DEF CommitStaged, Typed, Memory
<1> HIDE DEF d
<1> QED
  BY <1>2, <1>3, <1>4, <1>5, RecordedTables
     DEF CommitStaged, Goto, Typed, Steps, PrepareSteps, CommitSteps

(* Reading the overlay back (_load_denies, _load_deny_highwater).          *)
LEMMA RenewedMemory ==
    ASSUME NEW m \in Memory, NEW d \in Tables
    PROVE  /\ Reloaded(m, d) \in Memory /\ Renewed(m, d) \in Memory
           /\ Renewed(m, d).up = m.up /\ Renewed(m, d).active = m.active
           /\ Renewed(m, d).recovery = m.recovery
           /\ Renewed(m, d).denies = d.denies /\ Renewed(m, d).water = d.water
           /\ Reloaded(m, d).denies = d.denies /\ Reloaded(m, d).water = d.water
  BY DEF Reloaded, Renewed, Memory, Tables

LEMMA DenyTyped == Typed /\ (IssueDeny \/ ClearDeny \/ RecordStatus) => Typed'
<1> SUFFICES ASSUME Typed, IssueDeny \/ ClearDeny \/ RecordStatus PROVE Typed'
  OBVIOUS
<1>1. /\ cur \in Command /\ cur.subject \in Subject /\ cur.epoch \in Nat
      /\ cur.floor \in Nat /\ cur.id \in Nat /\ pc = "gate" /\ mem.up
  BY DEF IssueDeny, ClearDeny, RecordStatus, Typed, Command
<1>2. HasRoom
  BY DEF IssueDeny, ClearDeny, RecordStatus, Executable
<1>3. \E d \in Tables : db' = Recorded(d, cur)
  <2> DEFINE d1 == [db EXCEPT !.denies[cur.subject] = cur.epoch,
                              !.water[cur.subject] = [epoch |-> cur.epoch, floor |-> cur.floor]]
             d2 == [db EXCEPT !.denies[cur.subject] = 0]
  <2>1. d1 \in Tables /\ d2 \in Tables /\ db \in Tables
    BY <1>1 DEF Typed, Tables, Mark
  <2>2. db' = Recorded(d1, cur) \/ db' = Recorded(d2, cur) \/ db' = Recorded(db, cur)
    BY DEF IssueDeny, ClearDeny, RecordStatus
  <2> QED
    BY <2>1, <2>2
<1>4. db' \in Tables /\ IsFiniteSet(db'.records) /\ Cardinality(db'.records) <= MaxRecords
      /\ \A r \in db'.records : Named(r.cmd)
  BY <1>1, <1>2, <1>3, RecordedTables
<1>5. told' \in Told
  <2>1. Done(cur)
    BY DEF IssueDeny, ClearDeny, RecordStatus
  <2> QED
    BY <1>1, <2>1 DEF Done, Typed, Told
<1>6. mem' = Renewed(mem, db') \/ mem' = Renewed(mem, db)
  BY DEF IssueDeny, ClearDeny, RecordStatus
<1>7. mem' \in Memory /\ mem'.up = mem.up
  <2>1. mem \in Memory /\ db \in Tables
    BY DEF Typed
  <2>2. CASE mem' = Renewed(mem, db')
    BY <2>1, <2>2, <1>4, RenewedMemory
  <2>3. CASE mem' = Renewed(mem, db)
    BY <2>1, <2>3, RenewedMemory
  <2> QED
    BY <1>6, <2>2, <2>3
<1>8. pc' = "ack" /\ UNCHANGED <<cur, sent, count, disk>>
  BY DEF IssueDeny, ClearDeny, RecordStatus, Goto
<1> QED
  BY <1>1, <1>4, <1>5, <1>7, <1>8 DEF Typed, Steps, PrepareSteps, CommitSteps

(* The other steps of a command.                                           *)
LEMMA ReceiveTyped == Typed /\ (\E c \in sent : Receive(c)) => Typed'
  BY DEF Receive, up, Typed, Steps, PrepareSteps, CommitSteps

LEMMA QuietTyped == Typed /\ (Refuse \/ Cancel \/ Validate) => Typed'
  BY DEF Refuse, Cancel, Leave, Finish, Validate, Goto, Typed, Steps, PrepareSteps, CommitSteps

LEMMA FileTyped == Typed /\ (Store \/ SyncDirectory \/ WritePointer) => Typed'
<1> SUFFICES ASSUME Typed, Store \/ SyncDirectory \/ WritePointer PROVE Typed'
  OBVIOUS
<1>1. cur \in Command /\ Named(cur) /\ cur.target \in Gen /\ cur.target \in Ref
      /\ pc # "idle" /\ (pc' = "sync" => cur.kind = "prepare") /\ (pc' = "commit" => cur.kind = "commit")
      /\ pc' \in {"gate", "sync", "commit"}
  BY DEF Store, SyncDirectory, WritePointer, Goto, Typed, Named, Command, PrepareSteps, Ref
<1>2. disk' \in Disk /\ disk'.durable \cup disk'.rotten \subseteq disk'.files
  BY <1>1 DEF Store, SyncDirectory, WritePointer, Goto, Typed, Disk
<1> QED
  BY <1>1, <1>2 DEF Store, SyncDirectory, WritePointer, Goto, Typed, Steps, PrepareSteps, CommitSteps

LEMMA SwapTyped == Typed /\ (Swap \/ SwapFails \/ EnterRecovery \/ StatusFails) => Typed'
<1> SUFFICES ASSUME Typed, Swap \/ SwapFails \/ EnterRecovery \/ StatusFails PROVE Typed'
  OBVIOUS
<1>1. cur \in Command /\ (pc = "swap" => cur.target \in Gen) /\ pc # "idle"
      /\ (pc = "swap" => cur.kind = "commit") /\ cur.target \in Ref
      /\ pc' \in {"idle", "ack", "recovery"} /\ (pc' = "recovery" => pc = "swap")
  BY DEF Swap, SwapFails, EnterRecovery, StatusFails, Typed, Named, CommitSteps, Command, Ref,
         Goto, Finish
<1>2. mem' \in Memory /\ mem'.up = mem.up
  BY <1>1, ZenonT(60) DEF Swap, SwapFails, EnterRecovery, StatusFails, Typed, Memory, Tables
<1>3. told' \in Told
  BY <1>1 DEF Swap, SwapFails, EnterRecovery, StatusFails, Typed, Told
<1>4. db' \in Tables /\ db'.records = db.records
  BY DEF Swap, SwapFails, EnterRecovery, StatusFails, Typed, Tables
<1> QED
  BY <1>1, <1>2, <1>3, <1>4
     DEF Swap, SwapFails, EnterRecovery, StatusFails, Goto, Finish, Typed, Steps,
         PrepareSteps, CommitSteps

(* The rest of the process.                                                *)
LEMMA FenceTyped == Typed /\ (\E fenced \in BOOLEAN : ChangeFence(fenced)) => Typed'
<1> SUFFICES ASSUME Typed, NEW fenced \in BOOLEAN, ChangeFence(fenced) PROVE Typed'
  OBVIOUS
<1>1. PICK n \in Nat : n = db.fence + 1
  BY DEF Typed, Tables
<1>2. db' = [db EXCEPT !.fence = n, !.fenced = fenced]
  BY <1>1 DEF ChangeFence
<1>3. db' \in Tables /\ db'.records = db.records
  BY <1>2 DEF Typed, Tables
<1> QED
  BY <1>3 DEF ChangeFence, Event, Typed

LEMMA ConfirmTyped == Typed /\ ConfirmLive => Typed'
<1> SUFFICES ASSUME Typed, ConfirmLive PROVE Typed'
  OBVIOUS
<1>1. mem.active \in Gen
  BY DEF ConfirmLive, Typed, Memory, Ref
<1>2. db' \in Tables /\ db'.records = db.records
  BY DEF ConfirmLive, Typed, Tables
<1>3. mem' \in Memory /\ mem'.up = mem.up
  BY DEF ConfirmLive, Typed, Memory
<1>4. told' \in Told
  BY <1>1 DEF ConfirmLive, Typed, Told
<1> QED
  BY <1>2, <1>3, <1>4 DEF ConfirmLive, Typed

LEMMA CollectTyped == Typed /\ Collect => Typed'
<1> SUFFICES ASSUME Typed, Collect PROVE Typed'
  OBVIOUS
<1>1. disk' \in Disk /\ disk'.durable \cup disk'.rotten \subseteq disk'.files
  BY DEF Collect, Typed, Disk
<1> QED
  BY <1>1 DEF Collect, Typed

LEMMA RotTyped == Typed /\ (\E role \in RotRole : Rot(role)) => Typed'
<1> SUFFICES ASSUME Typed, NEW role \in RotRole, Rot(role) PROVE Typed'
  OBVIOUS
<1>1. disk' \in Disk /\ disk'.durable \cup disk'.rotten \subseteq disk'.files
  BY DEF Rot, Loadable, Typed, Disk
<1>2. count' = count + 1 /\ UNCHANGED <<db, mem, sent, cur, pc, told>>
  BY DEF Rot, Event
<1> QED
  BY <1>1, <1>2 DEF Typed

LEMMA CrashTyped == Typed /\ (\E fault \in Faults : Crash(fault)) => Typed'
<1> SUFFICES ASSUME Typed, NEW fault \in Faults, Crash(fault) PROVE Typed'
  OBVIOUS
<1>1. disk' \in Disk /\ disk'.durable \cup disk'.rotten \subseteq disk'.files
  <2>1. PICK lost \in SUBSET (IF fault = "power" THEN disk.files \ disk.durable ELSE {}) :
          disk' = [disk EXCEPT !.files = @ \ lost, !.rotten = @ \ lost,
                               !.durable = IF fault = "power" THEN disk.files \ lost ELSE @]
    BY DEF Crash
  <2> QED
    BY <2>1 DEF Typed, Disk
<1>2. mem' \in Memory /\ ~mem'.up
  BY DEF Crash, NoDeny, NoWater, Typed, Memory, Mark, Ref
<1> QED
  BY <1>1, <1>2 DEF Crash, Event, Typed, Steps, PrepareSteps, CommitSteps

LEMMA BootTyped == Typed /\ (Boot \/ BootFails) => Typed'
<1> SUFFICES ASSUME Typed, Boot \/ BootFails PROVE Typed'
  OBVIOUS
<1>1. 0 \in Ref /\ db.active \in Ref /\ db.staged \in Ref
  BY DEF Typed, Tables, Ref
<1>2. disk' \in Disk /\ disk'.durable \cup disk'.rotten \subseteq disk'.files
  <2>1. CASE Boot
    BY <1>1, <2>1 DEF Boot, ReconciledPointer, Typed, Disk
  <2>2. CASE BootFails
    BY <2>2 DEF BootFails, Typed
  <2> QED
    BY <2>1, <2>2
<1>3. mem' \in Memory /\ mem'.up
  <2>1. CASE Boot
    <3>1. Reloaded(mem, db) \in Memory /\ db.reason \in BOOLEAN
      BY RenewedMemory DEF Typed, Tables
    <3>2. PICK n \in Nat : n = Reloaded(mem, db).boot + 1
      BY <3>1 DEF Memory
    <3>3. mem' = [Reloaded(mem, db) EXCEPT
                    !.up = TRUE, !.boot = n, !.active = db.active, !.live = db.active,
                    !.recovery = db.reason, !.reason = db.reason]
      BY <2>1, <3>2 DEF Boot
    <3> QED
      BY <1>1, <3>1, <3>3 DEF Memory
  <2>2. CASE BootFails
    <3>1. PICK n \in Nat : n = mem.boot + 1
      BY DEF Typed, Memory
    <3>2. mem' = [mem EXCEPT !.up = TRUE, !.boot = n, !.recovery = TRUE, !.reason = db.reason]
      BY <2>2, <3>1 DEF BootFails
    <3> QED
      BY <3>2 DEF Typed, Memory, Tables
  <2> QED
    BY <2>1, <2>2
<1>4. db' \in Tables /\ db'.records = db.records
  BY <1>1 DEF Boot, BootFails, Typed, Tables
<1>5. told' \in Told
  BY DEF Boot, BootFails, Typed, Told, Tables, Ref
<1> QED
  BY <1>2, <1>3, <1>4, <1>5 DEF Boot, BootFails, Typed

(* The steps by what they do: a command takes effect, or the chain and the *)
(* overlay stay as they are.                                               *)
Effect == Stage \/ CommitStaged \/ IssueDeny \/ ClearDeny \/ RecordStatus

Acknowledge == Ack \/ \E c \in sent : Repeat(c)

Rest ==
    \/ Refuse \/ Cancel \/ Validate \/ Store \/ SyncDirectory
    \/ Swap \/ SwapFails \/ EnterRecovery \/ StatusFails \/ Acknowledge
    \/ ConfirmLive \/ Collect \/ \E role \in RotRole : Rot(role)
    \/ \E fault \in Faults : Crash(fault)
    \/ Boot \/ BootFails

LEMMA NextCases ==
    Next <=> \/ Issue \/ Effect \/ Rest \/ WritePointer
             \/ \E c \in sent : Receive(c)
             \/ \E fenced \in BOOLEAN : ChangeFence(fenced)
  BY DEF Next, Execute, Effect, Rest, Acknowledge

LEMMA NextTyped == Typed /\ [Next]_vars => Typed'
<1> SUFFICES ASSUME Typed, [Next]_vars PROVE Typed'
  OBVIOUS
<1>1. CASE UNCHANGED vars
  BY <1>1 DEF Typed, vars
<1>2. CASE Issue
  BY <1>2, IssueSends, IssueTyped
<1>3. CASE Effect
  BY <1>3, StageTyped, CommitTyped, DenyTyped DEF Effect
<1>4. CASE Rest
  BY <1>4, QuietTyped, FileTyped, SwapTyped, AckTyped, ConfirmTyped, CollectTyped,
     RotTyped, CrashTyped, BootTyped DEF Rest, Acknowledge
<1>5. CASE WritePointer \/ \E c \in sent : Receive(c)
  BY <1>5, FileTyped, ReceiveTyped
<1>6. CASE \E fenced \in BOOLEAN : ChangeFence(fenced)
  BY <1>6, FenceTyped
<1> QED
  BY <1>1, <1>2, <1>3, <1>4, <1>5, <1>6, NextCases

LEMMA TypedMeansTypeOK == Typed => TypeOK
  BY DEF Typed, TypeOK, Tables, Memory, Disk, up

(* The command table keeps its bound, a file that is synced or rotten is a *)
(* file, and everything the Gateway keeps has its type, for every set of   *)
(* generations and subjects and every Control.                             *)
THEOREM ActivationTyped == Spec => []TypeOK
  BY InitTyped, NextTyped, TypedMeansTypeOK, PTL DEF Spec

-----------------------------------------------------------------------------
(* What the steps change.                                                  *)

(* A step that is none of a command's transactions.                        *)
LEMMA RestFields ==
    ASSUME Typed, Rest
    PROVE  /\ db'.seq = db.seq /\ db'.fence = db.fence
           /\ db'.active = db.active /\ db'.previous = db.previous
           /\ db'.denies = db.denies /\ db'.water = db.water
           /\ told'.done = told.done /\ told'.again = told.again /\ told'.clear = told.clear
           /\ sent' = sent /\ count' \in {count, count + 1}
           /\ cur' = cur \/ pc' = "idle"
           /\ pc' \in Before => pc \in Before /\ cur' = cur
           /\ pc' = "commit" => pc = "commit"
           /\ (db'.staged = db.staged /\ db'.base = db.base)
              \/ (Boot /\ db'.staged = 0)
           /\ \A q \in db'.records : \E p \in db.records : q.cmd = p.cmd
<1> USE DEF Before, PrepareSteps
<1>1. CASE Refuse \/ Cancel \/ Validate \/ Store \/ SyncDirectory
  BY <1>1 DEF Refuse, Cancel, Leave, Finish, Validate, Store, SyncDirectory, Goto
<1>2. CASE Swap \/ SwapFails \/ EnterRecovery \/ StatusFails
  BY <1>2 DEF Swap, SwapFails, EnterRecovery, StatusFails, Goto, Finish, Typed, Tables, Told
<1>3. CASE Acknowledge
  <2>1. sent' = sent /\ count' = count /\ ((cur' = cur /\ pc' = pc) \/ pc' = "idle")
    BY <1>3 DEF Acknowledge, Ack, Repeat, Finish
  <2>2. CASE UNCHANGED <<db, told>>
    BY <2>1, <2>2
  <2>3. CASE \E r \in db.records : PushAck(r)
    <3>1. PICK r \in db.records : PushAck(r)
      BY <2>3
    <3>2. told'.done = told.done /\ told'.again = told.again /\ told'.clear = told.clear
      BY <3>1 DEF PushAck, Typed, Told
    <3>3. db' = [db EXCEPT !.records = db'.records]
          /\ \A q \in db'.records : \E p \in db.records : q.cmd = p.cmd
      BY <3>1, PushAckTyped
    <3> QED
      BY <2>1, <3>2, <3>3 DEF Typed, Tables
  <2> QED
    BY <1>3, <2>2, <2>3 DEF Acknowledge, Ack, Repeat, RecordOf
<1>4. CASE ConfirmLive \/ Collect
  BY <1>4 DEF ConfirmLive, Collect, Typed, Tables, Told
<1>5. CASE \E role \in RotRole : Rot(role)
  BY <1>5 DEF Rot, Event
<1>6. CASE \E fault \in Faults : Crash(fault)
  BY <1>6 DEF Crash, Event
<1>7. CASE Boot
  BY <1>7 DEF Boot, Typed, Tables, Told
<1>8. CASE BootFails
  BY <1>8 DEF BootFails
<1> QED
  BY <1>1, <1>2, <1>3, <1>4, <1>5, <1>6, <1>7, <1>8 DEF Rest

(* A transaction: the chain grows by the command, which is recorded.       *)
LEMMA EffectFields ==
    ASSUME Typed, Effect
    PROVE  /\ cur \in sent /\ cur \in Command /\ Named(cur) /\ mem.up
           /\ pc \in Before /\ pc' \in {"ack", "swap"}
           /\ db'.seq = cur.seq /\ db'.fence = db.fence
           /\ db'.records \subseteq db.records \cup {[cmd |-> cur, acked |-> FALSE]}
           /\ told'.done = told.done \cup {cur.id}
           /\ told'.again => told.again \/ cur.id \in told.done
           /\ told'.clear = told.clear /\ told'.denied = told.denied
           /\ told'.floor = told.floor /\ told'.applied = told.applied
           /\ told'.lived = told.lived
           /\ UNCHANGED <<cur, sent, count, disk>>
           /\ CurrentFence(cur) \/ CommitStaged
<1>1. /\ pc \in {"gate", "commit"} /\ Done(cur) /\ HasRoom /\ pc' \in {"ack", "swap"}
      /\ UNCHANGED <<cur, sent, count, disk>> /\ (CurrentFence(cur) \/ CommitStaged)
  BY DEF Effect, Stage, CommitStaged, IssueDeny, ClearDeny, RecordStatus, Executable, Goto
<1>2. cur \in sent /\ cur \in Command /\ Named(cur) /\ mem.up /\ cur.id \in Nat
  BY <1>1 DEF Typed, Command
<1>3. \E d \in Tables : db' = Recorded(d, cur) /\ d.fence = db.fence
  <2> DEFINE d1 == [db EXCEPT !.denies[cur.subject] = cur.epoch,
                              !.water[cur.subject] = [epoch |-> cur.epoch, floor |-> cur.floor]]
             d2 == [db EXCEPT !.denies[cur.subject] = 0]
             d3 == [db EXCEPT !.previous = mem.active, !.active = cur.target,
                              !.staged = 0, !.base = 0]
             d4 == [db EXCEPT !.staged = cur.target, !.base = cur.base,
                              !.bundles = @ \cup {cur.target}]
  <2>1. /\ cur.subject \in Subject /\ cur.epoch \in Nat /\ cur.floor \in Nat
        /\ cur.target \in Ref /\ cur.base \in Ref /\ mem.active \in Ref /\ 0 \in Ref
        /\ db \in Tables
    BY <1>2 DEF Command, Typed, Memory, Ref
  <2>2. d1 \in Tables /\ d1.fence = db.fence /\ d2 \in Tables /\ d2.fence = db.fence
    BY <2>1 DEF Tables, Mark
  <2>3. d3 \in Tables /\ d3.fence = db.fence
    BY <2>1 DEF Tables
  <2>4. cur.kind = "prepare" => d4 \in Tables /\ d4.fence = db.fence
    BY <1>2, <2>1 DEF Tables, Named
  <2>5. \/ db' = Recorded(d1, cur) \/ db' = Recorded(d2, cur) \/ db' = Recorded(d3, cur)
        \/ (db' = Recorded(d4, cur) /\ cur.kind = "prepare") \/ db' = Recorded(db, cur)
    BY DEF Effect, Stage, CommitStaged, IssueDeny, ClearDeny, RecordStatus
  <2> HIDE DEF d1, d2, d3, d4
  <2> QED
    BY <2>1, <2>2, <2>3, <2>4, <2>5
<1>4. pc # "idle"
  BY <1>1
<1>5. /\ db'.seq = cur.seq /\ db'.fence = db.fence
      /\ db'.records = Reserved \cup {[cmd |-> cur, acked |-> FALSE]}
  BY <1>1, <1>3, <1>4, RecordedTables
<1>6. /\ told'.done = told.done \cup {cur.id}
      /\ told'.clear = told.clear /\ told'.denied = told.denied
      /\ told'.floor = told.floor /\ told'.applied = told.applied
      /\ told'.lived = told.lived
  BY <1>1 DEF Done, Typed, Told
<1>7. told'.again => told.again \/ cur.id \in told.done
  BY <1>1 DEF Done, Typed, Told
<1> QED
  BY <1>1, <1>2, <1>5, <1>6, <1>7, ReservedRecords DEF Before

(* No command takes effect twice, for every number of deliveries.          *)
LEMMA ChainNext == Typed /\ Chain /\ [Next]_vars => Chain'
<1> SUFFICES ASSUME Typed, Chain, [Next]_vars PROVE Chain'
  OBVIOUS
<1>0. db.seq \in Nat /\ count \in Nat /\ (\A c \in sent : c \in Command /\ c.seq \in Nat /\ c.id \in Nat)
  BY DEF Typed, Tables, Command
<1>1. CASE UNCHANGED vars
  BY <1>1 DEF Chain, vars
<1>2. CASE Issue
  <2>1. PICK c \in Command : Sends(c)
    BY <1>2, IssueSends
  <2>2. told'.done = told.done /\ told'.again = told.again
    BY <2>1 DEF Sends, Typed, Told
  <2>3. /\ \A d \in sent' : d \in sent \/ d = c
        /\ c.id = count + 1 /\ c.seq = db.seq + 1 /\ count' = count + 1
        /\ db' = db /\ pc' = "idle"
    BY <2>1 DEF Sends
  <2> QED
    BY <1>0, <2>2, <2>3 DEF Chain, Before, PrepareSteps
<1>3. CASE Effect
  <2>1. cur.seq = db.seq + 1 /\ cur.id \notin told.done /\ cur.id \in 1 .. count
    BY <1>0, <1>3, EffectFields DEF Chain
  <2>2. ~told'.again
    BY <1>3, <2>1, EffectFields DEF Chain
  <2>3. /\ db'.seq = db.seq + 1 /\ UNCHANGED <<sent, count>> /\ cur \in sent
        /\ told'.done = told.done \cup {cur.id} /\ pc' \notin Before
    BY <1>3, <2>1, EffectFields DEF Before, PrepareSteps
  <2> QED
    BY <1>0, <2>1, <2>2, <2>3 DEF Chain, Before
<1>4. CASE Rest
  BY <1>0, <1>4, RestFields DEF Chain
<1>5. CASE WritePointer
  BY <1>5 DEF WritePointer, Executable, CurrentFence, Goto, Chain, Before
<1>6. CASE \E c \in sent : Receive(c)
  BY <1>6 DEF Receive, Startable, NextInChain, Chain
<1>7. CASE \E fenced \in BOOLEAN : ChangeFence(fenced)
  <2>1. db'.seq = db.seq /\ pc # "commit" /\ count' = count + 1 /\ UNCHANGED <<sent, cur, pc, told>>
    BY <1>7 DEF ChangeFence, GateFree, Event, Typed, Tables
  <2> QED
    BY <1>0, <2>1 DEF Chain
<1> QED
  BY <1>1, <1>2, <1>3, <1>4, <1>5, <1>6, <1>7, NextCases

(* The chain is empty in a new installation.                               *)
LEMMA InitChain == Init => Chain
  BY DEF Init, NewTables, Chain, Before, PrepareSteps

(* No command takes effect twice, for every number of deliveries, crashes  *)
(* and pruned records (validate_new_command).                              *)
THEOREM ActivationOnceOnly == Spec => []OnceOnly
<1>1. Typed /\ Chain => OnceOnly
  BY DEF Chain, OnceOnly
<1> QED
  BY <1>1, InitTyped, NextTyped, InitChain, ChainNext, PTL DEF Spec

(* No command takes effect under another fence than the one it was signed  *)
(* for, for every number of takeovers while it waits (_assert_current_fence)*)
THEOREM ActivationFenceRespected == Spec => FenceRespected
<1>1. Typed /\ Chain /\ [Next]_vars
        => [db'.seq # db.seq => cur.fence = db.fence /\ db'.fence = db.fence]_vars
  <2> SUFFICES ASSUME Typed, Chain, Next, db'.seq # db.seq
               PROVE  cur.fence = db.fence /\ db'.fence = db.fence
    OBVIOUS
  <2>1. CASE Effect
    BY <2>1, EffectFields DEF CurrentFence, CommitStaged, Chain
  <2>2. db'.seq = db.seq \/ Effect
    <3>1. CASE Issue
      BY <3>1, IssueSends DEF Sends
    <3>2. CASE \E fenced \in BOOLEAN : ChangeFence(fenced)
      BY <3>2 DEF ChangeFence, Typed, Tables
    <3> QED
      BY <3>1, <3>2, RestFields, NextCases DEF WritePointer, Receive
  <2> QED
    BY <2>1, <2>2
<1> QED
  BY <1>1, InitTyped, NextTyped, InitChain, ChainNext, PTL DEF Spec, FenceRespected

-----------------------------------------------------------------------------
(* The fields each transaction changes.                                    *)

LEMMA StageFields ==
    ASSUME Typed, Stage
    PROVE  /\ db'.staged = cur.target /\ db'.base = cur.base /\ ValidPrepare(cur)
           /\ db'.active = db.active /\ db'.previous = db.previous
           /\ db'.denies = db.denies /\ db'.water = db.water
           /\ mem' = mem /\ pc = "gate" /\ pc' = "ack" /\ cur.kind = "prepare"
           /\ cur.target \in Gen /\ cur.base \in Ref
<1> DEFINE d == [db EXCEPT !.staged = cur.target, !.base = cur.base,
                           !.bundles = @ \cup {cur.target}]
<1>1. cur.target \in Gen /\ cur.base \in Ref /\ Gen \subseteq Ref
  BY DEF Stage, Typed, Named, Command, Ref
<1>2. /\ d \in Tables /\ d.staged = cur.target /\ d.base = cur.base
      /\ d.active = db.active /\ d.previous = db.previous
      /\ d.denies = db.denies /\ d.water = db.water
  BY <1>1 DEF Typed, Tables
<1>3. db' = Recorded(d, cur) /\ HasRoom /\ pc = "gate" /\ pc # "idle"
  BY DEF Stage, Executable
<1> HIDE DEF d
<1> QED
  BY <1>1, <1>2, <1>3, RecordedTables DEF Stage, Executable, Goto

LEMMA CommitFields ==
    ASSUME Typed, CommitStaged
    PROVE  /\ db'.active = cur.target /\ db'.previous = mem.active /\ db'.staged = 0
           /\ db'.denies = db.denies /\ db'.water = db.water
           /\ mem'.active = cur.target /\ mem'.denies = mem.denies /\ mem'.water = mem.water
           /\ mem'.up = mem.up /\ mem'.recovery = mem.recovery
           /\ pc = "commit" /\ pc' = "swap" /\ cur.kind = "commit" /\ cur.target \in Gen
<1> DEFINE d == [db EXCEPT !.previous = mem.active, !.active = cur.target,
                           !.staged = 0, !.base = 0]
<1>1. /\ cur.target \in Gen /\ cur.target \in Ref /\ mem.active \in Ref /\ 0 \in Ref
      /\ cur.kind = "commit"
  BY DEF CommitStaged, Typed, Named, CommitSteps, Memory, Ref
<1>2. /\ d \in Tables /\ d.staged = 0 /\ d.active = cur.target /\ d.previous = mem.active
      /\ d.denies = db.denies /\ d.water = db.water
  BY <1>1 DEF Typed, Tables
<1>3. db' = Recorded(d, cur) /\ HasRoom /\ pc = "commit" /\ pc # "idle"
  BY DEF CommitStaged
<1>4. /\ mem'.active = cur.target /\ mem'.denies = mem.denies /\ mem'.water = mem.water
      /\ mem'.up = mem.up /\ mem'.recovery = mem.recovery
  BY DEF CommitStaged, Typed, Memory
<1> HIDE DEF d
<1> QED
  BY <1>1, <1>2, <1>3, <1>4, RecordedTables DEF CommitStaged, Goto

(* A deny, a clear and a status leave the references alone and read the    *)
(* overlay back.                                                           *)
LEMMA OverlayFields ==
    ASSUME Typed, IssueDeny \/ ClearDeny \/ RecordStatus
    PROVE  /\ db'.active = db.active /\ db'.previous = db.previous
           /\ db'.staged = db.staged /\ db'.base = db.base
           /\ mem'.active = mem.active /\ mem'.denies = db'.denies /\ mem'.water = db'.water
           /\ mem'.up = mem.up /\ mem'.recovery = mem.recovery
           /\ pc = "gate" /\ pc' = "ack"
           /\ \/ /\ cur.kind = "deny" /\ CanDeny(cur)
                 /\ db'.denies = [db.denies EXCEPT ![cur.subject] = cur.epoch]
                 /\ db'.water = [db.water EXCEPT
                                   ![cur.subject] = [epoch |-> cur.epoch, floor |-> cur.floor]]
              \/ /\ cur.kind = "clear" /\ CanClear(cur)
                 /\ db'.denies = [db.denies EXCEPT ![cur.subject] = 0]
                 /\ db'.water = db.water
              \/ /\ cur.kind = "status"
                 /\ db'.denies = db.denies /\ db'.water = db.water
<1>1. /\ cur.subject \in Subject /\ cur.epoch \in Nat /\ cur.floor \in Nat
      /\ pc = "gate" /\ pc # "idle" /\ pc' = "ack" /\ HasRoom
  BY DEF IssueDeny, ClearDeny, RecordStatus, Executable, Goto, Typed, Command
<1>2. db \in Tables /\ mem \in Memory
  BY DEF Typed
<1>3. ASSUME NEW d \in Tables, db' = Recorded(d, cur), mem' = Renewed(mem, db') \/ mem' = Renewed(mem, d)
      PROVE  /\ db'.active = d.active /\ db'.previous = d.previous
             /\ db'.staged = d.staged /\ db'.base = d.base
             /\ db'.denies = d.denies /\ db'.water = d.water
             /\ mem'.active = mem.active /\ mem'.denies = d.denies /\ mem'.water = d.water
             /\ mem'.up = mem.up /\ mem'.recovery = mem.recovery
  <2>1. /\ db' \in Tables /\ db'.active = d.active /\ db'.previous = d.previous
        /\ db'.staged = d.staged /\ db'.base = d.base
        /\ db'.denies = d.denies /\ db'.water = d.water
    BY <1>1, <1>3, RecordedTables
  <2>2. CASE mem' = Renewed(mem, db')
    BY <1>2, <2>1, <2>2, RenewedMemory
  <2>3. CASE mem' = Renewed(mem, d)
    BY <1>2, <1>3, <2>1, <2>3, RenewedMemory
  <2> QED
    BY <1>3, <2>1, <2>2, <2>3
<1>4. CASE IssueDeny
  <2> DEFINE d == [db EXCEPT !.denies[cur.subject] = cur.epoch,
                             !.water[cur.subject] = [epoch |-> cur.epoch, floor |-> cur.floor]]
  <2>1. /\ d \in Tables /\ d.active = db.active /\ d.previous = db.previous
        /\ d.staged = db.staged /\ d.base = db.base
        /\ d.denies = [db.denies EXCEPT ![cur.subject] = cur.epoch]
        /\ d.water = [db.water EXCEPT
                        ![cur.subject] = [epoch |-> cur.epoch, floor |-> cur.floor]]
    BY <1>1, <1>2 DEF Tables, Mark
  <2>2. db' = Recorded(d, cur) /\ mem' = Renewed(mem, db') /\ cur.kind = "deny" /\ CanDeny(cur)
    BY <1>4 DEF IssueDeny, Executable
  <2> HIDE DEF d
  <2> QED
    BY <1>1, <1>3, <2>1, <2>2
<1>5. CASE ClearDeny
  <2> DEFINE d == [db EXCEPT !.denies[cur.subject] = 0]
  <2>1. /\ d \in Tables /\ d.active = db.active /\ d.previous = db.previous
        /\ d.staged = db.staged /\ d.base = db.base /\ d.water = db.water
        /\ d.denies = [db.denies EXCEPT ![cur.subject] = 0]
    BY <1>1, <1>2 DEF Tables, Mark
  <2>2. db' = Recorded(d, cur) /\ mem' = Renewed(mem, db') /\ cur.kind = "clear" /\ CanClear(cur)
    BY <1>5 DEF ClearDeny, Executable
  <2> HIDE DEF d
  <2> QED
    BY <1>1, <1>3, <2>1, <2>2
<1>6. CASE RecordStatus
  <2>1. db' = Recorded(db, cur) /\ mem' = Renewed(mem, db) /\ cur.kind = "status"
    BY <1>6 DEF RecordStatus
  <2> QED
    BY <1>1, <1>2, <1>3, <2>1
<1> QED
  BY <1>4, <1>5, <1>6

(* Memory in the other steps.                                              *)
LEMMA RestMemory ==
    ASSUME Typed, Rest
    PROVE  \/ /\ mem'.up = mem.up /\ mem'.active = mem.active /\ mem'.denies = mem.denies
              /\ mem'.water \in {mem.water, db.water}
              /\ (mem.recovery => mem'.recovery) \/ (ConfirmLive /\ mem.active # 0 /\ mem.up)
           \/ ~mem'.up /\ mem'.active = 0
           \/ /\ Boot /\ mem'.up /\ mem'.active = db.active /\ mem'.denies = db.denies
              /\ mem'.water = db.water
           \/ /\ BootFails /\ ~mem.up /\ mem'.up /\ mem'.active = mem.active
              /\ mem'.recovery /\ \E g \in Referenced : ~Loadable(g)
<1>1. CASE mem' = mem
  BY <1>1
<1>2. CASE Swap \/ SwapFails \/ StatusFails
  BY <1>2 DEF Swap, SwapFails, StatusFails, Typed, Memory
<1>3. CASE ConfirmLive
  BY <1>3 DEF ConfirmLive, up, Typed, Memory
<1>4. CASE \E fault \in Faults : Crash(fault)
  BY <1>4 DEF Crash, Typed, Memory
<1>5. CASE Boot
  <2>1. Reloaded(mem, db) \in Memory /\ Reloaded(mem, db).denies = db.denies
        /\ Reloaded(mem, db).water = db.water
    BY RenewedMemory DEF Typed
  <2> QED
    BY <1>5, <2>1 DEF Boot, Memory
<1>6. CASE BootFails
  BY <1>6 DEF BootFails, up, Typed, Memory
<1> QED
  BY <1>1, <1>2, <1>3, <1>4, <1>5, <1>6
     DEF Rest, Refuse, Cancel, Leave, Validate, Store, SyncDirectory, EnterRecovery,
         Acknowledge, Ack, Repeat, Collect, Rot

(* What Control is told in the other steps.                                *)
LEMMA RestTold ==
    ASSUME Typed, Rest
    PROVE  \/ /\ told'.floor = told.floor /\ told'.denied = told.denied
              /\ told'.applied = told.applied /\ told.lived \subseteq told'.lived
           \/ /\ \E r \in db.records : PushAck(r) /\ ~AckRefused(r)
              /\ mem' = mem /\ pc # "swap" /\ mem.up
<1>1. CASE Acknowledge
  <2>1. mem' = mem /\ pc # "swap" /\ mem.up
    BY <1>1 DEF Acknowledge, Ack, Repeat, Typed, up
  <2> QED
    BY <1>1, <2>1 DEF Acknowledge, Ack, Repeat, RecordOf
<1>2. CASE Swap \/ ConfirmLive \/ Boot
  BY <1>2 DEF Swap, ConfirmLive, Boot, Typed, Told
<1>3. CASE UNCHANGED told
  BY <1>3
<1> QED
  BY <1>1, <1>2, <1>3
     DEF Rest, Refuse, Cancel, Leave, Validate, Store, SyncDirectory, EnterRecovery,
         SwapFails, StatusFails, Collect, Rot, Crash, BootFails

LEMMA PushAckTold ==
    ASSUME Typed, NEW r \in db.records, PushAck(r)
    PROVE  /\ r.cmd \in Command
           /\ IF r.cmd.kind = "deny"
              THEN /\ told'.floor = Larger(told.floor, r.cmd.floor)
                   /\ told'.denied = [told.denied EXCEPT
                                        ![r.cmd.subject] = Larger(@, r.cmd.epoch)]
              ELSE told'.floor = told.floor /\ told'.denied = told.denied
           /\ told'.applied = IF r.cmd.kind = "commit"
                              THEN told.applied \cup {r.cmd.target} ELSE told.applied
           /\ told'.lived = told.lived
<1>1. r \in Record
  BY DEF Typed, Tables
<1>2. r.cmd \in Command
  BY <1>1 DEF Record
<1>3. r.cmd.subject \in Subject
  BY <1>2 DEF Command
<1> QED
  BY <1>2, <1>3 DEF PushAck, Typed, Told

-----------------------------------------------------------------------------
(* The pointer file: it is replaced before a commit's transaction, and a   *)
(* start sets it back (_write_active_pointer, _recover).                   *)
LEMMA PointedNext == Typed /\ Pointed /\ [Next]_vars => Pointed'
<1> SUFFICES ASSUME Typed, Pointed, [Next]_vars PROVE Pointed'
  OBVIOUS
<1>1. CASE UNCHANGED vars
  BY <1>1 DEF Pointed, vars
<1>2. CASE Issue
  BY <1>2, IssueSends DEF Sends, Pointed
<1>3. CASE Stage
  <2>1. disk.pointer = db.active /\ cur.target # 0
    BY <1>3, StageFields, ActivationAssumption DEF Pointed, ValidPrepare
  <2>2. disk' = disk
    BY <1>3 DEF Stage
  <2> QED
    BY <1>3, <2>1, <2>2, StageFields DEF Pointed
<1>4. CASE CommitStaged
  <2>1. disk' = disk
    BY <1>4 DEF CommitStaged
  <2> QED
    BY <1>4, <2>1, CommitFields DEF Pointed
<1>5. CASE IssueDeny \/ ClearDeny \/ RecordStatus
  <2>1. disk' = disk
    BY <1>5 DEF IssueDeny, ClearDeny, RecordStatus
  <2> QED
    BY <1>5, <2>1, OverlayFields DEF Pointed
<1>6. CASE Rest
  <2>1. CASE Boot
    <3>1. disk'.pointer = db.active /\ pc' = "idle"
      BY <2>1 DEF Boot, ReconciledPointer, up, Typed, Disk
    <3> QED
      BY <1>6, <3>1, RestFields DEF Pointed
  <2>2. CASE ~Boot
    <3>1. disk'.pointer = disk.pointer
      BY <1>6, <2>2 DEF Rest, Refuse, Cancel, Leave, Validate, Store, SyncDirectory,
         Swap, SwapFails, EnterRecovery, StatusFails, Acknowledge, Ack, Repeat,
         ConfirmLive, Collect, Rot, Crash, BootFails, Typed, Disk
    <3> QED
      BY <1>6, <2>2, <3>1, RestFields DEF Pointed
  <2> QED
    BY <2>1, <2>2
<1>7. CASE WritePointer
  <2>1. disk'.pointer = cur.target /\ db' = db /\ cur' = cur /\ db.staged = cur.target
    BY <1>7 DEF WritePointer, Executable, ValidCommit, Goto, Typed, Disk
  <2>2. cur.target # 0
    BY <1>7, ActivationAssumption DEF WritePointer, Typed, Named
  <2> QED
    BY <2>1, <2>2 DEF Pointed
<1>8. CASE \E c \in sent : Receive(c)
  BY <1>8 DEF Receive, Pointed
<1>9. CASE \E fenced \in BOOLEAN : ChangeFence(fenced)
  <2>1. db'.active = db.active /\ db'.staged = db.staged /\ UNCHANGED <<disk, cur, pc>>
    BY <1>9 DEF ChangeFence, Typed, Tables
  <2> QED
    BY <2>1 DEF Pointed
<1> QED
  BY <1>1, <1>2, <1>3, <1>4, <1>5, <1>6, <1>7, <1>8, <1>9, NextCases DEF Effect

LEMMA InitPointed == Init => Pointed
  BY DEF Init, NewTables, Pointed

-----------------------------------------------------------------------------
(* References, floors and memory, for a Control that never starts anew.    *)

LEMMA InitOrdered == Init => Ordered
  BY DEF Init, NewTables, NewState, Ordered, InStep

LEMMA StageOrdered ==
    ASSUME Typed, Chain, Ordered, Stage
    PROVE  Ordered'
<1>1. /\ cur \in sent /\ cur.seq = db.seq + 1 /\ cur.kind = "prepare"
      /\ mem.active = cur.base /\ cur.target > cur.base /\ pc' = "ack" /\ mem.up
  BY StageFields DEF Typed, Chain, Before, ValidPrepare
<1>2. db'.staged = cur.target /\ db'.base = db.active /\ cur.target > db.active
  BY <1>1, StageFields DEF Ordered
<1>3. db'.seq = db.seq + 1 /\ sent' = sent /\ cur' = cur /\ told'.floor = told.floor
      /\ db'.records \subseteq db.records \cup {[cmd |-> cur, acked |-> FALSE]}
  BY <1>1, EffectFields DEF Effect
<1>4. \A r \in db'.records : r \in db.records \/ r.cmd.kind = "prepare"
  BY <1>1, <1>3
<1>5. \A c \in sent' : c.seq # db'.seq + 1
  <2>1. \A c \in sent : c.seq <= db.seq + 1 /\ c.seq \in Nat /\ db.seq \in Nat
    BY DEF Chain, Typed, Tables, Command
  <2> QED
    BY <1>3, <2>1
<1> QED
  BY <1>1, <1>2, <1>3, <1>4, <1>5, StageFields DEF Ordered, InStep, Blank

LEMMA CommitOrdered ==
    ASSUME Typed, Chain, Pointed, Ordered, CommitStaged
    PROVE  Ordered' /\ cur.target > db.active /\ cur.target > told.floor
<1>1. /\ pc = "commit" /\ db.staged = cur.target /\ cur.target \in Gen
      /\ InStep /\ \A s \in Subject : db.water[s].floor < cur.target
  BY CommitFields DEF Ordered, Pointed
<1>2. /\ cur.target \in Nat \ {0} /\ db.active \in Nat /\ told.floor \in Nat
      /\ \A s \in Subject : db.water[s].floor \in Nat
  <2>1. db.water \in [Subject -> Mark] /\ db.active \in Ref /\ told.floor \in Nat
    BY DEF Typed, Tables, Told
  <2>2. \A s \in Subject : db.water[s] \in Mark
    BY <2>1
  <2> QED
    BY <1>1, <2>1, <2>2, RefNat DEF Mark
<1>3. cur.target > db.active /\ mem.active = db.active
  BY <1>1, <1>2 DEF Ordered, InStep
<1>4. cur.target > told.floor
  BY <1>1, <1>2 DEF Ordered
<1>5. db'.seq = cur.seq /\ sent' = sent /\ cur' = cur /\ told'.floor = told.floor
      /\ db'.records \subseteq db.records \cup {[cmd |-> cur, acked |-> FALSE]}
      /\ pc \in Before
  BY EffectFields DEF Effect
<1>6. \A r \in db'.records : r \in db.records \/ r.cmd.kind = "commit"
  BY <1>5, CommitFields
<1>7. \A c \in sent' : c.seq # db'.seq + 1
  <2>1. \A c \in sent : c.seq <= db.seq + 1 /\ c.seq \in Nat /\ db.seq \in Nat
    BY DEF Chain, Typed, Tables, Command
  <2> QED
    BY <1>5, <2>1 DEF Chain
<1>8. InStep'
  BY <1>1, CommitFields DEF InStep
<1>9. mem'.up
  BY EffectFields, CommitFields DEF Effect
<1> QED
  BY <1>2, <1>3, <1>4, <1>5, <1>6, <1>7, <1>8, <1>9, CommitFields DEF Ordered

LEMMA OverlayOrdered ==
    ASSUME Typed, Chain, Ordered, IssueDeny \/ ClearDeny \/ RecordStatus
    PROVE  Ordered'
<1>1. db'.seq = cur.seq /\ sent' = sent /\ cur' = cur /\ told'.floor = told.floor
      /\ db'.records \subseteq db.records \cup {[cmd |-> cur, acked |-> FALSE]}
      /\ pc \in Before /\ cur \in Command /\ mem.up
  BY EffectFields DEF Effect
<1>2. /\ cur.subject \in Subject /\ cur.epoch \in Nat /\ cur.floor \in Nat
      /\ db.water \in [Subject -> Mark] /\ told.floor \in Nat
      /\ db.records \subseteq Record
  BY <1>1 DEF Command, Typed, Tables, Told
<1>3. \A c \in sent' : c.seq # db'.seq + 1
  <2>1. \A c \in sent : c.seq <= db.seq + 1 /\ c.seq \in Nat /\ db.seq \in Nat
    BY DEF Chain, Typed, Tables, Command
  <2> QED
    BY <1>1, <2>1 DEF Chain
<1>4. \A s \in Subject : /\ db'.water[s].epoch >= db.water[s].epoch
                          /\ db'.water[s].floor >= db.water[s].floor
                          /\ db'.water[s] \in Mark
  BY <1>2, OverlayFields DEF CanDeny, Mark
<1>5. cur.kind = "deny" => /\ db'.water[cur.subject].epoch = cur.epoch
                           /\ db'.water[cur.subject].floor = cur.floor
  BY <1>2, OverlayFields DEF Mark
<1>6. \A r \in db'.records : r.cmd.kind = "deny" =>
         /\ db'.water[r.cmd.subject].epoch >= r.cmd.epoch
         /\ db'.water[r.cmd.subject].floor >= r.cmd.floor
  <2> SUFFICES ASSUME NEW r \in db'.records, r.cmd.kind = "deny"
               PROVE  /\ db'.water[r.cmd.subject].epoch >= r.cmd.epoch
                      /\ db'.water[r.cmd.subject].floor >= r.cmd.floor
    OBVIOUS
  <2>1. CASE r.cmd = cur
    BY <1>2, <1>5, <2>1
  <2>2. CASE r \in db.records
    <3>1. r.cmd \in Command
      BY <1>2, <2>2 DEF Record
    <3>2. r.cmd.subject \in Subject /\ r.cmd.epoch \in Nat /\ r.cmd.floor \in Nat
      BY <3>1 DEF Command
    <3>3. /\ db.water[r.cmd.subject].epoch >= r.cmd.epoch
          /\ db.water[r.cmd.subject].floor >= r.cmd.floor
          /\ db.water[r.cmd.subject] \in Mark
      BY <1>2, <2>2, <3>2 DEF Ordered
    <3> QED
      BY <1>4, <3>2, <3>3 DEF Mark
  <2> QED
    BY <1>1, <2>1, <2>2
<1>7. told'.floor = 0 \/ \E s \in Subject : db'.water[s].floor >= told'.floor
  BY <1>1, <1>2, <1>4 DEF Ordered, Mark
<1>8. InStep' \/ Blank'
  BY <1>1, OverlayFields DEF Ordered, InStep, Blank
<1> QED
  BY <1>1, <1>3, <1>6, <1>7, <1>8, OverlayFields DEF Ordered

LEMMA RestOrdered ==
    ASSUME Typed, Ordered, Rest
    PROVE  Ordered'
<1>1. db.water \in [Subject -> Mark] /\ told.floor \in Nat /\ db.active \in Nat /\ db.previous \in Nat
      /\ mem.active \in Nat
  BY RefNat DEF Typed, Tables, Memory, Told
<1>2. told'.floor = 0 \/ \E s \in Subject : db'.water[s].floor >= told'.floor
  <2>1. CASE told'.floor = told.floor
    BY <2>1, RestFields DEF Ordered
  <2>2. CASE \E r \in db.records : PushAck(r)
    <3>1. PICK r \in db.records : PushAck(r)
      BY <2>2
    <3>2. r.cmd \in Command /\ r.cmd.subject \in Subject /\ r.cmd.floor \in Nat
      BY <3>1, PushAckTold DEF Command
    <3>3. \/ told'.floor = told.floor
          \/ r.cmd.kind = "deny" /\ told'.floor = r.cmd.floor
      BY <3>1, PushAckTold DEF Larger
    <3> QED
      BY <3>2, <3>3, RestFields DEF Ordered
  <2> QED
    BY <2>1, <2>2, RestTold
<1>3. \A r \in db'.records : r.cmd.kind = "deny" =>
         /\ db'.water[r.cmd.subject].epoch >= r.cmd.epoch
         /\ db'.water[r.cmd.subject].floor >= r.cmd.floor
  <2> SUFFICES ASSUME NEW r \in db'.records, r.cmd.kind = "deny"
               PROVE  /\ db'.water[r.cmd.subject].epoch >= r.cmd.epoch
                      /\ db'.water[r.cmd.subject].floor >= r.cmd.floor
    OBVIOUS
  <2>1. PICK q \in db.records : r.cmd = q.cmd
    BY RestFields
  <2> QED
    BY <2>1, RestFields DEF Ordered
<1>4. IF mem'.up THEN InStep' \/ Blank' ELSE mem'.active = 0
  <2>1. Referenced # {} => db.active # 0
    BY <1>1 DEF Referenced, Ordered
  <2> QED
    BY <2>1, RestFields, RestMemory DEF Ordered, InStep, Blank
<1>5. pc' = "commit" => InStep' /\ \A s \in Subject : db'.water[s].floor < cur'.target
  <2> SUFFICES ASSUME pc' = "commit"
               PROVE  InStep' /\ \A s \in Subject : db'.water[s].floor < cur'.target
    OBVIOUS
  <2>1. pc = "commit" /\ cur' = cur /\ mem.up
    BY RestFields DEF Before, Typed
  <2>2. ~(~mem'.up)
    BY NextTyped, NextCases DEF Typed
  <2> QED
    BY <2>1, <2>2, RestFields, RestMemory DEF Ordered, InStep, Boot, BootFails, up
<1>6. pc' \in {"store", "sync"} => cur'.target > cur'.base
  <2>1. CASE Validate
    BY <2>1 DEF Validate, ValidPrepare, Goto
  <2>2. CASE ~Validate
    <3>1. pc' \in {"store", "sync"} => pc \in {"store", "sync"} /\ cur' = cur
      BY <2>2 DEF Rest, Refuse, Cancel, Leave, Store, SyncDirectory,
         Swap, SwapFails, EnterRecovery, StatusFails, Acknowledge, Ack, Repeat,
         ConfirmLive, Collect, Rot, Crash, Boot, BootFails, Goto, Finish
    <3> QED
      BY <3>1 DEF Ordered
  <2> QED
    BY <2>1, <2>2
<1>7. db'.staged # 0 => db'.staged > db'.active /\ db'.base = db'.active
  BY RestFields DEF Ordered
<1> QED
  BY <1>2, <1>3, <1>4, <1>5, <1>6, <1>7, RestFields DEF Ordered

LEMMA OrderedNext ==
    ASSUME ~Regenesis
    PROVE  Typed /\ Chain /\ Pointed /\ Ordered /\ [Next]_vars => Ordered'
<1> SUFFICES ASSUME Typed, Chain, Pointed, Ordered, [Next]_vars PROVE Ordered'
  OBVIOUS
<1>1. CASE UNCHANGED vars
  BY <1>1 DEF Ordered, InStep, Blank, vars
<1>2. CASE Issue
  <2>1. PICK c \in Command : Sends(c)
    BY <1>2, IssueSends
  <2>2. told'.floor = told.floor
    BY <2>1 DEF Sends, Typed, Told
  <2>3. \A d \in sent' : d \in sent \/ (d = c /\ (c.kind = "prepare" => c.base = db.active))
    BY <2>1 DEF Sends
  <2> QED
    BY <2>1, <2>2, <2>3 DEF Sends, Ordered, InStep, Blank
<1>3. CASE Effect
  BY <1>3, StageOrdered, CommitOrdered, OverlayOrdered DEF Effect
<1>4. CASE Rest
  BY <1>4, RestOrdered
<1>5. CASE WritePointer
  <2>1. /\ mem.up /\ db.staged = cur.target /\ cur.target # 0
        /\ AboveFloors(cur.target) /\ db.base = mem.active
    BY <1>5, ActivationAssumption
       DEF WritePointer, Executable, ValidCommit, Typed, Named
  <2>2. InStep
    BY <2>1 DEF Ordered, Blank
  <2>3. \A s \in Subject : db.water[s].floor < cur.target
    BY <2>1, <2>2 DEF AboveFloors, InStep
  <2>4. pc' = "commit" /\ UNCHANGED <<db, mem, told, cur, sent>>
    BY <1>5 DEF WritePointer, Goto
  <2> QED
    BY <2>1, <2>2, <2>3, <2>4 DEF Ordered, InStep, Blank
<1>6. CASE \E c \in sent : Receive(c)
  BY <1>6 DEF Receive, Ordered, InStep, Blank
<1>7. CASE \E fenced \in BOOLEAN : ChangeFence(fenced)
  <2>1. /\ db'.active = db.active /\ db'.staged = db.staged /\ db'.base = db.base
        /\ db'.previous = db.previous /\ db'.water = db.water /\ db'.denies = db.denies
        /\ db'.seq = db.seq /\ db'.records = db.records
        /\ UNCHANGED <<mem, disk, cur, pc, sent, told>>
    BY <1>7 DEF ChangeFence, Typed, Tables
  <2> QED
    BY <2>1 DEF Ordered, InStep, Blank
<1> QED
  BY <1>1, <1>2, <1>3, <1>4, <1>5, <1>6, <1>7, NextCases

(* Anti-rollback: the active generation only grows, above every floor that *)
(* was acknowledged, through every crash and every order of commands       *)
(* (validate_commit_reference, deny_highwater), as long as Control does    *)
(* not answer a Gateway in recovery with a new genesis.                    *)
THEOREM ActivationNoRollback ==
    ASSUME ~Regenesis
    PROVE  Spec => NoRollback
<1>1. Typed /\ Chain /\ Pointed /\ Ordered /\ [Next]_vars => Ordered'
  BY OrderedNext
<1>2. Typed /\ Chain /\ Pointed /\ Ordered /\ [Next]_vars
        => [db'.active # db.active => db'.active > db.active /\ db'.active > told.floor]_vars
  <2> SUFFICES ASSUME Typed, Chain, Pointed, Ordered, Next, db'.active # db.active
               PROVE  db'.active > db.active /\ db'.active > told.floor
    OBVIOUS
  <2>1. CommitStaged
    <3>1. CASE Issue
      BY <3>1, IssueSends DEF Sends
    <3>2. CASE \E fenced \in BOOLEAN : ChangeFence(fenced)
      BY <3>2 DEF ChangeFence, Typed, Tables
    <3> QED
      BY <3>1, <3>2, RestFields, StageFields, OverlayFields, NextCases
         DEF Effect, WritePointer, Receive
  <2> QED
    BY <2>1, CommitOrdered, CommitFields
<1> QED
  BY <1>1, <1>2, InitTyped, NextTyped, InitChain, ChainNext, InitPointed, PointedNext,
     InitOrdered, PTL DEF Spec, NoRollback

-----------------------------------------------------------------------------
(* The deny overlay.                                                       *)

LEMMA InitDenied == Init => Denied
  BY DEF Init, NewTables, NoDeny, NoWater, Denied

LEMMA OverlayDenied ==
    ASSUME Typed, Denied, IssueDeny \/ ClearDeny \/ RecordStatus
    PROVE  Denied'
<1>1. /\ cur \in sent /\ cur \in Command /\ sent' = sent
      /\ told'.clear = told.clear /\ told'.denied = told.denied
  BY EffectFields DEF Effect
<1>2. cur.subject \in Subject /\ cur.epoch \in Nat /\ cur.floor \in Nat
  BY <1>1 DEF Command
<1>3. /\ db.denies \in [Subject -> Nat] /\ db.water \in [Subject -> Mark]
      /\ told.denied \in [Subject -> Nat] /\ told.clear \in [Subject -> Nat]
  BY DEF Typed, Tables, Told
<1>4. ASSUME NEW s \in Subject
      PROVE  /\ told'.denied[s] <= db'.water[s].epoch
             /\ db'.denies[s] \in {0, db'.water[s].epoch}
             /\ db'.denies[s] = 0 => told'.clear[s] >= db'.water[s].epoch
  <2>1. /\ told.denied[s] <= db.water[s].epoch
        /\ db.denies[s] \in {0, db.water[s].epoch}
        /\ db.denies[s] = 0 => told.clear[s] >= db.water[s].epoch
        /\ db.water[s].epoch \in Nat /\ told.denied[s] \in Nat /\ told.clear[s] \in Nat
    BY <1>3 DEF Denied, Mark
  <2>2. CASE s # cur.subject
    BY <1>1, <1>3, <2>1, <2>2, OverlayFields
  <2>3. CASE s = cur.subject /\ cur.kind = "deny"
    <3>1. /\ db'.denies[s] = cur.epoch /\ db'.water[s].epoch = cur.epoch
          /\ cur.epoch > db.water[s].epoch
      BY <1>3, <2>3, OverlayFields DEF CanDeny
    <3> QED
      BY <1>1, <1>2, <2>1, <3>1
  <2>4. CASE s = cur.subject /\ cur.kind = "clear"
    <3>1. /\ db'.denies[s] = 0 /\ db'.water = db.water
          /\ db.denies[s] # 0 /\ db.denies[s] = cur.epoch
      BY <1>3, <2>4, OverlayFields DEF CanClear
    <3>2. told.clear[s] >= cur.epoch
      BY <1>1, <2>4 DEF Denied
    <3> QED
      BY <1>1, <1>2, <2>1, <3>1, <3>2
  <2>5. CASE cur.kind = "status"
    BY <1>1, <2>1, <2>5, OverlayFields
  <2> QED
    BY <2>2, <2>3, <2>4, <2>5, OverlayFields
<1> QED
  BY <1>1, <1>4 DEF Denied

LEMMA RestDenied ==
    ASSUME Typed, Ordered, Denied, Rest
    PROVE  Denied'
<1>1. ASSUME NEW s \in Subject
      PROVE  told'.denied[s] <= db.water[s].epoch
  <2>0. told.denied \in [Subject -> Nat] /\ told.denied[s] <= db.water[s].epoch
    BY DEF Typed, Told, Denied
  <2>1. CASE told'.denied = told.denied
    BY <2>1 DEF Denied
  <2>2. CASE \E r \in db.records : PushAck(r)
    <3>1. PICK r \in db.records : PushAck(r)
      BY <2>2
    <3>2. r.cmd \in Command /\ r.cmd.subject \in Subject
      BY <3>1, PushAckTold DEF Command
    <3>3. r.cmd.kind = "deny" => db.water[r.cmd.subject].epoch >= r.cmd.epoch
      BY DEF Ordered
    <3>4. db.water[s] \in Mark /\ r.cmd.epoch \in Nat
      BY <3>2 DEF Typed, Tables, Command
    <3>5. CASE r.cmd.kind = "deny" /\ s = r.cmd.subject
      <4>1. told'.denied[s] = Larger(told.denied[s], r.cmd.epoch)
        BY <2>0, <3>1, <3>5, PushAckTold
      <4> QED
        BY <2>0, <3>3, <3>5, <4>1 DEF Larger
    <3>6. CASE ~(r.cmd.kind = "deny" /\ s = r.cmd.subject)
      BY <2>0, <3>1, <3>6, PushAckTold
    <3> QED
      BY <3>5, <3>6
  <2> QED
    BY <2>1, <2>2, RestTold
<1> QED
  BY <1>1, RestFields DEF Denied

LEMMA DeniedNext == Typed /\ Ordered /\ Denied /\ [Next]_vars => Denied'
<1> SUFFICES ASSUME Typed, Ordered, Denied, [Next]_vars PROVE Denied'
  OBVIOUS
<1>1. CASE UNCHANGED vars
  BY <1>1 DEF Denied, vars
<1>2. CASE Issue
  <2>1. PICK c \in Command : Sends(c)
    BY <1>2, IssueSends
  <2>2. c.subject \in Subject /\ c.epoch \in Nat
    BY DEF Command
  <2>3. told.clear \in [Subject -> Nat] /\ db.water \in [Subject -> Mark] /\ \A d \in sent : d \in Command
    BY DEF Typed, Told, Tables
  <2>4. told'.denied = told.denied
        /\ told'.clear = IF c.kind = "clear"
                         THEN [told.clear EXCEPT ![c.subject] = Larger(@, c.epoch)] ELSE told.clear
    BY <2>1 DEF Sends, Typed, Told
  <2>5. \A s \in Subject : told'.clear[s] >= told.clear[s] /\ told'.clear[s] \in Nat
    BY <2>2, <2>3, <2>4 DEF Larger
  <2>6. c.kind = "clear" => told'.clear[c.subject] >= c.epoch
    BY <2>2, <2>3, <2>4 DEF Larger
  <2>7. \A d \in sent' : d \in sent \/ d = c
    BY <2>1 DEF Sends
  <2>8. \A d \in sent' : d.kind = "clear" => told'.clear[d.subject] >= d.epoch
    <3> SUFFICES ASSUME NEW d \in sent, d.kind = "clear" PROVE told'.clear[d.subject] >= d.epoch
      BY <2>6, <2>7
    <3>1. d.subject \in Subject /\ d.epoch \in Nat /\ told.clear[d.subject] >= d.epoch
      BY <2>3 DEF Denied, Command
    <3> QED
      BY <2>3, <2>5, <3>1
  <2>9. db' = db /\ \A s \in Subject : db.water[s].epoch \in Nat
    BY <2>1, <2>3 DEF Sends, Mark
  <2> QED
    BY <2>3, <2>4, <2>5, <2>8, <2>9 DEF Denied
<1>3. CASE Stage \/ CommitStaged
  BY <1>3, StageFields, CommitFields, EffectFields DEF Effect, Denied
<1>4. CASE IssueDeny \/ ClearDeny \/ RecordStatus
  BY <1>4, OverlayDenied
<1>5. CASE Rest
  BY <1>5, RestDenied
<1>6. CASE WritePointer \/ \E c \in sent : Receive(c)
  BY <1>6 DEF WritePointer, Receive, Goto, Denied
<1>7. CASE \E fenced \in BOOLEAN : ChangeFence(fenced)
  <2>1. db'.water = db.water /\ db'.denies = db.denies /\ UNCHANGED <<sent, told>>
    BY <1>7 DEF ChangeFence, Typed, Tables
  <2> QED
    BY <2>1 DEF Denied
<1> QED
  BY <1>1, <1>2, <1>3, <1>4, <1>5, <1>6, <1>7, NextCases DEF Effect

(* A deny that was acknowledged holds until a clear of its epoch, or of a  *)
(* later one, is issued, for every number of crashes, activations and      *)
(* repeated commands (issue_deny, clear_deny, _load_denies), as long as    *)
(* Control does not answer a Gateway in recovery with a new genesis.       *)
THEOREM ActivationDenyHolds ==
    ASSUME ~Regenesis
    PROVE  Spec => []DenyHolds
<1>1. Typed /\ Chain /\ Pointed /\ Ordered /\ [Next]_vars => Ordered'
  BY OrderedNext
<1>2. Typed /\ Ordered /\ Denied => DenyHolds
  <2> SUFFICES ASSUME Typed, Ordered, Denied, NEW s \in Subject,
                      told.denied[s] > told.clear[s], Permits(s)
               PROVE  FALSE
    BY DEF DenyHolds
  <2>1. InStep
    BY DEF Permits, up, DenyAll, Ordered, Blank
  <2>2. db.water[s].epoch \in Nat /\ told.denied[s] \in Nat /\ told.clear[s] \in Nat
    BY DEF Typed, Tables, Told, Mark
  <2> QED
    BY <2>1, <2>2 DEF InStep, Permits, Denied
<1> QED
  BY <1>1, <1>2, InitTyped, NextTyped, InitChain, ChainNext, InitPointed, PointedNext,
     InitOrdered, InitDenied, DeniedNext, PTL DEF Spec

-----------------------------------------------------------------------------
(* What was acknowledged as applied has been live.                         *)

LEMMA InitLived == Init => Lived
  BY DEF Init, NewTables, NewState, Lived, AppliedIsLive

(* The active generation and everything applied, as numbers.               *)
LEMMA LivedNumbers ==
    Typed => /\ db.active \in Nat /\ told.applied \subseteq Nat \ {0} /\ told.lived \subseteq Nat
             /\ \A r \in db.records : r.cmd.kind = "commit" => r.cmd.target \in Nat \ {0}
<1> SUFFICES ASSUME Typed
             PROVE  /\ db.active \in Nat /\ told.applied \subseteq Nat \ {0} /\ told.lived \subseteq Nat
                    /\ \A r \in db.records : r.cmd.kind = "commit" => r.cmd.target \in Nat \ {0}
  OBVIOUS
<1>1. db.active \in Ref /\ told.applied \subseteq Gen /\ told.lived \subseteq Gen
  BY DEF Typed, Tables, Told
<1>2. \A r \in db.records : r.cmd.kind = "commit" => r.cmd.target \in Gen
  BY DEF Typed, Named
<1> QED
  BY <1>1, <1>2, RefNat

LEMMA CommitLived ==
    ASSUME Typed, Chain, Pointed, Ordered, Lived, CommitStaged
    PROVE  Lived'
<1>1. cur.target > db.active /\ cur.target \in Nat /\ db'.active = cur.target
  BY CommitOrdered, CommitFields, RefNat
<1>2. /\ db'.records \subseteq db.records \cup {[cmd |-> cur, acked |-> FALSE]}
      /\ told'.applied = told.applied /\ told'.lived = told.lived /\ cur' = cur /\ pc' = "swap"
  BY EffectFields, CommitFields DEF Effect
<1>3. \A r \in db'.records : r.cmd.kind = "commit" => r.cmd.target <= db'.active
  <2> SUFFICES ASSUME NEW r \in db'.records, r.cmd.kind = "commit" PROVE r.cmd.target <= db'.active
    OBVIOUS
  <2>1. r \in db.records \/ r.cmd = cur
    BY <1>2
  <2> QED
    BY <1>1, <2>1, LivedNumbers DEF Lived
<1>4. AppliedIsLive'
  BY <1>1, <1>2, LivedNumbers DEF Lived, AppliedIsLive
<1> QED
  BY <1>1, <1>2, <1>3, <1>4 DEF Lived

LEMMA OtherEffectLived ==
    ASSUME Typed, Lived, Effect, ~CommitStaged
    PROVE  Lived'
<1>1. db'.active = db.active /\ mem'.up = mem.up /\ mem'.recovery = mem.recovery
      /\ cur.kind # "commit" /\ pc' = "ack" /\ pc = "gate"
  BY StageFields, OverlayFields DEF Effect
<1>2. /\ db'.records \subseteq db.records \cup {[cmd |-> cur, acked |-> FALSE]}
      /\ told'.applied = told.applied /\ told'.lived = told.lived
  BY EffectFields
<1>3. \A r \in db'.records : r.cmd.kind = "commit" => r \in db.records
  BY <1>1, <1>2
<1> QED
  BY <1>1, <1>2, <1>3 DEF Lived, AppliedIsLive

LEMMA RestLived ==
    ASSUME Typed, Ordered, Lived, Rest
    PROVE  Lived'
<1>1. \A r \in db'.records : r.cmd.kind = "commit" => r.cmd.target <= db'.active
  <2> SUFFICES ASSUME NEW r \in db'.records, r.cmd.kind = "commit" PROVE r.cmd.target <= db'.active
    OBVIOUS
  <2>1. PICK q \in db.records : r.cmd = q.cmd
    BY RestFields
  <2> QED
    BY <2>1, RestFields DEF Lived
<1>2. pc' = "swap" => pc = "swap" /\ cur' = cur /\ ~Swap
  BY DEF Rest, Refuse, Cancel, Leave, Validate, Store, SyncDirectory,
         Swap, SwapFails, EnterRecovery, StatusFails, Acknowledge, Ack, Repeat,
         ConfirmLive, Collect, Rot, Crash, Boot, BootFails, Goto, Finish
<1>3. AppliedIsLive'
  <2>1. CASE told'.applied = told.applied /\ told.lived \subseteq told'.lived
    BY <2>1, RestFields DEF Lived, AppliedIsLive
  <2>2. CASE \E r \in db.records : PushAck(r) /\ ~AckRefused(r) /\ pc # "swap" /\ mem.up
    <3>1. PICK r \in db.records : PushAck(r) /\ ~AckRefused(r) /\ pc # "swap" /\ mem.up
      BY <2>2
    <3>2. told'.lived = told.lived
          /\ told'.applied = IF r.cmd.kind = "commit" THEN told.applied \cup {r.cmd.target} ELSE told.applied
      BY <3>1, PushAckTold
    <3>3. r.cmd.kind = "commit" =>
            r.cmd.target <= db.active /\ db.active \in told.lived
      BY <3>1, LivedNumbers DEF Lived, AckRefused
    <3> QED
      BY <3>2, <3>3, RestFields DEF Lived, AppliedIsLive
  <2> QED
    BY <2>1, <2>2, RestTold
<1>4. db'.active \in told'.lived \cup {0} \/ ~mem'.up \/ mem'.recovery \/ pc' = "swap"
  <2>1. CASE Swap
    BY <2>1 DEF Swap, Lived, Typed, Told
  <2>2. CASE ConfirmLive
    <3>1. mem.active = db.active
      BY <2>2 DEF ConfirmLive, up, Ordered, InStep, Blank
    <3>2. told'.lived = told.lived \cup {mem.active} /\ db'.active = db.active
      BY <2>2 DEF ConfirmLive, Typed, Told, Tables
    <3> QED
      BY <3>1, <3>2
  <2>3. CASE Boot
    <3>1. told'.lived = told.lived \cup ({db.active} \ {0})
      BY <2>3 DEF Boot, Typed, Told
    <3> QED
      BY <3>1, RestFields
  <2>4. CASE SwapFails
    BY <2>4 DEF SwapFails, Typed, Memory
  <2>5. CASE ~Swap /\ ~ConfirmLive /\ ~Boot /\ ~SwapFails
    <3>1. pc = "swap" => pc' = "swap" \/ ~mem'.up
      BY <2>5 DEF Rest, Refuse, Cancel, Validate, Store, SyncDirectory,
         EnterRecovery, StatusFails, Acknowledge, Ack, Repeat,
         Collect, Rot, Crash, BootFails, up, Typed, Memory
    <3>2. told.lived \subseteq told'.lived
      BY RestTold, PushAckTold
    <3> QED
      BY <2>5, <3>1, <3>2, RestFields, RestMemory DEF Lived
  <2> QED
    BY <2>1, <2>2, <2>3, <2>4, <2>5
<1> QED
  BY <1>1, <1>2, <1>3, <1>4, RestFields DEF Lived

LEMMA LivedNext ==
    Typed /\ Chain /\ Pointed /\ Ordered /\ Lived /\ [Next]_vars => Lived'
<1> SUFFICES ASSUME Typed, Chain, Pointed, Ordered, Lived, [Next]_vars PROVE Lived'
  OBVIOUS
<1>1. CASE UNCHANGED vars
  BY <1>1 DEF Lived, AppliedIsLive, vars
<1>2. CASE Issue
  <2>1. PICK c \in Command : Sends(c)
    BY <1>2, IssueSends
  <2>2. told'.applied = told.applied /\ told'.lived = told.lived
    BY <2>1 DEF Sends, Typed, Told
  <2> QED
    BY <2>1, <2>2 DEF Sends, Lived, AppliedIsLive
<1>3. CASE Effect
  BY <1>3, CommitLived, OtherEffectLived
<1>4. CASE Rest
  BY <1>4, RestLived
<1>5. CASE WritePointer \/ \E c \in sent : Receive(c)
  BY <1>5 DEF WritePointer, Receive, Goto, Lived, AppliedIsLive
<1>6. CASE \E fenced \in BOOLEAN : ChangeFence(fenced)
  <2>1. db'.active = db.active /\ db'.records = db.records /\ UNCHANGED <<mem, cur, pc, told>>
    BY <1>6 DEF ChangeFence, Typed, Tables
  <2> QED
    BY <2>1 DEF Lived, AppliedIsLive
<1> QED
  BY <1>1, <1>2, <1>3, <1>4, <1>5, <1>6, NextCases

(* An activation that was acknowledged as APPLIED is active until a later  *)
(* one replaces it, and it or a later one has been live, for every order   *)
(* of failed swaps, crashes and repeated commands (_commit, _ack).         *)
THEOREM ActivationAppliedIsLive ==
    ASSUME ~Regenesis
    PROVE  Spec => []AppliedIsLive
<1>1. Typed /\ Chain /\ Pointed /\ Ordered /\ [Next]_vars => Ordered'
  BY OrderedNext
<1>2. Lived => AppliedIsLive
  BY DEF Lived
<1> QED
  BY <1>1, <1>2, InitTyped, NextTyped, InitChain, ChainNext, InitPointed, PointedNext,
     InitOrdered, InitLived, LivedNext, PTL DEF Spec

-----------------------------------------------------------------------------
(* The bundle files.                                                       *)

(* Kills and power losses do not follow each other: after both, an entry   *)
(* that a killed PREPARE left unsynced is taken as it is by the next one   *)
(* and may be lost from under the active bundle (store_bundle).            *)
OneKindOfCrash == Faults # {"kill", "power"}

LEMMA InitFiled == Init => Filed
  BY DEF Init, NewTables, NewState, Filed

(* The bundles in use are older than the one being prepared.               *)
LEMMA PreparedIsNew ==
    ASSUME Typed, Chain, Ordered, pc \in {"store", "sync"}
    PROVE  cur.target \notin {db.active, db.previous}
<1>1. cur \in sent /\ cur.kind = "prepare" /\ cur.seq = db.seq + 1
  BY DEF Typed, PrepareSteps, Chain, Before
<1>2. cur.base = db.active /\ cur.target > cur.base /\ db.previous <= db.active
  BY <1>1 DEF Ordered
<1>3. cur.target \in Nat /\ db.active \in Nat /\ db.previous \in Nat
  BY <1>1, RefNat DEF Typed, Tables, Named
<1> QED
  BY <1>2, <1>3

LEMMA StoreFiled ==
    ASSUME Typed, Filed, Store \/ SyncDirectory
    PROVE  Filed'
<1>1. /\ disk'.rotten = disk.rotten /\ disk'.bad = disk.bad /\ disk.files \subseteq disk'.files
      /\ UNCHANGED <<db, mem, cur>> /\ pc \in {"store", "sync"} /\ pc' \in {"gate", "sync"}
  BY DEF Store, SyncDirectory, Goto, Typed, Disk
<1>2. \/ disk' = disk /\ pc = "store"
      \/ disk'.files = disk'.durable
      \/ /\ pc = "store" /\ pc' = "sync"
         /\ disk'.files = disk.files \cup {cur.target} /\ disk'.durable = disk.durable
  BY DEF Store, SyncDirectory, Goto, Typed, Disk
<1> QED
  BY <1>1, <1>2 DEF Filed

LEMMA CollectFiled ==
    ASSUME Typed, Pointed, Ordered, Filed, Collect
    PROVE  Filed'
<1>1. /\ disk'.files \subseteq disk.files /\ disk'.durable = disk'.files
      /\ disk'.rotten \subseteq disk.rotten /\ disk'.bad = disk.bad /\ mem.up
      /\ UNCHANGED <<db, mem, cur, pc>>
      /\ \A g \in {mem.active, db.staged, db.previous} : g \in disk.files => g \in disk'.files
  BY DEF Collect, up, Typed, Disk
<1> QED
  BY <1>1 DEF Filed, Pointed

LEMMA CrashFiled ==
    ASSUME OneKindOfCrash, Typed, Chain, Ordered, Filed, NEW fault \in Faults, Crash(fault)
    PROVE  Filed'
<1>1. PICK lost \in SUBSET (IF fault = "power" THEN disk.files \ disk.durable ELSE {}) :
        disk' = [disk EXCEPT !.files = @ \ lost, !.rotten = @ \ lost,
                             !.durable = IF fault = "power" THEN disk.files \ lost ELSE @]
  BY DEF Crash
<1>2. /\ disk'.files = disk.files \ lost /\ disk'.rotten = disk.rotten \ lost
      /\ disk'.bad = disk.bad /\ (fault = "power" => disk'.durable = disk'.files)
      /\ (fault # "power" => disk'.durable = disk.durable)
  BY <1>1 DEF Typed, Disk
<1>3. db' = db /\ ~mem'.up /\ pc' = "idle"
  BY DEF Crash, Typed, Memory
<1>4. "power" \in Faults => fault = "power"
  BY ActivationAssumption DEF OneKindOfCrash
<1>5. db.active \notin lost /\ db.previous \notin lost
  <2>1. CASE fault = "power"
    <3>1. lost \subseteq {cur.target} /\ (lost # {} => pc = "sync")
      BY <1>1, <2>1 DEF Filed
    <3> QED
      BY <3>1, PreparedIsNew
  <2>2. CASE fault # "power"
    BY <1>1, <2>2
  <2> QED
    BY <2>1, <2>2
<1> QED
  BY <1>2, <1>3, <1>4, <1>5 DEF Filed

LEMMA BootFiled ==
    ASSUME Typed, Ordered, Filed, Boot \/ BootFails
    PROVE  Filed'
<1>1. pc = "idle" /\ ~mem.up /\ pc' = "idle"
  BY DEF Boot, BootFails, up, Typed
<1>2. CASE Boot
  <2>1. /\ disk'.files = disk.files \ Quarantined /\ disk'.durable = disk.durable \ Quarantined
        /\ disk'.rotten = disk.rotten \ Quarantined /\ disk'.bad = disk.bad
    BY <1>2 DEF Boot, Typed, Disk
  <2>2. db'.active = db.active /\ db'.previous = db.previous
    BY <1>2 DEF Boot, Typed, Tables
  <2>3. db.active \notin Quarantined /\ db.previous \notin Quarantined
    <3>1. db.staged \in Nat /\ db.active \in Nat /\ db.previous \in Nat
      BY RefNat DEF Typed, Tables
    <3> QED
      BY <3>1 DEF Quarantined, Ordered
  <2>4. mem'.active = db.active
    BY <1>2, RestMemory DEF Rest, Boot, Reloaded, Typed, Memory
  <2> QED
    BY <1>1, <2>1, <2>2, <2>3, <2>4 DEF Filed
<1>3. CASE BootFails
  <2>1. disk.bad
    BY <1>3 DEF BootFails, Referenced, Loadable, Filed
  <2> QED
    BY <1>1, <1>3, <2>1 DEF BootFails, Filed
<1> QED
  BY <1>2, <1>3

LEMMA FiledNext ==
    ASSUME OneKindOfCrash
    PROVE  Typed /\ Chain /\ Pointed /\ Ordered /\ Filed /\ [Next]_vars => Filed'
<1> SUFFICES ASSUME Typed, Chain, Pointed, Ordered, Filed, [Next]_vars PROVE Filed'
  OBVIOUS
<1>1. CASE UNCHANGED vars
  BY <1>1 DEF Filed, vars
<1>2. CASE Issue
  BY <1>2, IssueSends DEF Sends, Filed
<1>3. CASE CommitStaged
  <2>1. mem.active = db.active /\ db'.previous = mem.active /\ db'.active = cur.target
        /\ mem'.active = cur.target /\ disk' = disk /\ pc = "commit" /\ pc' = "swap"
    BY <1>3, CommitFields DEF Ordered, InStep, CommitStaged
  <2> QED
    BY <2>1 DEF Filed
<1>4. CASE Effect /\ ~CommitStaged
  <2>1. /\ db'.active = db.active /\ db'.previous = db.previous /\ pc = "gate" /\ pc' = "ack"
        /\ mem'.active = mem.active /\ mem'.up = mem.up /\ disk' = disk
    BY <1>4, StageFields, OverlayFields, EffectFields DEF Effect
  <2> QED
    BY <2>1 DEF Filed
<1>5. CASE WritePointer
  <2>1. /\ disk'.files = disk.files /\ disk'.durable = disk.durable
        /\ disk'.rotten = disk.rotten /\ disk'.bad = disk.bad
        /\ UNCHANGED <<db, mem, cur>> /\ pc = "gate" /\ pc' = "commit" /\ Loadable(cur.target)
    BY <1>5 DEF WritePointer, Executable, Goto, Typed, Disk
  <2> QED
    BY <2>1 DEF Filed, Loadable
<1>6. CASE \E c \in sent : Receive(c)
  BY <1>6 DEF Receive, Filed
<1>7. CASE \E fenced \in BOOLEAN : ChangeFence(fenced)
  <2>1. db'.active = db.active /\ db'.previous = db.previous /\ UNCHANGED <<mem, disk, cur, pc>>
    BY <1>7 DEF ChangeFence, Typed, Tables
  <2> QED
    BY <2>1 DEF Filed
<1>8. CASE Store \/ SyncDirectory
  BY <1>8, StoreFiled
<1>9. CASE Collect
  BY <1>9, CollectFiled
<1>10. CASE \E role \in RotRole : Rot(role)
  <2>1. /\ disk'.bad /\ disk'.files = disk.files /\ disk'.durable = disk.durable
        /\ UNCHANGED <<db, mem, cur, pc>> /\ pc # "commit"
    BY <1>10 DEF Rot, Typed, Disk
  <2> QED
    BY <2>1 DEF Filed
<1>11. CASE \E fault \in Faults : Crash(fault)
  BY <1>11, CrashFiled
<1>12. CASE Boot \/ BootFails
  BY <1>12, BootFiled
<1>13. CASE Rest /\ disk' = disk /\ ~Boot /\ ~BootFails /\ ~(\E fault \in Faults : Crash(fault))
                 /\ ~SyncDirectory
  <2>1. mem'.active = mem.active /\ mem'.up = mem.up
    BY <1>13 DEF Rest, Refuse, Cancel, Leave, Validate, Store, Swap, SwapFails, EnterRecovery,
       StatusFails, Acknowledge, Ack, Repeat, ConfirmLive, Collect, Rot, Typed, Memory
  <2>2. pc = "sync" => pc' = "sync" /\ cur' = cur
    BY <1>13 DEF Rest, Refuse, Cancel, Leave, Validate, Store, Swap, SwapFails, EnterRecovery,
       StatusFails, Acknowledge, Ack, Repeat, ConfirmLive, Collect, Rot
  <2> QED
    BY <1>13, <2>1, <2>2, RestFields DEF Filed, Before
<1> QED
  BY <1>1, <1>2, <1>3, <1>4, <1>5, <1>6, <1>7, <1>8, <1>9, <1>10, <1>11, <1>12, <1>13, NextCases
     DEF Rest, Refuse, Cancel, Leave, Validate, Swap, SwapFails, EnterRecovery,
         StatusFails, Acknowledge, Ack, Repeat, ConfirmLive, Effect

(* Every start finds the bundles that the database names, for every place  *)
(* a stop may fall between file and transaction and every collection       *)
(* (store_bundle, gc_bundles, _recover, _write_active_pointer), as long as *)
(* all stops are of one kind and Control does not start a new genesis.     *)
THEOREM ActivationBootKeepsActive ==
    ASSUME ~Regenesis, OneKindOfCrash
    PROVE  Spec => []BootKeepsActive
<1>1. Typed /\ Chain /\ Pointed /\ Ordered /\ [Next]_vars => Ordered'
  BY OrderedNext
<1>2. Typed /\ Chain /\ Pointed /\ Ordered /\ Filed /\ [Next]_vars => Filed'
  BY FiledNext
<1>3. Pointed /\ Ordered /\ Filed => BootKeepsActive
  BY DEF Pointed, Ordered, InStep, Blank, Filed, BootKeepsActive, up
<1> QED
  BY <1>1, <1>2, <1>3, InitTyped, NextTyped, InitChain, ChainNext, InitPointed, PointedNext,
     InitOrdered, InitFiled, PTL DEF Spec
=============================================================================
