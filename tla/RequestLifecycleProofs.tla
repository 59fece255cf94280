----------------------- MODULE RequestLifecycleProofs -----------------------
(***************************************************************************)
(* Proofs about RequestLifecycle, for every finite set of requests and     *)
(* every limit.                                                            *)
(*                                                                         *)
(* A step belongs to one request and leaves the others alone, or is a part *)
(* of aclose.  The invariant is therefore a conjunction of statements      *)
(* about one request, each indexed by the await its task or its shadow     *)
(* task is suspended in: what the leases and the provider are up to, what  *)
(* has been replied, which permits are out, which events are still owed    *)
(* and how many the reservation must still hold.                           *)
(***************************************************************************)
EXTENDS RequestLifecycle, FiniteSetTheorems, TLAPS

Point == {"new", "reply", "body", "profile", "acquire", "permit", "prepare", "send",
          "error_body", "relay", "resolve", "record", "answer", "close", "settle",
          "cancelled", "late", "release", "done"}

ShadowPoint == {"off", "acquire", "prepare", "send", "drain", "resolve", "record",
                "close", "done"}

Leg == [lease : {"none", "open", "released", "kept", "keeping", "releasing"},
        sent : BOOLEAN, provider : {"idle", "running", "ended", "elsewhere"},
        reserved : BOOLEAN]

Plan == [outcome : Outcome, uncertain : BOOLEAN, next : {"settle", "acquire", "answer"}]

Life == [state : {"none", "open", "released"}, left : Int, pend : Int, outcome : Outcome]

Cut == Resource \cup {"life", "shadow", "record", "shadow_record"}

Typed ==
    /\ pc \in [Request -> Point] /\ shadow \in [Request -> ShadowPoint]
    /\ kill \in [Request -> BOOLEAN] /\ held \in [Request -> SUBSET Resource]
    /\ call \in [Request -> [main : Leg, shadow : Leg]]
    /\ plan \in [Request -> Plan] /\ unwind \in [Request -> {"none", "cancel", "error"}]
    /\ life \in [Request -> Life]
    /\ reply \in [Request -> {"none", "started", "done"}]
    /\ timer \in [Request -> {"off", "armed", "expired"}]
    /\ app \in {"open", "nohttp", "closed"} /\ trouble \in Nat
    /\ hist \in [Request -> [sends : Nat, result : Outcome, cut : SUBSET Cut]]

(* The lease and the call of an attempt.                                   *)
MainLeg(r) ==
    /\ pc[r] \in InAttempt \cup {"resolve"} <=> Main(r).lease = "open"
    /\ pc[r] \in {"permit", "prepare"} => Main(r).provider = "idle" /\ ~Main(r).sent
    /\ pc[r] = "permit" => ~Main(r).reserved
    /\ pc[r] \in {"send", "error_body", "relay"} => Main(r).sent
    /\ pc[r] = "resolve" /\ ~plan[r].uncertain => Main(r).provider # "running"
    /\ Main(r).lease = "released" => Main(r).provider # "running"

ShadowLeg(r) ==
    /\ shadow[r] \in {"off", "acquire"} => Shadow(r).lease = "none"
    /\ shadow[r] \in {"prepare", "send", "drain"} => Shadow(r).lease = "open"
    /\ shadow[r] = "prepare" => Shadow(r).provider = "idle" /\ ~Shadow(r).sent
    /\ shadow[r] \in {"send", "drain"} => Shadow(r).sent
    /\ shadow[r] = "resolve" => Shadow(r).lease \in {"keeping", "releasing"}
    /\ shadow[r] \in {"record", "close", "done"} => Shadow(r).lease \in {"none", "released", "kept"}
    /\ Shadow(r).lease \in {"releasing", "released"} => Shadow(r).provider # "running"

(* Before a fallback nothing has been replied.                             *)
Replies(r) ==
    /\ pc[r] \in {"new", "body", "profile", "acquire", "permit", "prepare", "send", "error_body"}
          => reply[r] = "none"
    /\ pc[r] \in {"resolve", "record", "close"} /\ plan[r].next = "acquire"
          => reply[r] = "none"
    /\ pc[r] = "answer" => plan[r].next = "answer"

(* A shadow runs from the relay on, after which no leg follows.            *)
ShadowLate(r) ==
    shadow[r] # "off" =>
        /\ pc[r] \in {"relay", "resolve", "record", "close", "settle", "cancelled", "late",
                      "release", "done"}
        /\ pc[r] \in {"resolve", "record", "close"} => plan[r].next = "settle"
        /\ pc[r] \in {"relay", "resolve", "record"} => Main(r).reserved

Unwinding(r) ==
    /\ unwind[r] # "none" => pc[r] \in {"resolve", "record", "close"}
    /\ unwind[r] = "error" => ~Open(r) \/ shadow[r] = "off"

(* A cancelled shadow starts nothing.                                      *)
Cancelling(r) ==
    pc[r] \in {"cancelled", "release", "done"} /\ Running(r) =>
        kill[r] \/ shadow[r] \in {"resolve", "record", "close"}

(* Where each permit, quota and response may be held.                      *)
Holding(r) ==
    /\ "reader" \in held[r] => pc[r] = "body"
    /\ "stream" \in held[r] => pc[r] \in {"error_body", "relay", "resolve", "record", "answer", "close"}
    /\ "permit" \in held[r] =>
          \/ pc[r] \in {"prepare", "send", "error_body", "relay", "resolve", "record", "answer", "close"}
          \/ "permit" \in hist[r].cut
    /\ "shadow_permit" \in held[r] => Running(r) \/ "shadow_permit" \in hist[r].cut
    /\ "shadow_stream" \in held[r] => Running(r)
    /\ pc[r] = "done" =>
          /\ held[r] \subseteq hist[r].cut
          /\ life[r].state = "open" => "life" \in hist[r].cut
          /\ Running(r) => "shadow" \in hist[r].cut

(* The resolutions still to be recorded.                                   *)
OwesMain(r) ==
    /\ Main(r).reserved
    /\ pc[r] \in {"prepare", "send", "error_body", "relay", "resolve", "record"}

OwesShadow(r) ==
    /\ Shadow(r).reserved
    /\ shadow[r] \in {"prepare", "send", "drain", "resolve", "record"}

Excused(r) == app = "closed" \/ "record" \in hist[r].cut \/ "shadow_record" \in hist[r].cut

Owing(r) ==
    /\ pc[r] \in {"prepare", "send", "error_body", "relay"} => Main(r).reserved
    /\ Open(r) => /\ life[r].pend >= 0
                  /\ OwesMain(r) \/ OwesShadow(r) => life[r].pend >= 1
                  /\ OwesMain(r) /\ OwesShadow(r) => life[r].pend >= 2
    /\ ~Excused(r) => /\ life[r].pend <= 2
                      /\ ~OwesMain(r) \/ ~OwesShadow(r) => life[r].pend <= 1
                      /\ ~OwesMain(r) /\ ~OwesShadow(r) => life[r].pend = 0
                      /\ Open(r) \/ life[r].pend = 0
                      /\ OwesMain(r) \/ OwesShadow(r) => Open(r)

(* The attempts, and the pair of profile events, that may still come.      *)
Ahead(r) ==
    IF pc[r] \in {"body", "profile"} THEN 1 + Sends[r]
    ELSE IF pc[r] = "permit" THEN 1 + Sends[r] - hist[r].sends
    ELSE IF pc[r] \in {"acquire", "prepare", "send", "error_body", "relay", "resolve",
                       "record", "answer", "close"} THEN Sends[r] - hist[r].sends
    ELSE 0

Slots(r) ==
    /\ hist[r].sends <= Sends[r]
    /\ pc[r] \in {"new", "body", "profile"} => hist[r].sends = 0
    /\ pc[r] = "new" => ~Open(r)
    /\ Open(r) => life[r].left >= 1 + life[r].pend + 2 * Ahead(r)
    /\ Open(r) /\ HasShadow[r] /\ shadow[r] \in {"off", "acquire"} =>
          life[r].left >= 3 + life[r].pend + 2 * Ahead(r)

(* An attempt that is over, and not by an exception, has an outcome.       *)
Results(r) ==
    /\ pc[r] \in {"resolve", "record", "answer", "close"} /\ unwind[r] = "none"
          => plan[r].outcome # "none"
    /\ pc[r] = "settle" => hist[r].result # "none"

Good(r) ==
    /\ MainLeg(r) /\ ShadowLeg(r) /\ Replies(r) /\ Results(r) /\ ShadowLate(r) /\ Unwinding(r)
    /\ Cancelling(r) /\ Holding(r) /\ Owing(r) /\ Slots(r)

AllGood == \A r \in Request : Good(r)

-----------------------------------------------------------------------------
(* A step of one request: the others keep their state.                     *)
Local(r) ==
    /\ \A q \in Request \ {r} :
          /\ pc'[q] = pc[q] /\ shadow'[q] = shadow[q] /\ kill'[q] = kill[q]
          /\ held'[q] = held[q] /\ call'[q] = call[q] /\ plan'[q] = plan[q]
          /\ unwind'[q] = unwind[q] /\ life'[q] = life[q] /\ reply'[q] = reply[q]
          /\ hist'[q] = hist[q]
    /\ app' = app

Fine(r) == Typed' /\ Local(r) /\ Good(r)'

(* The updates of a call.                                                  *)
Provided(c, p) == [c EXCEPT !.provider = p]
Leasing(c, l)  == [c EXCEPT !.lease = l]
Sent(c)        == [c EXCEPT !.sent = TRUE]
Reserving(c)     == [c EXCEPT !.reserved = TRUE]

LEMMA LegUpdates ==
    ASSUME NEW c \in Leg
    PROVE  /\ \A p \in {"idle", "running", "ended", "elsewhere"} :
                 /\ Provided(c, p) \in Leg /\ Provided(c, p).provider = p
                 /\ Provided(c, p).lease = c.lease /\ Provided(c, p).sent = c.sent
                 /\ Provided(c, p).reserved = c.reserved
           /\ \A l \in {"none", "open", "released", "kept", "keeping", "releasing"} :
                 /\ Leasing(c, l) \in Leg /\ Leasing(c, l).lease = l
                 /\ Leasing(c, l).provider = c.provider /\ Leasing(c, l).sent = c.sent
                 /\ Leasing(c, l).reserved = c.reserved
           /\ Sent(c) \in Leg /\ Sent(c).sent /\ Sent(c).provider = c.provider
           /\ Sent(c).lease = c.lease /\ Sent(c).reserved = c.reserved
           /\ Reserving(c) \in Leg /\ Reserving(c).reserved
           /\ Reserving(c).provider = c.provider /\ Reserving(c).lease = c.lease
           /\ Reserving(c).sent = c.sent
  BY DEF Leg, Provided, Leasing, Sent, Reserving

(* A fresh lease, and the call of a task that is over.                      *)
LEMMA LegValues ==
    /\ NoCall \in Leg /\ NoCall.lease = "none" /\ NoCall.provider = "idle"
    /\ ~NoCall.sent /\ ~NoCall.reserved
    /\ \A c \in Leg : /\ Gone(c) \in Leg
                      /\ Gone(c) = c \/ Gone(c) = NoCall
                      /\ Gone(c).lease \notin {"released", "kept"}
                      /\ c.lease \in {"released", "kept"} \/ Gone(c) = c
  BY DEF NoCall, Gone, Leg

LEMMA PlanValues ==
    /\ NoPlan \in Plan /\ NoPlan.outcome = "none" /\ NoPlan.next = "settle" /\ ~NoPlan.uncertain
    /\ \A o \in Outcome, u \in BOOLEAN, n \in {"settle", "acquire", "answer"} :
          [outcome |-> o, uncertain |-> u, next |-> n] \in Plan
  BY DEF NoPlan, Plan, Outcome

(* What is left of the state when only the call of an attempt, or of a     *)
(* shadow, changes.                                                        *)
MainOnly(r) ==
    /\ call' \in [Request -> [main : Leg, shadow : Leg]] /\ call'[r].shadow = call[r].shadow
    /\ \A q \in Request \ {r} : call'[q] = call[q]

ShadowOnly(r) ==
    /\ call' \in [Request -> [main : Leg, shadow : Leg]] /\ call'[r].main = call[r].main
    /\ \A q \in Request \ {r} : call'[q] = call[q]

(* SetMain and SetShadow.                                                  *)
LEMMA MainSet ==
    ASSUME Typed, NEW r \in Request, NEW c \in Leg, call' = [call EXCEPT ![r].main = c]
    PROVE  MainOnly(r) /\ call'[r].main = c
  BY SMTT(30) DEF Typed, MainOnly

LEMMA ShadowSet ==
    ASSUME Typed, NEW r \in Request, NEW c \in Leg, call' = [call EXCEPT ![r].shadow = c]
    PROVE  ShadowOnly(r) /\ call'[r].shadow = c
  BY SMTT(30) DEF Typed, ShadowOnly

(* The terminal event of a request.                                        *)
Terminal(r, l) ==
    /\ l \in Life /\ l.state = life[r].state /\ l.pend = life[r].pend
    /\ ~(l.state = "open" /\ l.outcome = "none")

LEMMA EndedLife ==
    ASSUME Typed, NEW r \in Request, NEW o \in Outcome, o # "none"
    PROVE  Terminal(r, Ended(r, o))
<1>1. life[r] \in Life /\ 0 \in Int
  BY DEF Typed
<1>2. CASE Open(r)
  <2> DEFINE z == 0
  <2>1. z \in Int
    OBVIOUS
  <2> HIDE DEF z
  <2>2. Terminal(r, [life[r] EXCEPT !.outcome = o, !.left = z])
    BY <1>1, <2>1 DEF Terminal, Life
  <2> QED BY <1>2, <2>2 DEF Ended, z
<1>3. CASE ~Open(r)
  BY <1>1, <1>3 DEF Ended, Terminal, Open
<1> QED BY <1>2, <1>3

(* The first event of an attempt, and the second.                          *)
LEMMA BegunLife ==
    ASSUME Typed, NEW r \in Request
    PROVE  /\ \E l \in Life : /\ Begun(r) = [life EXCEPT ![r] = l]
                              /\ l.state = life[r].state /\ l.outcome = life[r].outcome
                              /\ l.left = life[r].left - 1 /\ l.pend = life[r].pend + 1
           /\ \E l \in Life : /\ Paid(r) = [life EXCEPT ![r] = l]
                              /\ l.state = life[r].state /\ l.outcome = life[r].outcome
                              /\ l.left = life[r].left - 1 /\ l.pend = life[r].pend - 1
<1>1. life \in [Request -> Life] /\ life[r] \in Life
  BY DEF Typed
<1>2. life[r].left \in Int /\ life[r].pend \in Int
  BY <1>1 DEF Life
<1>3. PICK n \in Int : n = life[r].left - 1
  BY <1>2
<1>4. PICK a \in Int : a = life[r].pend + 1
  BY <1>2
<1>5. PICK b \in Int : b = life[r].pend - 1
  BY <1>2
<1>6. Begun(r) = [life EXCEPT ![r] = [life[r] EXCEPT !.left = n, !.pend = a]]
  BY <1>1, <1>3, <1>4 DEF Begun, Life
<1>7. Paid(r) = [life EXCEPT ![r] = [life[r] EXCEPT !.left = n, !.pend = b]]
  BY <1>1, <1>3, <1>5 DEF Paid, Life
<1>8. ASSUME NEW d \in Int
      PROVE  LET l == [life[r] EXCEPT !.left = n, !.pend = d]
             IN  /\ l \in Life /\ l.state = life[r].state /\ l.outcome = life[r].outcome
                 /\ l.left = n /\ l.pend = d
  BY <1>1 DEF Life
<1> QED BY <1>3, <1>4, <1>5, <1>6, <1>7, <1>8

(* The events reserved for a request, and the two of its profile.          *)
LEMMA AdmitLife ==
    ASSUME NEW r \in Request
    PROVE  /\ Budget(r) - 1 \in Int
           /\ Budget(r) - 1 >= 3 + 2 * Sends[r]
           /\ HasShadow[r] => Budget(r) - 1 >= 5 + 2 * Sends[r]
           /\ \A n \in Int, o \in Outcome :
                 [state |-> "open", left |-> n, pend |-> 0, outcome |-> o] \in Life
<1>1. Sends[r] \in Nat /\ HasShadow[r] \in BOOLEAN
  BY LifecycleAssumption
<1>2. CASE HasShadow[r]
  BY <1>1, <1>2 DEF Budget, Life
<1>3. CASE ~HasShadow[r]
  BY <1>1, <1>3 DEF Budget, Life
<1> QED BY <1>2, <1>3

LEMMA ProfiledLife ==
    ASSUME Typed, NEW r \in Request, Profiled(r)
    PROVE  \E l \in Life : /\ life' = [life EXCEPT ![r] = l]
                           /\ l.left = life[r].left - 2 /\ l.pend = life[r].pend
                           /\ l.state = life[r].state /\ l.outcome = life[r].outcome
<1>1. life[r] \in Life /\ life[r].left \in Int
  BY DEF Typed, Life
<1>2. PICK n \in Int : n = life[r].left - 2
  BY <1>1
<1>3. PICK l \in Life : l = [life[r] EXCEPT !.left = n]
  BY <1>1 DEF Life
<1>4. life' = [life EXCEPT ![r] = l]
  BY <1>1, <1>2, <1>3 DEF Profiled, Typed
<1> QED BY <1>1, <1>2, <1>3, <1>4 DEF Life

(* The counters of a request are numbers.                                  *)
LEMMA Numbers ==
    ASSUME Typed, NEW r \in Request
    PROVE  /\ life[r] \in Life /\ life[r].left \in Int /\ life[r].pend \in Int
           /\ hist[r].sends \in Nat /\ Sends[r] \in Nat /\ HasShadow[r] \in BOOLEAN
  BY LifecycleAssumption DEF Typed, Life

(* What each step of a request does, one request at a time.                *)

LEMMA ArriveFine ==
    ASSUME Typed, NEW r \in Request, Good(r), Arrive(r)
    PROVE  Fine(r)
<1> USE DEF Good, MainLeg, ShadowLeg, Replies, Results, ShadowLate, Unwinding, Cancelling, Holding,
            Owing, Slots, Main, Shadow, Open, Running, InAttempt, OwesMain, OwesShadow, Excused,
            Ahead
<1>1. CASE TurnedAway(r)
  <2>1. PICK h \in SUBSET {"inbound"} : held' = [held EXCEPT ![r] = h]
    BY <1>1 DEF TurnedAway
  <2>2. /\ pc[r] = "new" /\ pc' = [pc EXCEPT ![r] = "reply"]
        /\ UNCHANGED <<shadow, kill, call, plan, unwind, life, reply, timer, app, trouble, hist>>
    BY <1>1 DEF TurnedAway
  <2>3. Typed' /\ Local(r)
    BY <2>1, <2>2 DEF Typed, Local, Point, Resource
  <2>4. pc'[r] = "reply" /\ held'[r] = h
    BY <2>1, <2>2 DEF Typed
  <2>5. Good(r)'
    BY <2>2, <2>4
  <2> QED BY <2>3, <2>5 DEF Fine
<1>2. CASE Unauthenticated(r)
  <2>1. PICK t \in {"off", "armed"} : timer' = [timer EXCEPT ![r] = t]
    BY <1>2 DEF Unauthenticated
  <2>2. /\ pc[r] = "new" /\ pc' = [pc EXCEPT ![r] = "reply"]
        /\ held' = [held EXCEPT ![r] = {"inbound", "preauth"}]
        /\ UNCHANGED <<shadow, kill, call, plan, unwind, life, reply, app, trouble, hist>>
    BY <1>2 DEF Unauthenticated
  <2>3. Typed' /\ Local(r)
    BY <2>1, <2>2 DEF Typed, Local, Point, Resource
  <2>4. pc'[r] = "reply" /\ held'[r] = {"inbound", "preauth"}
    BY <2>2 DEF Typed
  <2>5. Good(r)'
    BY <2>2, <2>4
  <2> QED BY <2>3, <2>5 DEF Fine
<1>3. CASE Admit(r)
  <2>1. /\ pc[r] = "new" /\ timer' = [timer EXCEPT ![r] = "armed"]
        /\ UNCHANGED <<shadow, kill, call, plan, unwind, reply, app, trouble, hist>>
    BY <1>3 DEF Admit
  <2>2. PICK n \in Int : n = Budget(r) - 1
    BY AdmitLife
  <2>3. n >= 3 + 2 * Sends[r] /\ (HasShadow[r] => n >= 5 + 2 * Sends[r])
    BY <2>2, AdmitLife
  <2>4. PICK l \in Life : l = [state |-> "open", left |-> n, pend |-> 0, outcome |-> "none"]
    BY AdmitLife DEF Outcome
  <2>5. CASE ReaderFree
    <3>1. /\ held' = [held EXCEPT ![r] = {"inbound", "reader"}]
          /\ life' = [life EXCEPT ![r] = l] /\ pc' = [pc EXCEPT ![r] = "body"]
      BY <1>3, <2>2, <2>4, <2>5 DEF Admit
    <3>2. Typed' /\ Local(r)
      BY <2>1, <3>1 DEF Typed, Local, Point, Resource
    <3>3. /\ pc'[r] = "body" /\ held'[r] = {"inbound", "reader"} /\ life'[r].pend = 0
          /\ life'[r].left = n /\ life'[r].state = "open" /\ life'[r].outcome = "none"
          /\ hist'[r].sends = 0
      BY <2>1, <2>4, <3>1 DEF Typed
    <3>4. Ahead(r)' = 1 + Sends[r]
      BY <3>3
    <3>5. Good(r)'
      <4> HIDE DEF Ahead
      <4> QED BY <2>1, <2>3, <3>3, <3>4, Numbers
    <3> QED BY <3>2, <3>5 DEF Fine
  <2>6. CASE ~ReaderFree
    <3>1. PICK e \in Life : e = [state |-> "open", left |-> 0, pend |-> 0, outcome |-> "rejected"]
      <4>1. 0 \in Int /\ "rejected" \in Outcome
        BY DEF Outcome
      <4> QED BY <4>1, AdmitLife
    <3>2. /\ held' = [held EXCEPT ![r] = {"inbound"}]
          /\ life' = [life EXCEPT ![r] = e] /\ pc' = [pc EXCEPT ![r] = "reply"]
      BY <1>3, <2>2, <2>4, <2>6, <3>1 DEF Admit
    <3>3. Typed' /\ Local(r)
      BY <2>1, <3>2 DEF Typed, Local, Point, Resource
    <3>4. /\ pc'[r] = "reply" /\ held'[r] = {"inbound"} /\ life'[r].pend = 0
          /\ life'[r].outcome = "rejected"
      BY <3>1, <3>2 DEF Typed
    <3>5. Good(r)'
      BY <2>1, <3>4
    <3> QED BY <3>3, <3>5 DEF Fine
  <2> QED BY <2>5, <2>6
<1> QED BY <1>1, <1>2, <1>3 DEF Arrive

LEMMA ReceiveFine ==
    ASSUME Typed, NEW r \in Request, Good(r),
           BodyRead(r) \/ BodyRefused(r) \/ Profiled(r) \/ Unroutable(r)
    PROVE  Fine(r)
<1> USE DEF Good, MainLeg, ShadowLeg, Replies, Results, ShadowLate, Unwinding, Cancelling, Holding,
            Owing, Slots, Main, Shadow, Open, Running, InAttempt, OwesMain, OwesShadow, Excused,
            Ahead
<1>1. CASE BodyRead(r)
  <2>1. /\ pc[r] = "body" /\ pc' = [pc EXCEPT ![r] = "profile"]
        /\ held' = [held EXCEPT ![r] = (held[r] \ {"reader"}) \cup {"body"}]
        /\ UNCHANGED <<shadow, kill, call, plan, unwind, life, reply, timer, app, trouble, hist>>
    BY <1>1 DEF BodyRead, Typed
  <2>2. Typed' /\ Local(r)
    BY <2>1 DEF Typed, Local, Point, Resource
  <2>3. pc'[r] = "profile" /\ held'[r] = (held[r] \ {"reader"}) \cup {"body"}
    BY <2>1 DEF Typed
  <2>4. Good(r)'
    BY <2>1, <2>3
  <2> QED BY <2>2, <2>4 DEF Fine
<1>2. CASE BodyRefused(r)
  <2>1. /\ pc[r] = "body" /\ pc' = [pc EXCEPT ![r] = "reply"]
        /\ held' = [held EXCEPT ![r] = held[r] \ {"reader"}]
        /\ UNCHANGED <<shadow, kill, call, plan, unwind, reply, timer, app, trouble, hist>>
    BY <1>2 DEF BodyRefused, Typed
  <2>2. PICK l : life' = [life EXCEPT ![r] = l] /\ Terminal(r, l)
    BY <1>2, EndedLife DEF BodyRefused, Outcome
  <2>3. Typed' /\ Local(r)
    BY <2>1, <2>2 DEF Typed, Local, Point, Terminal
  <2>4. pc'[r] = "reply" /\ held'[r] = held[r] \ {"reader"} /\ life'[r] = l
    BY <2>1, <2>2 DEF Typed
  <2>5. Good(r)'
    BY <2>1, <2>2, <2>4 DEF Terminal
  <2> QED BY <2>3, <2>5 DEF Fine
<1>3. CASE Profiled(r)
  <2>1. /\ pc[r] = "profile" /\ pc' = [pc EXCEPT ![r] = "acquire"]
        /\ UNCHANGED <<shadow, kill, held, call, plan, unwind, reply, timer, app, trouble, hist>>
    BY <1>3 DEF Profiled
  <2>2. PICK l \in Life : /\ life' = [life EXCEPT ![r] = l]
                          /\ l.left = life[r].left - 2 /\ l.pend = life[r].pend
                          /\ l.state = life[r].state /\ l.outcome = life[r].outcome
    BY <1>3, ProfiledLife
  <2>3. Typed' /\ Local(r)
    BY <2>1, <2>2 DEF Typed, Local, Point
  <2>4. pc'[r] = "acquire" /\ life'[r] = l
    BY <2>1, <2>2 DEF Typed
  <2>5. hist[r].sends = 0 /\ Ahead(r) = 1 + Sends[r] /\ Ahead(r)' = Sends[r]
    BY <2>1, <2>4, Numbers
  <2>6. Good(r)'
    <3> HIDE DEF Ahead
    <3> QED BY <2>1, <2>2, <2>4, <2>5, Numbers
  <2> QED BY <2>3, <2>6 DEF Fine
<1>4. CASE Unroutable(r)
  <2>1. /\ pc[r] \in {"profile", "acquire"} /\ pc' = [pc EXCEPT ![r] = "reply"]
        /\ UNCHANGED <<shadow, kill, held, call, plan, unwind, reply, timer, app, trouble, hist>>
    BY <1>4 DEF Unroutable
  <2>2. PICK l : life' = [life EXCEPT ![r] = l] /\ Terminal(r, l)
    BY <1>4, EndedLife DEF Unroutable, Outcome
  <2>3. Typed' /\ Local(r)
    BY <2>1, <2>2 DEF Typed, Local, Point, Terminal
  <2>4. pc'[r] = "reply" /\ life'[r] = l
    BY <2>1, <2>2 DEF Typed
  <2>5. Good(r)'
    BY <2>1, <2>2, <2>4 DEF Terminal
  <2> QED BY <2>3, <2>5 DEF Fine
<1> QED BY <1>1, <1>2, <1>3, <1>4

(* attempt_started, for a lease that has its permit.                       *)
LEMMA StartFine ==
    ASSUME Typed, NEW r \in Request, Good(r), pc[r] \in {"acquire", "permit"},
           NEW c \in Leg, c.lease = "open", c.provider = "idle", ~c.sent, ~c.reserved,
           Start(r, c), held' = [held EXCEPT ![r] = held[r] \cup {"permit"}],
           hist' \in [Request -> [sends : Nat, result : Outcome, cut : SUBSET Cut]],
           \A q \in Request \ {r} : hist'[q] = hist[q],
           hist'[r].cut = hist[r].cut, hist'[r].sends <= Sends[r],
           Ahead(r) = 1 + Sends[r] - hist'[r].sends,
           UNCHANGED <<shadow, kill, reply, timer, app, trouble>>
    PROVE  Fine(r)
<1> USE DEF Good, MainLeg, ShadowLeg, Replies, Results, ShadowLate, Unwinding, Cancelling, Holding,
            Owing, Slots, Main, Shadow, Open, Running, InAttempt, OwesMain, OwesShadow, Excused
<1>1. held'[r] = held[r] \cup {"permit"} /\ hist'[r].sends \in Nat
  BY DEF Typed
<1>2. CASE Open(r) /\ life[r].left >= 3
  <2>0. /\ call' = [call EXCEPT ![r].main = Reserving(c)] /\ life' = Begun(r)
        /\ pc' = [pc EXCEPT ![r] = "prepare"] /\ UNCHANGED <<plan, unwind>>
    BY <1>2 DEF Start, SetMain, Reserving
  <2>1. PICK d \in Leg : /\ call' = [call EXCEPT ![r].main = d]
                         /\ d.lease = "open" /\ d.provider = "idle" /\ ~d.sent /\ d.reserved
    <3>1. /\ Reserving(c) \in Leg /\ Reserving(c).reserved /\ Reserving(c).provider = "idle"
          /\ Reserving(c).lease = "open"
      BY LegUpdates
    <3>2. ~Reserving(c).sent
      BY LegUpdates
    <3> QED BY <2>0, <3>1, <3>2
  <2>2. PICK l \in Life : /\ life' = [life EXCEPT ![r] = l]
                          /\ l.state = life[r].state /\ l.outcome = life[r].outcome
                          /\ l.left = life[r].left - 1 /\ l.pend = life[r].pend + 1
    BY <2>0, BegunLife
  <2>3. MainOnly(r) /\ call'[r].main = d
    BY <2>1, MainSet
  <2>4. Typed' /\ Local(r)
    BY <2>0, <2>2, <2>3 DEF Typed, Local, Point, Resource, MainOnly
  <2>5. /\ pc'[r] = "prepare" /\ life'[r] = l /\ call'[r].main = d
        /\ call'[r].shadow = call[r].shadow /\ shadow[r] = "off"
    BY <2>0, <2>2, <2>3 DEF Typed, MainOnly, ShadowPoint
  <2>6. Ahead(r)' = Sends[r] - hist'[r].sends
    BY <2>5 DEF Ahead
  <2>7. Good(r)'
    <3>1. (MainLeg(r) /\ ShadowLeg(r) /\ Replies(r) /\ Results(r) /\ ShadowLate(r))'
      BY <2>0, <2>1, <2>5
    <3>2. (Unwinding(r) /\ Cancelling(r) /\ Holding(r))'
      BY <1>1, <2>0, <2>2, <2>5
    <3>3. Owing(r)'
      BY <1>2, <2>0, <2>1, <2>2, <2>5, Numbers
    <3>4. Slots(r)'
      BY <1>1, <1>2, <2>0, <2>2, <2>5, <2>6, Numbers
    <3> QED BY <3>1, <3>2, <3>3, <3>4
  <2> QED BY <2>4, <2>7 DEF Fine
<1>3. CASE ~(Open(r) /\ life[r].left >= 3)
  <2>1. ~Open(r)
    BY <1>1, <1>3, Numbers
  <2>2. PICK p \in Plan : /\ plan' = [plan EXCEPT ![r] = p]
                          /\ p.uncertain = FALSE /\ p.next = "settle"
    BY <1>3, PlanValues DEF Start, Resolve, Outcome
  <2>3. /\ call' = [call EXCEPT ![r].main = c] /\ pc' = [pc EXCEPT ![r] = "resolve"]
        /\ unwind' = [unwind EXCEPT ![r] = "error"] /\ UNCHANGED life
    BY <1>3 DEF Start, SetMain, Resolve
  <2>m. MainOnly(r) /\ call'[r].main = c
    BY <2>3, MainSet
  <2>4. Typed' /\ Local(r)
    BY <2>2, <2>3, <2>m DEF Typed, Local, Point, Resource, MainOnly
  <2>5. /\ pc'[r] = "resolve" /\ plan'[r] = p /\ unwind'[r] = "error" /\ call'[r].main = c
        /\ call'[r].shadow = call[r].shadow
    BY <2>2, <2>3, <2>m DEF Typed, MainOnly
  <2>6. Good(r)'
    BY <1>1, <2>1, <2>2, <2>3, <2>5
  <2> QED BY <2>4, <2>6 DEF Fine
<1> QED BY <1>2, <1>3

LEMMA LeaseFine ==
    ASSUME Typed, NEW r \in Request, Good(r), Leased(r) \/ TakePermit(r)
    PROVE  Fine(r)
<1> USE DEF Good, MainLeg, ShadowLeg, Replies, Results, ShadowLate, Unwinding, Cancelling, Holding,
            Owing, Slots, Main, Shadow, Open, Running, InAttempt, OwesMain, OwesShadow, Excused
<1>1. CASE Leased(r)
  <2>1. PICK c \in Leg : /\ c = Leasing(NoCall, "open")
                         /\ c.lease = "open" /\ c.provider = "idle" /\ ~c.sent /\ ~c.reserved
    <3>1. NoCall \in Leg
      BY LegValues
    <3>2. /\ Leasing(NoCall, "open") \in Leg /\ Leasing(NoCall, "open").lease = "open"
          /\ Leasing(NoCall, "open").provider = "idle"
      BY <3>1, LegValues, LegUpdates
    <3>3. ~Leasing(NoCall, "open").sent /\ ~Leasing(NoCall, "open").reserved
      BY <3>1, LegValues, LegUpdates
    <3> QED BY <3>2, <3>3
  <2>2. PICK n \in Nat : n = hist[r].sends + 1
    BY Numbers
  <2>3. /\ hist' \in [Request -> [sends : Nat, result : Outcome, cut : SUBSET Cut]]
        /\ \A q \in Request \ {r} : hist'[q] = hist[q]
        /\ hist'[r].cut = hist[r].cut /\ hist'[r].sends = n /\ hist'[r].result = hist[r].result
    <3>1. hist' = [hist EXCEPT ![r].sends = n]
      BY <1>1, <2>2 DEF Leased, Typed
    <3> QED BY <3>1, SMTT(30) DEF Typed
  <2>4. /\ pc[r] = "acquire" /\ n <= Sends[r]
        /\ UNCHANGED <<shadow, kill, reply, timer, app, trouble>>
    BY <1>1, <2>2, Numbers DEF Leased
  <2>5. Ahead(r) = 1 + Sends[r] - hist'[r].sends
    BY <2>2, <2>3, <2>4, Numbers DEF Ahead
  <2>6. CASE PermitFree
    <3>1. held' = [held EXCEPT ![r] = held[r] \cup {"permit"}] /\ Start(r, c)
      BY <1>1, <2>1, <2>6 DEF Leased, Typed, Leasing
    <3> QED BY <2>1, <2>3, <2>4, <2>5, <3>1, StartFine
  <2>7. CASE ~PermitFree
    <3>1. /\ call' = [call EXCEPT ![r].main = c] /\ pc' = [pc EXCEPT ![r] = "permit"]
          /\ UNCHANGED <<held, plan, unwind, life>>
      BY <1>1, <2>1, <2>7 DEF Leased, SetMain, Leasing
    <3>m. MainOnly(r) /\ call'[r].main = c
      BY <3>1, MainSet
    <3>2. Typed' /\ Local(r)
      BY <2>3, <2>4, <3>1, <3>m DEF Typed, Local, Point, MainOnly
    <3>3. pc'[r] = "permit" /\ call'[r].main = c /\ call'[r].shadow = call[r].shadow
      BY <3>1, <3>m DEF Typed, MainOnly
    <3>4. Ahead(r)' = Ahead(r)
      BY <2>5, <3>3 DEF Ahead
    <3>5. Good(r)'
      BY <2>1, <2>3, <2>4, <3>1, <3>3, <3>4, Numbers
    <3> QED BY <3>2, <3>5 DEF Fine
  <2> QED BY <2>6, <2>7
<1>2. CASE TakePermit(r)
  <2>1. /\ pc[r] = "permit" /\ held' = [held EXCEPT ![r] = held[r] \cup {"permit"}]
        /\ Start(r, Main(r)) /\ UNCHANGED <<shadow, kill, reply, timer, app, trouble, hist>>
    BY <1>2 DEF TakePermit, Typed
  <2>2. Ahead(r) = 1 + Sends[r] - hist[r].sends
    BY <2>1 DEF Ahead
  <2>3. /\ Main(r) \in Leg /\ Main(r).lease = "open" /\ Main(r).provider = "idle"
        /\ ~Main(r).sent /\ ~Main(r).reserved
    BY <2>1 DEF Typed
  <2>4. hist' \in [Request -> [sends : Nat, result : Outcome, cut : SUBSET Cut]]
    BY <2>1 DEF Typed
  <2> HIDE DEF Main
  <2> QED BY <2>1, <2>2, <2>3, <2>4, StartFine
<1> QED BY <1>1, <1>2

LEMMA MainProvided ==
    ASSUME Typed, NEW r \in Request, NEW p \in {"idle", "running", "ended", "elsewhere"},
           call' = [call EXCEPT ![r].main = Provided(call[r].main, p)]
    PROVE  /\ MainOnly(r) /\ call'[r].main.provider = p
           /\ call'[r].main.lease = call[r].main.lease
           /\ call'[r].main.sent = call[r].main.sent
           /\ call'[r].main.reserved = call[r].main.reserved
<1>1. call[r].main \in Leg
  BY DEF Typed
<1>2. PICK c \in Leg : /\ c = Provided(call[r].main, p) /\ c.provider = p
                       /\ c.lease = call[r].main.lease /\ c.sent = call[r].main.sent
                       /\ c.reserved = call[r].main.reserved
  BY <1>1, LegUpdates
<1>3. call' = [call EXCEPT ![r].main = c]
  BY <1>2
<1> QED BY <1>2, <1>3, MainSet

LEMMA MainSent ==
    ASSUME Typed, NEW r \in Request, call' = [call EXCEPT ![r].main = Sent(call[r].main)]
    PROVE  /\ MainOnly(r) /\ call'[r].main.provider = call[r].main.provider
           /\ call'[r].main.lease = call[r].main.lease
           /\ call'[r].main.sent
           /\ call'[r].main.reserved = call[r].main.reserved
<1>1. call[r].main \in Leg
  BY DEF Typed
<1>2. PICK c \in Leg : /\ c = Sent(call[r].main) /\ c.provider = call[r].main.provider
                       /\ c.lease = call[r].main.lease /\ c.sent
                       /\ c.reserved = call[r].main.reserved
  BY <1>1, LegUpdates
<1>3. call' = [call EXCEPT ![r].main = c]
  BY <1>2
<1> QED BY <1>2, <1>3, MainSet

LEMMA MainRunning ==
    ASSUME Typed, NEW r \in Request,
           call' = [call EXCEPT ![r].main = Provided(Sent(call[r].main), "running")]
    PROVE  /\ MainOnly(r) /\ call'[r].main.provider = "running"
           /\ call'[r].main.lease = call[r].main.lease
           /\ call'[r].main.sent
           /\ call'[r].main.reserved = call[r].main.reserved
<1>1. call[r].main \in Leg
  BY DEF Typed
<1>2. PICK d \in Leg : /\ d = Sent(call[r].main) /\ d.provider = call[r].main.provider
                       /\ d.lease = call[r].main.lease /\ d.sent
                       /\ d.reserved = call[r].main.reserved
  BY <1>1, LegUpdates
<1>3. PICK c \in Leg : /\ c = Provided(d, "running") /\ c.provider = "running"
                       /\ c.lease = d.lease /\ c.sent = d.sent
                       /\ c.reserved = d.reserved
  BY LegUpdates
<1>4. call' = [call EXCEPT ![r].main = c]
  BY <1>2, <1>3
<1> QED BY <1>2, <1>3, <1>4, MainSet

LEMMA MainLeased ==
    ASSUME Typed, NEW r \in Request, NEW l \in {"released", "kept"},
           call' = [call EXCEPT ![r].main = Leasing(call[r].main, l)]
    PROVE  /\ MainOnly(r) /\ call'[r].main.provider = call[r].main.provider
           /\ call'[r].main.lease = l
           /\ call'[r].main.sent = call[r].main.sent
           /\ call'[r].main.reserved = call[r].main.reserved
<1>1. call[r].main \in Leg
  BY DEF Typed
<1>2. PICK c \in Leg : /\ c = Leasing(call[r].main, l) /\ c.provider = call[r].main.provider
                       /\ c.lease = l /\ c.sent = call[r].main.sent
                       /\ c.reserved = call[r].main.reserved
  BY <1>1, LegUpdates
<1>3. call' = [call EXCEPT ![r].main = c]
  BY <1>2
<1> QED BY <1>2, <1>3, MainSet

(* A variable changes for one request only, to a value of its type.        *)
HeldOnly(r) ==
    held' \in [Request -> SUBSET Resource] /\ \A q \in Request \ {r} : held'[q] = held[q]
KillOnly(r) ==
    kill' \in [Request -> BOOLEAN] /\ \A q \in Request \ {r} : kill'[q] = kill[q]
PlanOnly(r) ==
    plan' \in [Request -> Plan] /\ \A q \in Request \ {r} : plan'[q] = plan[q]
UnwindOnly(r) ==
    /\ unwind' \in [Request -> {"none", "cancel", "error"}]
    /\ \A q \in Request \ {r} : unwind'[q] = unwind[q]
ReplyOnly(r) ==
    /\ reply' \in [Request -> {"none", "started", "done"}]
    /\ \A q \in Request \ {r} : reply'[q] = reply[q]
HistOnly(r) ==
    /\ hist' \in [Request -> [sends : Nat, result : Outcome, cut : SUBSET Cut]]
    /\ \A q \in Request \ {r} : hist'[q] = hist[q]
Clocks == timer' \in [Request -> {"off", "armed", "expired"}] /\ trouble' \in Nat

LEMMA Kept ==
    ASSUME Typed, NEW r \in Request
    PROVE  /\ UNCHANGED held => HeldOnly(r) /\ held'[r] = held[r]
           /\ UNCHANGED kill => KillOnly(r)
           /\ UNCHANGED plan => PlanOnly(r)
           /\ UNCHANGED unwind => UnwindOnly(r) /\ unwind'[r] = unwind[r]
           /\ UNCHANGED reply => ReplyOnly(r) /\ reply'[r] = reply[r]
           /\ UNCHANGED hist => HistOnly(r) /\ hist'[r] = hist[r]
           /\ UNCHANGED call => MainOnly(r) /\ Main(r)' = Main(r)
           /\ UNCHANGED <<timer, trouble>> => Clocks
  BY DEF Typed, HeldOnly, KillOnly, PlanOnly, UnwindOnly, ReplyOnly, HistOnly, MainOnly, Main,
         Clocks

LEMMA Changed ==
    ASSUME Typed, NEW r \in Request
    PROVE  /\ \A h \in SUBSET Resource : held' = [held EXCEPT ![r] = h]
                 => HeldOnly(r) /\ held'[r] = h
           /\ \A k \in BOOLEAN : kill' = [kill EXCEPT ![r] = k] => KillOnly(r) /\ kill'[r] = k
           /\ \A p \in Plan : plan' = [plan EXCEPT ![r] = p] => PlanOnly(r) /\ plan'[r] = p
           /\ \A u \in {"none", "cancel", "error"} : unwind' = [unwind EXCEPT ![r] = u]
                 => UnwindOnly(r) /\ unwind'[r] = u
           /\ \A y \in {"none", "started", "done"} : reply' = [reply EXCEPT ![r] = y]
                 => ReplyOnly(r) /\ reply'[r] = y
<1>1. ASSUME NEW h \in SUBSET Resource, held' = [held EXCEPT ![r] = h]
      PROVE  HeldOnly(r) /\ held'[r] = h
  BY <1>1 DEF Typed, HeldOnly
<1>2. ASSUME NEW k \in BOOLEAN, kill' = [kill EXCEPT ![r] = k]
      PROVE  KillOnly(r) /\ kill'[r] = k
  BY <1>2 DEF Typed, KillOnly
<1>3. ASSUME NEW p \in Plan, plan' = [plan EXCEPT ![r] = p]
      PROVE  PlanOnly(r) /\ plan'[r] = p
  BY <1>3 DEF Typed, PlanOnly
<1>4. ASSUME NEW u \in {"none", "cancel", "error"}, unwind' = [unwind EXCEPT ![r] = u]
      PROVE  UnwindOnly(r) /\ unwind'[r] = u
  BY <1>4 DEF Typed, UnwindOnly
<1>5. ASSUME NEW y \in {"none", "started", "done"}, reply' = [reply EXCEPT ![r] = y]
      PROVE  ReplyOnly(r) /\ reply'[r] = y
  BY <1>5 DEF Typed, ReplyOnly
<1> QED BY <1>1, <1>2, <1>3, <1>4, <1>5

(* An attempt ends: its lease is open and its resolution is decided.       *)
LEMMA ResolveFine ==
    ASSUME Typed, NEW r \in Request, Good(r), pc[r] \in InAttempt,
           NEW o \in Outcome \ {"none"}, NEW u \in BOOLEAN, NEW n \in {"settle", "acquire", "answer"},
           Resolve(r, o, u, n),
           MainOnly(r), Main(r)'.lease = "open", Main(r)'.reserved = Main(r).reserved,
           u \/ Main(r)'.provider # "running",
           n = "settle" \/ pc[r] # "relay", n # "acquire" \/ reply'[r] = "none",
           HeldOnly(r),
           held'[r] \in {held[r], held[r] \cup {"stream"}},
           UnwindOnly(r), unwind'[r] \in {"none", "cancel"}, ReplyOnly(r), Clocks,
           UNCHANGED <<shadow, kill, life, app, hist>>
    PROVE  Fine(r)
<1> USE DEF Good, MainLeg, ShadowLeg, Replies, Results, ShadowLate, Unwinding, Cancelling, Holding,
            Owing, Slots, Main, Shadow, Open, Running, InAttempt, OwesMain, OwesShadow, Excused
<1>1. PICK p \in Plan : /\ plan' = [plan EXCEPT ![r] = p]
                        /\ p.outcome = o /\ p.uncertain = u /\ p.next = n
  BY PlanValues DEF Resolve
<1>2. pc' = [pc EXCEPT ![r] = "resolve"]
  BY DEF Resolve
<1>3. Typed' /\ Local(r)
  <2>2. Typed'
    BY <1>1, <1>2 DEF Typed, Point, MainOnly, HeldOnly, UnwindOnly, ReplyOnly, Clocks
  <2>3. Local(r)
    BY <1>1, <1>2 DEF Typed, Local, MainOnly, HeldOnly, UnwindOnly, ReplyOnly
  <2> QED BY <2>2, <2>3
<1>4. /\ pc'[r] = "resolve" /\ plan'[r] = p
      /\ call'[r].shadow = call[r].shadow
  BY <1>1, <1>2 DEF Typed, MainOnly
<1>5. Ahead(r)' = Sends[r] - hist[r].sends /\ Ahead(r)' <= Ahead(r)
  BY <1>4, Numbers DEF Ahead
<1>6. (MainLeg(r) /\ ShadowLeg(r) /\ Replies(r) /\ Results(r) /\ ShadowLate(r))'
  BY <1>1, <1>4
<1>7. (Unwinding(r) /\ Cancelling(r) /\ Holding(r))'
  BY <1>4
<1>8. Owing(r)'
  BY <1>4, Numbers
<1>9. Slots(r)'
  BY <1>4, <1>5, Numbers DEF Ahead
<1> QED BY <1>3, <1>6, <1>7, <1>8, <1>9 DEF Fine

LEMMA AttemptEnds ==
    ASSUME Typed, NEW r \in Request, Good(r),
           \/ (Prepared(r) /\ app # "open") \/ PrepareFails(r) \/ ConnectFails(r)
           \/ TransportFails(r) \/ ErrorRead(r) \/ Mismatched(r) \/ RelayDone(r) \/ RelayFails(r)
    PROVE  Fine(r)
<1> USE DEF InAttempt
<1>0. /\ pc[r] \in InAttempt => Main(r).lease = "open"
      /\ pc[r] = "prepare" => Main(r).provider = "idle"
      /\ pc[r] \in {"send", "error_body", "prepare"} => reply[r] = "none"
      /\ unwind[r] # "none" => pc[r] \notin InAttempt
      /\ "upstream" \in Outcome \ {"none"} /\ "completed" \in Outcome \ {"none"}
      /\ "client" \in Outcome \ {"none"} /\ "stream" \in Outcome \ {"none"}
  BY DEF Good, MainLeg, Replies, Unwinding, Outcome
<1>1. CASE Prepared(r) /\ app # "open"
  <2>1. Resolve(r, "upstream", FALSE, "answer")
    BY <1>1 DEF Prepared
  <2>2. /\ pc[r] = "prepare"
        /\ UNCHANGED <<shadow, kill, held, life, app, hist, timer, trouble, unwind, reply>>
    BY <1>1 DEF Prepared, Typed
  <2>3. call' = [call EXCEPT ![r].main = Sent(call[r].main)]
    BY <1>1 DEF Prepared, SetMain, Main, Sent
  <2>4. /\ MainOnly(r) /\ Main(r)'.lease = "open" /\ Main(r)'.reserved = Main(r).reserved
        /\ Main(r)'.provider # "running"
    BY <1>0, <2>2, <2>3, MainSent DEF Main
  <2> QED BY <1>0, Kept, <2>1, <2>2, <2>4, ResolveFine
<1>2. CASE PrepareFails(r)
  <2>1. PICK u \in BOOLEAN : Resolve(r, "upstream", u, "answer")
    BY <1>2 DEF PrepareFails
  <2>2. /\ pc[r] = "prepare"
        /\ UNCHANGED <<shadow, kill, call, held, life, app, hist, timer, trouble, unwind, reply>>
    BY <1>2 DEF PrepareFails, Typed
  <2>4. Main(r)'.provider # "running"
    BY <1>0, Kept, <2>2
  <2> QED BY <1>0, Kept, <2>1, <2>2, <2>4, ResolveFine
<1>3. CASE ConnectFails(r)
  <2>1. PICK n \in {"acquire", "answer"} : Resolve(r, "upstream", FALSE, n)
    BY <1>3 DEF ConnectFails
  <2>2. /\ pc[r] = "send"
        /\ UNCHANGED <<shadow, kill, held, life, app, hist, timer, trouble, unwind, reply>>
    BY <1>3 DEF ConnectFails, Typed
  <2>3. call' = [call EXCEPT ![r].main = Provided(call[r].main, "idle")]
    BY <1>3 DEF ConnectFails, SetMain, Main, Provided
  <2>4. /\ MainOnly(r) /\ Main(r)'.lease = "open" /\ Main(r)'.reserved = Main(r).reserved
        /\ Main(r)'.provider # "running"
    BY <1>0, <2>2, <2>3, MainProvided DEF Main
  <2> QED BY <1>0, Kept, <2>1, <2>2, <2>4, ResolveFine
<1>4. CASE TransportFails(r)
  <2>1. Resolve(r, "upstream", TRUE, "answer")
    BY <1>4 DEF TransportFails
  <2>2. /\ pc[r] \in {"send", "error_body"}
        /\ UNCHANGED <<shadow, kill, call, held, life, app, hist, timer, trouble, unwind, reply>>
    BY <1>4 DEF TransportFails, Typed
  <2> QED BY <1>0, Kept, <2>1, <2>2, ResolveFine
<1>5. CASE ErrorRead(r)
  <2>1. PICK n \in {"acquire", "answer"} : Resolve(r, "upstream", FALSE, n)
    BY <1>5 DEF ErrorRead
  <2>2. /\ pc[r] = "error_body"
        /\ UNCHANGED <<shadow, kill, held, life, app, hist, timer, trouble, unwind, reply>>
    BY <1>5 DEF ErrorRead, Typed
  <2>3. call' = [call EXCEPT ![r].main = Provided(call[r].main, "ended")]
    BY <1>5 DEF ErrorRead, SetMain, Main, Provided
  <2>4. /\ MainOnly(r) /\ Main(r)'.lease = "open" /\ Main(r)'.reserved = Main(r).reserved
        /\ Main(r)'.provider # "running"
    BY <1>0, <2>2, <2>3, MainProvided DEF Main
  <2> QED BY <1>0, Kept, <2>1, <2>2, <2>4, ResolveFine
<1>6. CASE Mismatched(r)
  <2>1. Resolve(r, "upstream", FALSE, "answer")
    BY <1>6 DEF Mismatched, Headers
  <2>2. /\ pc[r] = "send"
        /\ held' = [held EXCEPT ![r] = held[r] \cup {"stream"}]
        /\ UNCHANGED <<shadow, kill, life, app, hist, timer, trouble, unwind, reply>>
    BY <1>6 DEF Mismatched, Headers, Typed
  <2>3. call' = [call EXCEPT ![r].main = Provided(call[r].main, "elsewhere")]
    BY <1>6 DEF Mismatched, Headers, SetMain, Main, Provided
  <2>4. /\ MainOnly(r) /\ Main(r)'.lease = "open" /\ Main(r)'.reserved = Main(r).reserved
        /\ Main(r)'.provider # "running"
    BY <1>0, <2>2, <2>3, MainProvided DEF Main
  <2>5. HeldOnly(r) /\ held'[r] = held[r] \cup {"stream"}
    BY <2>2 DEF Typed, Resource, HeldOnly
  <2> QED BY <1>0, Kept, <2>1, <2>2, <2>4, <2>5, ResolveFine
<1>7. CASE RelayDone(r)
  <2>1. Resolve(r, "completed", FALSE, "settle")
    BY <1>7 DEF RelayDone
  <2>2. /\ pc[r] = "relay"
        /\ reply' = [reply EXCEPT ![r] = "done"]
        /\ UNCHANGED <<shadow, kill, held, life, app, hist, timer, trouble, unwind>>
    BY <1>7 DEF RelayDone, Typed
  <2>3. call' = [call EXCEPT ![r].main = Provided(call[r].main, "ended")]
    BY <1>7 DEF RelayDone, SetMain, Main, Provided
  <2>4. /\ MainOnly(r) /\ Main(r)'.lease = "open" /\ Main(r)'.reserved = Main(r).reserved
        /\ Main(r)'.provider # "running"
    BY <1>0, <2>2, <2>3, MainProvided DEF Main
  <2>5. ReplyOnly(r)
    BY <2>2 DEF Typed, ReplyOnly
  <2> QED BY <1>0, Kept, <2>1, <2>2, <2>4, <2>5, ResolveFine
<1>8. CASE RelayFails(r)
  <2>1. PICK o \in {"client", "stream"} : Resolve(r, o, TRUE, "settle")
    BY <1>8 DEF RelayFails, Broken
  <2>2. /\ pc[r] = "relay"
        /\ UNCHANGED <<shadow, kill, call, held, life, app, hist, timer, trouble, unwind, reply>>
    BY <1>8 DEF RelayFails, Broken, Typed
  <2> QED BY <1>0, Kept, <2>1, <2>2, ResolveFine
<1> QED BY <1>1, <1>2, <1>3, <1>4, <1>5, <1>6, <1>7, <1>8

LEMMA AttemptRuns ==
    ASSUME Typed, NEW r \in Request, Good(r),
           (Prepared(r) /\ app = "open") \/ Refused(r) \/ Accepted(r) \/ RelayStart(r)
    PROVE  Fine(r)
<1> USE DEF Good, MainLeg, ShadowLeg, Replies, Results, ShadowLate, Unwinding, Cancelling, Holding,
            Owing, Slots, Main, Shadow, Open, Running, InAttempt, OwesMain, OwesShadow, Excused
<1>1. CASE Prepared(r) /\ app = "open"
  <2>1. /\ pc[r] = "prepare" /\ pc' = [pc EXCEPT ![r] = "send"]
        /\ UNCHANGED <<plan, shadow, kill, held, unwind, life, reply, timer, app, trouble, hist>>
    BY <1>1 DEF Prepared
  <2>2. call' = [call EXCEPT ![r].main = Provided(Sent(call[r].main), "running")]
    <3>1. call[r].main \in Leg
      BY DEF Typed
    <3>2. [call[r].main EXCEPT !.sent = TRUE, !.provider = "running"]
            = Provided(Sent(call[r].main), "running")
      BY <3>1 DEF Provided, Sent, Leg
    <3> QED BY <1>1, <3>2 DEF Prepared, SetMain
  <2>3. /\ MainOnly(r) /\ call'[r].main.provider = "running"
        /\ call'[r].main.lease = call[r].main.lease /\ call'[r].main.sent
        /\ call'[r].main.reserved = call[r].main.reserved
    BY <2>2, MainRunning
  <2>t. Typed' /\ Local(r)
    BY <2>1, <2>3 DEF Typed, Local, Point, MainOnly
  <2>4. pc'[r] = "send" /\ call'[r].shadow = call[r].shadow
    BY <2>1, <2>3 DEF Typed, MainOnly
  <2>5. Ahead(r)' = Ahead(r)
    BY <2>1, <2>4 DEF Ahead
  <2>6. Good(r)'
    BY <2>1, <2>3, <2>4, <2>5
  <2> QED BY <2>t, <2>6 DEF Fine
<1>2. CASE Refused(r)
  <2>1. /\ pc[r] = "send" /\ pc' = [pc EXCEPT ![r] = "error_body"]
        /\ held' = [held EXCEPT ![r] = held[r] \cup {"stream"}]
        /\ UNCHANGED <<shadow, kill, call, plan, unwind, life, reply, timer, app, trouble, hist>>
    BY <1>2 DEF Refused, Headers, Typed
  <2>2. Typed' /\ Local(r)
    BY <2>1 DEF Typed, Local, Point, Resource
  <2>3. pc'[r] = "error_body" /\ held'[r] = held[r] \cup {"stream"}
    BY <2>1 DEF Typed
  <2>4. Ahead(r)' = Ahead(r)
    BY <2>1, <2>3 DEF Ahead
  <2>5. Good(r)'
    BY <2>1, <2>3, <2>4
  <2> QED BY <2>2, <2>5 DEF Fine
<1>3. CASE Accepted(r)
  <2>1. /\ pc[r] = "send" /\ pc' = [pc EXCEPT ![r] = "relay"]
        /\ UNCHANGED <<kill, call, plan, unwind, life, reply, timer, app, trouble, hist>>
        /\ shadow[r] = "off" /\ Open(r)
    BY <1>3 DEF Accepted, Headers, Typed, ShadowPoint
  <2>2. \/ /\ shadow' = [shadow EXCEPT ![r] = "acquire"]
           /\ held' = [held EXCEPT ![r] = held[r] \cup {"stream", "shadow_permit"}]
        \/ held' = [held EXCEPT ![r] = held[r] \cup {"stream"}] /\ UNCHANGED shadow
    BY <1>3 DEF Accepted, Typed
  <2>3. Typed' /\ Local(r)
    <3>1. held' \in [Request -> SUBSET Resource] /\ shadow' \in [Request -> ShadowPoint]
      <4>1. /\ held[r] \cup {"stream", "shadow_permit"} \in SUBSET Resource
            /\ held[r] \cup {"stream"} \in SUBSET Resource
        BY DEF Typed, Resource
      <4>2. PICK h \in SUBSET Resource : held' = [held EXCEPT ![r] = h]
        BY <2>2, <4>1
      <4> QED BY <2>2, <4>2 DEF Typed, ShadowPoint
    <3>2. Typed'
      BY <2>1, <3>1 DEF Typed, Point
    <3>3. Local(r)
      BY <2>1, <2>2 DEF Typed, Local
    <3> QED BY <3>2, <3>3
  <2>4. /\ pc'[r] = "relay"
        /\ \/ shadow'[r] = "acquire" /\ held'[r] = held[r] \cup {"stream", "shadow_permit"}
           \/ shadow'[r] = "off" /\ held'[r] = held[r] \cup {"stream"}
    BY <2>1, <2>2 DEF Typed
  <2>5. Ahead(r)' = Ahead(r)
    BY <2>1, <2>4 DEF Ahead
  <2>6. Good(r)'
    BY <2>1, <2>4, <2>5
  <2> QED BY <2>3, <2>6 DEF Fine
<1>4. CASE RelayStart(r)
  <2>1. /\ pc[r] = "relay" /\ reply' = [reply EXCEPT ![r] = "started"]
        /\ UNCHANGED <<pc, shadow, kill, held, call, plan, unwind, life, timer, app, trouble, hist>>
    BY <1>4 DEF RelayStart
  <2>2. Typed' /\ Local(r)
    BY <2>1 DEF Typed, Local
  <2>3. Ahead(r)' = Ahead(r)
    BY <2>1 DEF Ahead
  <2>4. Good(r)'
    BY <2>1, <2>3
  <2> QED BY <2>2, <2>4 DEF Fine
<1> QED BY <1>1, <1>2, <1>3, <1>4

(* The resolution of an attempt, its event, and the answer.                *)
LEMMA ResolvedFine ==
    ASSUME Typed, NEW r \in Request, Good(r), Resolved(r)
    PROVE  Fine(r)
<1> USE DEF Good, MainLeg, ShadowLeg, Replies, Results, ShadowLate, Unwinding, Cancelling, Holding,
            Owing, Slots, Main, Shadow, Open, Running, InAttempt, OwesMain, OwesShadow, Excused
<1>1. PICK a \in {"close", "record"} : /\ pc' = [pc EXCEPT ![r] = a]
                                       /\ a = "close" => "record" \in hist[r].cut
  BY DEF Resolved, AfterResolve
<1>2. /\ pc[r] = "resolve"
      /\ UNCHANGED <<shadow, kill, held, unwind, life, reply, timer, app, trouble, hist>>
  BY DEF Resolved
<1>3. PICK p \in Plan : /\ plan' = [plan EXCEPT ![r] = p] /\ p.next = plan[r].next
                        /\ p.outcome = plan[r].outcome
  <2>1. plan[r] \in Plan /\ plan' = [plan EXCEPT ![r] = [plan[r] EXCEPT !.uncertain = FALSE]]
    BY DEF Resolved, Typed
  <2>2. /\ [plan[r] EXCEPT !.uncertain = FALSE] \in Plan
        /\ [plan[r] EXCEPT !.uncertain = FALSE].next = plan[r].next
        /\ [plan[r] EXCEPT !.uncertain = FALSE].outcome = plan[r].outcome
    BY <2>1 DEF Plan
  <2> QED BY <2>1, <2>2
<1>4. PICK l \in {"released", "kept"} :
         /\ call' = [call EXCEPT ![r].main = Leasing(call[r].main, l)]
         /\ l = "released" => ~plan[r].uncertain
  <2>1. PICK l \in {"released", "kept"} : /\ l = Lease(plan[r].uncertain)
                                          /\ l = "released" => ~plan[r].uncertain
    BY DEF Lease
  <2>2. call' = [call EXCEPT ![r].main = Leasing(call[r].main, Lease(plan[r].uncertain))]
    BY DEF Resolved, SetMain, Leasing
  <2> QED BY <2>1, <2>2
<1>5. /\ MainOnly(r) /\ call'[r].main.provider = call[r].main.provider
      /\ call'[r].main.lease = l /\ call'[r].main.reserved = call[r].main.reserved
  BY <1>4, MainLeased
<1>t. Typed' /\ Local(r)
  BY <1>1, <1>2, <1>3, <1>5 DEF Typed, Local, Point, MainOnly
<1>6. pc'[r] = a /\ plan'[r] = p /\ call'[r].shadow = call[r].shadow
  BY <1>1, <1>3, <1>5 DEF Typed, MainOnly
<1>7. Ahead(r)' = Ahead(r)
  BY <1>2, <1>6 DEF Ahead
<1>8. Good(r)'
  BY <1>1, <1>2, <1>3, <1>4, <1>5, <1>6, <1>7
<1> QED BY <1>t, <1>8 DEF Fine

LEMMA RecordedFine ==
    ASSUME Typed, NEW r \in Request, Good(r), Recorded(r) \/ Answered(r)
    PROVE  Fine(r)
<1> USE DEF Good, MainLeg, ShadowLeg, Replies, Results, ShadowLate, Unwinding, Cancelling, Holding,
            Owing, Slots, Main, Shadow, Open, Running, InAttempt, OwesMain, OwesShadow, Excused
<1>1. CASE Recorded(r)
  <2>1. /\ pc[r] = "record"
        /\ UNCHANGED <<shadow, kill, held, call, reply, timer, app, trouble, hist>>
    BY <1>1 DEF Recorded
  <2>2. PICK a \in {"answer", "close"} :
           pc' = [pc EXCEPT ![r] = a] /\ (a = "answer" => unwind'[r] = "none" /\ plan[r].next = "answer")
    BY <1>1 DEF Recorded, Answers
  <2>3. PICK p \in Plan : /\ plan' = [plan EXCEPT ![r] = p]
                          /\ \/ p = plan[r]
                             \/ p.next = "settle" /\ unwind'[r] # "none"
    BY <1>1, PlanValues DEF Recorded, Typed
  <2>4. /\ pc'[r] = a /\ plan'[r] = p
    BY <2>2, <2>3 DEF Typed
  <2>5. Ahead(r)' = Ahead(r) /\ Ahead(r) \in Int
    BY <2>1, <2>4, Numbers DEF Ahead
  <2>6. CASE Main(r).reserved /\ Open(r)
    <3>1. life' = Paid(r) /\ UNCHANGED unwind
      BY <1>1, <2>6 DEF Recorded
    <3>2. PICK l \in Life : /\ life' = [life EXCEPT ![r] = l]
                            /\ l.state = life[r].state /\ l.outcome = life[r].outcome
                            /\ l.left = life[r].left - 1 /\ l.pend = life[r].pend - 1
      BY <3>1, BegunLife
    <3>3. Typed' /\ Local(r)
      BY <2>1, <2>2, <2>3, <3>1, <3>2 DEF Typed, Local, Point
    <3>4. life'[r] = l
      BY <3>2 DEF Typed
    <3>5. Owing(r)'
      BY <2>1, <2>4, <2>6, <3>2, <3>4, Numbers
    <3>6. Slots(r)'
      BY <2>1, <2>4, <2>5, <3>2, <3>4, Numbers
    <3>7. Good(r)'
      BY <2>1, <2>2, <2>3, <2>4, <3>1, <3>2, <3>4, <3>5, <3>6
    <3> QED BY <3>3, <3>7 DEF Fine
  <2>7. CASE ~(Main(r).reserved /\ Open(r))
    <3>1. unwind' = [unwind EXCEPT ![r] = "error"] /\ UNCHANGED life
      BY <1>1, <2>7 DEF Recorded
    <3>2. unwind'[r] = "error" /\ a = "close"
      BY <2>2, <3>1 DEF Typed
    <3>3. Typed' /\ Local(r)
      BY <2>1, <2>2, <2>3, <3>1 DEF Typed, Local, Point
    <3>4. ~Open(r) \/ shadow[r] = "off"
      BY <2>1, <2>7
    <3>5. Owing(r)'
      BY <2>1, <2>4, <2>7, <3>1, <3>2, Numbers
    <3>6. Slots(r)'
      BY <2>1, <2>4, <2>5, <3>1, <3>2, Numbers
    <3>7. Good(r)'
      BY <2>1, <2>3, <2>4, <3>1, <3>2, <3>4, <3>5, <3>6
    <3> QED BY <3>3, <3>7 DEF Fine
  <2> QED BY <2>6, <2>7
<1>2. CASE Answered(r)
  <2>1. /\ pc[r] = "answer" /\ pc' = [pc EXCEPT ![r] = "close"]
        /\ reply' = [reply EXCEPT ![r] = "done"]
        /\ UNCHANGED <<shadow, kill, held, call, unwind, life, timer, app, trouble, hist>>
    BY <1>2 DEF Answered
  <2>2. PICK p \in Plan : /\ plan' = [plan EXCEPT ![r] = p] /\ p.next = plan[r].next
                          /\ p.outcome \in {plan[r].outcome, "client"}
    <3>1. plan[r] \in Plan
      BY DEF Typed
    <3>2. PICK o \in {plan[r].outcome, "client"} : plan' = [plan EXCEPT ![r].outcome = o]
      BY <1>2 DEF Answered
    <3>3. o \in Outcome
      BY <3>1 DEF Plan, Outcome
    <3>4. plan' = [plan EXCEPT ![r] = [plan[r] EXCEPT !.outcome = o]]
      BY <3>1, <3>2, <3>3 DEF Typed, Plan
    <3>5. /\ [plan[r] EXCEPT !.outcome = o] \in Plan
          /\ [plan[r] EXCEPT !.outcome = o].next = plan[r].next
          /\ [plan[r] EXCEPT !.outcome = o].outcome = o
      BY <3>1, <3>3 DEF Plan
    <3> QED BY <3>2, <3>4, <3>5
  <2>3. Typed' /\ Local(r)
    BY <2>1, <2>2 DEF Typed, Local, Point
  <2>4. pc'[r] = "close" /\ plan'[r] = p
    BY <2>1, <2>2 DEF Typed
  <2>5. Ahead(r)' = Ahead(r)
    BY <2>1, <2>4 DEF Ahead
  <2>6. Good(r)'
    BY <2>1, <2>2, <2>4, <2>5
  <2> QED BY <2>3, <2>6 DEF Fine
<1> QED BY <1>1, <1>2

(* The task leaves its course: to a handler of _http, to the answer of one *)
(* or to the finally.                                                      *)
LEMMA LeaveFine ==
    ASSUME Typed, NEW r \in Request, Good(r),
           pc[r] \in {"body", "profile", "acquire", "reply", "close", "settle", "cancelled", "late"},
           NEW a \in {"release", "late", "cancelled"}, pc' = [pc EXCEPT ![r] = a],
           NEW l, life' = [life EXCEPT ![r] = l],
           l = life[r] \/ (Terminal(r, l) /\ ~OwesShadow(r)),
           KillOnly(r), a = "late" \/ kill'[r] = Running(r),
           HeldOnly(r), held'[r] \subseteq held[r], "reader" \notin held'[r],
           "stream" \notin held'[r], "permit" \notin held'[r] \/ "permit" \in hist'[r].cut,
           PlanOnly(r), UnwindOnly(r), unwind'[r] = "none", ReplyOnly(r),
           HistOnly(r), hist[r].cut \subseteq hist'[r].cut, hist'[r].sends = hist[r].sends,
           Clocks,
           UNCHANGED <<shadow, call, app>>
    PROVE  Fine(r)
<1> USE DEF Good, MainLeg, ShadowLeg, Replies, Results, ShadowLate, Unwinding, Cancelling, Holding,
            Owing, Slots, Main, Shadow, Open, Running, InAttempt, OwesMain, OwesShadow, Excused
<1>1. /\ l \in Life /\ l.pend = life[r].pend
      /\ l.state = "open" /\ l.outcome = "none" => l = life[r]
  BY Numbers DEF Terminal
<1>2. Typed' /\ Local(r)
  <2>1. Typed'
    BY <1>1 DEF Typed, Point, HeldOnly, KillOnly, PlanOnly, UnwindOnly, ReplyOnly, HistOnly, Clocks
  <2>2. Local(r)
    BY DEF Typed, Local, HeldOnly, KillOnly, PlanOnly, UnwindOnly, ReplyOnly, HistOnly
  <2> QED BY <2>1, <2>2
<1>3. pc'[r] = a /\ life'[r] = l
  BY DEF Typed
<1>4. Ahead(r)' = 0 /\ Ahead(r) \in Nat
  BY <1>3, Numbers DEF Ahead
<1>5. Owing(r)'
  BY <1>1, <1>3, Numbers
<1>6. Slots(r)'
  BY <1>1, <1>3, <1>4, Numbers
<1>7. (Cancelling(r) /\ Holding(r))'
  BY <1>3
<1>8. (MainLeg(r) /\ ShadowLeg(r) /\ Replies(r) /\ Results(r) /\ ShadowLate(r) /\ Unwinding(r))'
  BY <1>1, <1>3
<1> QED BY <1>2, <1>5, <1>6, <1>7, <1>8 DEF Fine

(* The finally, and an error that leaves the course of the request.        *)
LEMMA FinallyKills ==
    ASSUME Typed, NEW r \in Request, Finally(r), trouble' = trouble
    PROVE  /\ pc' = [pc EXCEPT ![r] = "release"] /\ KillOnly(r) /\ kill'[r] = Running(r)
           /\ Clocks
<1>1. Running(r) \in BOOLEAN /\ kill' = [kill EXCEPT ![r] = Running(r)]
  BY DEF Finally, Running
<1>2. KillOnly(r) /\ kill'[r] = Running(r)
  BY <1>1, Changed
<1>3. Clocks
  BY DEF Finally, Clocks, Typed
<1> QED BY <1>2, <1>3 DEF Finally

LEMMA ErrorLeaves ==
    ASSUME Typed, NEW r \in Request, Good(r), AfterError(r), trouble' = trouble,
           pc[r] = "profile" \/ (pc[r] = "close" /\ unwind[r] = "error")
    PROVE  \E a \in {"release", "late"} : \E l :
              /\ pc' = [pc EXCEPT ![r] = a] /\ life' = [life EXCEPT ![r] = l]
              /\ l = life[r] \/ (Terminal(r, l) /\ ~OwesShadow(r))
              /\ KillOnly(r) /\ (a = "late" \/ kill'[r] = Running(r)) /\ Clocks
<1>1. PICK l : /\ life' = [life EXCEPT ![r] = l] /\ l = Ended(r, "upstream")
               /\ Terminal(r, l)
  BY EndedLife DEF AfterError, Outcome
<1>2. l = life[r] \/ ~OwesShadow(r)
  <2>1. CASE Open(r)
    <3>1. shadow[r] = "off"
      BY <2>1 DEF Good, ShadowLate, Unwinding
    <3> QED BY <3>1 DEF OwesShadow
  <2>2. CASE ~Open(r)
    BY <1>1, <2>2 DEF Ended
  <2> QED BY <2>1, <2>2
<1>3. CASE reply[r] = "none"
  <2>1. pc' = [pc EXCEPT ![r] = "late"] /\ UNCHANGED <<timer, kill>>
    BY <1>3 DEF AfterError
  <2>2. KillOnly(r) /\ Clocks
    BY <2>1, Kept
  <2>3. l = life[r] \/ (Terminal(r, l) /\ ~OwesShadow(r))
    BY <1>1, <1>2
  <2> QED BY <1>1, <2>1, <2>2, <2>3
<1>4. CASE reply[r] # "none"
  <2>1. Finally(r)
    BY <1>4 DEF AfterError
  <2>2. /\ pc' = [pc EXCEPT ![r] = "release"] /\ KillOnly(r) /\ kill'[r] = Running(r)
        /\ Clocks
    BY <2>1, FinallyKills
  <2>3. l = life[r] \/ (Terminal(r, l) /\ ~OwesShadow(r))
    BY <1>1, <1>2
  <2> QED BY <1>1, <2>2, <2>3
<1> QED BY <1>3, <1>4

LEMMA HandlerFine ==
    ASSUME Typed, NEW r \in Request, Good(r),
           ProfileFails(r) \/ Settled(r) \/ Cancelled(r) \/ Replied(r)
    PROVE  Fine(r)
<1>0. /\ pc[r] \in {"profile", "settle", "cancelled", "reply", "late"} =>
            /\ "reader" \notin held[r] /\ "stream" \notin held[r] /\ unwind[r] = "none"
            /\ "permit" \notin held[r] \/ "permit" \in hist[r].cut
      /\ ~Running(r) => ~OwesShadow(r)
  BY DEF Good, Holding, Unwinding, Running, OwesShadow
<1>1. CASE ProfileFails(r)
  <2>1. /\ pc[r] = "profile" /\ AfterError(r)
        /\ UNCHANGED <<shadow, held, call, plan, unwind, reply, app, trouble, hist>>
    BY <1>1 DEF ProfileFails
  <2>2. PICK a \in {"release", "late"} : \E l :
              /\ pc' = [pc EXCEPT ![r] = a] /\ life' = [life EXCEPT ![r] = l]
              /\ l = life[r] \/ (Terminal(r, l) /\ ~OwesShadow(r))
              /\ KillOnly(r) /\ (a = "late" \/ kill'[r] = Running(r)) /\ Clocks
    BY <2>1, ErrorLeaves
  <2> QED BY <1>0, <2>1, <2>2, Kept, LeaveFine
<1>2. CASE Settled(r)
  <2>1. /\ pc[r] = "settle" /\ ~Running(r) /\ Finally(r)
        /\ life' = [life EXCEPT ![r] = Ended(r, hist[r].result)]
        /\ UNCHANGED <<shadow, held, call, plan, unwind, reply, app, trouble, hist>>
    BY <1>2 DEF Settled
  <2>2. PICK l : life' = [life EXCEPT ![r] = l] /\ Terminal(r, l)
    <3>1. hist[r].result \in Outcome /\ hist[r].result # "none"
      BY <2>1 DEF Typed, Good, Results
    <3> QED BY <2>1, <3>1, EndedLife
  <2>3. /\ pc' = [pc EXCEPT ![r] = "release"] /\ KillOnly(r) /\ kill'[r] = Running(r)
        /\ Clocks
    BY <2>1, FinallyKills
  <2> QED BY <1>0, <2>1, <2>2, <2>3, Kept, LeaveFine
<1>3. CASE Cancelled(r)
  <2>1. /\ pc[r] = "cancelled" /\ ~Running(r)
        /\ UNCHANGED <<shadow, held, call, plan, unwind, reply, app, trouble, hist>>
    BY <1>3 DEF Cancelled
  <2>2. PICK l : life' = [life EXCEPT ![r] = l] /\ Terminal(r, l)
    <3>1. PICK o \in {"deadline", "client"} : life' = [life EXCEPT ![r] = Ended(r, o)]
      BY <1>3 DEF Cancelled
    <3>2. o \in Outcome /\ o # "none"
      BY DEF Outcome
    <3> QED BY <3>1, <3>2, EndedLife
  <2>3. PICK a \in {"release", "late"} : /\ pc' = [pc EXCEPT ![r] = a] /\ Clocks
                                         /\ KillOnly(r) /\ (a = "late" \/ kill'[r] = Running(r))
    <3>1. CASE Finally(r)
      BY <2>1, <3>1, FinallyKills
    <3>2. CASE ~Finally(r)
      <4>1. pc' = [pc EXCEPT ![r] = "late"] /\ UNCHANGED <<timer, kill>>
        BY <1>3, <3>2 DEF Cancelled
      <4> QED BY <2>1, <4>1, Kept
    <3> QED BY <3>1, <3>2
  <2> QED BY <1>0, <2>1, <2>2, <2>3, Kept, LeaveFine
<1>4. CASE Replied(r)
  <2>1. /\ pc[r] \in {"reply", "late"} /\ Finally(r) /\ reply' = [reply EXCEPT ![r] = "done"]
        /\ UNCHANGED <<shadow, held, call, plan, unwind, life, app, trouble, hist>>
    BY <1>4 DEF Replied
  <2>2. life' = [life EXCEPT ![r] = life[r]]
    BY <2>1 DEF Typed
  <2>3. /\ pc' = [pc EXCEPT ![r] = "release"] /\ KillOnly(r) /\ kill'[r] = Running(r)
        /\ Clocks
    BY <2>1, FinallyKills
  <2>4. ReplyOnly(r)
    BY <2>1, Changed
  <2> QED BY <1>0, <2>1, <2>2, <2>3, <2>4, Kept, LeaveFine
<1> QED BY <1>1, <1>2, <1>3, <1>4

LEMMA ResultHist ==
    ASSUME Typed, NEW r \in Request, NEW o \in Outcome, hist' = [hist EXCEPT ![r].result = o]
    PROVE  /\ HistOnly(r) /\ hist'[r].result = o /\ hist'[r].cut = hist[r].cut
           /\ hist'[r].sends = hist[r].sends
  BY DEF Typed, HistOnly

LEMMA ClosedFine ==
    ASSUME Typed, NEW r \in Request, Good(r), Closed(r)
    PROVE  Fine(r)
<1>1. /\ pc[r] = "close" /\ held' = [held EXCEPT ![r] = held[r] \ {"stream", "permit"}]
      /\ plan' = [plan EXCEPT ![r] = NoPlan] /\ unwind' = [unwind EXCEPT ![r] = "none"]
      /\ UNCHANGED <<shadow, call, reply, app, trouble>>
  BY DEF Closed, Typed
<1>2. /\ HeldOnly(r) /\ held'[r] = held[r] \ {"stream", "permit"} /\ "reader" \notin held[r]
  <2>1. held[r] \ {"stream", "permit"} \in SUBSET Resource /\ "reader" \notin held[r]
    BY <1>1 DEF Typed, Good, Holding
  <2> QED BY <1>1, <2>1, Changed
<1>3. PlanOnly(r) /\ UnwindOnly(r) /\ unwind'[r] = "none"
  BY <1>1, Changed, PlanValues
<1>4. CASE unwind[r] = "cancel"
  <2>1. /\ pc' = [pc EXCEPT ![r] = "cancelled"] /\ kill' = [kill EXCEPT ![r] = Running(r)]
        /\ UNCHANGED <<life, timer, hist>>
    BY <1>4 DEF Closed, Leave
  <2>2. Running(r) \in BOOLEAN /\ life' = [life EXCEPT ![r] = life[r]]
    BY <2>1 DEF Running, Typed
  <2>3. KillOnly(r) /\ kill'[r] = Running(r)
    BY <2>1, <2>2, Changed
  <2> QED BY <1>1, <1>2, <1>3, <2>1, <2>2, <2>3, Kept, LeaveFine
<1>5. CASE unwind[r] = "error"
  <2>1. AfterError(r) /\ UNCHANGED hist
    BY <1>5 DEF Closed, Leave
  <2>2. PICK a \in {"release", "late"} : \E l :
              /\ pc' = [pc EXCEPT ![r] = a] /\ life' = [life EXCEPT ![r] = l]
              /\ l = life[r] \/ (Terminal(r, l) /\ ~OwesShadow(r))
              /\ KillOnly(r) /\ (a = "late" \/ kill'[r] = Running(r)) /\ Clocks
    BY <1>1, <1>5, <2>1, ErrorLeaves
  <2> QED BY <1>1, <1>2, <1>3, <2>1, <2>2, Kept, LeaveFine
<1>6. CASE unwind[r] = "none"
  <2> USE DEF Good, MainLeg, ShadowLeg, Replies, Results, ShadowLate, Unwinding, Cancelling, Holding,
              Owing, Slots, Main, Shadow, Open, Running, InAttempt, OwesMain, OwesShadow, Excused
  <2>1. CASE plan[r].next = "acquire"
    <3>1. pc' = [pc EXCEPT ![r] = "acquire"] /\ UNCHANGED <<kill, life, timer, hist>>
      BY <1>6, <2>1 DEF Closed, Leave
    <3>2. Typed'
      BY <1>1, <1>2, <1>3, <3>1 DEF Typed, Point, HeldOnly, PlanOnly, UnwindOnly
    <3>3. Local(r)
      BY <1>1, <1>2, <1>3, <3>1 DEF Typed, Local, HeldOnly, PlanOnly, UnwindOnly
    <3>4. pc'[r] = "acquire" /\ shadow[r] = "off" /\ reply[r] = "none"
      BY <1>1, <2>1, <3>1 DEF Typed
    <3>5. Ahead(r)' = Ahead(r)
      BY <1>1, <3>1, <3>4 DEF Ahead
    <3>6. Good(r)'
      BY <1>1, <1>2, <1>3, <3>1, <3>4, <3>5
    <3> QED BY <3>2, <3>3, <3>6 DEF Fine
  <2>2. CASE plan[r].next # "acquire"
    <3>1. /\ pc' = [pc EXCEPT ![r] = "settle"] /\ UNCHANGED <<life, timer>>
          /\ kill' = [kill EXCEPT ![r] = Running(r) /\ plan[r].outcome = "client"]
          /\ hist' = [hist EXCEPT ![r].result = plan[r].outcome]
      BY <1>6, <2>2 DEF Closed, Leave
    <3>2. PICK o \in Outcome : o = plan[r].outcome /\ o # "none"
      BY <1>1, <1>6 DEF Typed, Plan
    <3>3. /\ HistOnly(r) /\ hist'[r].result = o /\ hist'[r].cut = hist[r].cut
          /\ hist'[r].sends = hist[r].sends
      BY <3>1, <3>2, ResultHist
    <3>4. KillOnly(r)
      BY <3>1 DEF Typed, KillOnly
    <3>5. Typed'
      BY <1>1, <1>2, <1>3, <3>1, <3>3, <3>4
         DEF Typed, Point, HeldOnly, PlanOnly, UnwindOnly, HistOnly, KillOnly
    <3>6. Local(r)
      BY <1>1, <1>2, <1>3, <3>1, <3>3, <3>4
         DEF Typed, Local, HeldOnly, PlanOnly, UnwindOnly, HistOnly, KillOnly
    <3>7. pc'[r] = "settle"
      BY <3>1 DEF Typed
    <3>8. Ahead(r)' = 0 /\ Ahead(r) \in Nat
      BY <1>1, <3>7, Numbers DEF Ahead
    <3>9. Slots(r)'
      BY <1>1, <3>1, <3>3, <3>7, <3>8, Numbers
    <3>10. Good(r)'
      BY <1>1, <1>2, <1>3, <3>1, <3>2, <3>3, <3>7, <3>9
    <3> QED BY <3>5, <3>6, <3>10 DEF Fine
  <2> QED BY <2>1, <2>2
<1> QED BY <1>4, <1>5, <1>6 DEF Typed

(* What a cancellation loses.                                              *)
LEMMA LostHist ==
    ASSUME Typed, NEW r \in Request, NEW what \in SUBSET Cut, Lost(r, what)
    PROVE  /\ HistOnly(r) /\ hist'[r].cut = hist[r].cut \cup what
           /\ hist'[r].sends = hist[r].sends /\ hist'[r].result = hist[r].result
<1>1. PICK k \in SUBSET Cut : k = hist[r].cut \cup what
  BY DEF Typed
<1>2. hist' = [hist EXCEPT ![r].cut = k]
  BY <1>1 DEF Lost, Typed
<1>3. /\ HistOnly(r) /\ hist'[r].cut = k
      /\ hist'[r].sends = hist[r].sends /\ hist'[r].result = hist[r].result
  BY <1>2 DEF Typed, HistOnly
<1> QED BY <1>1, <1>3

(* Cancellation, at the await pc names.                                    *)
LEMMA CourseFine ==
    ASSUME Typed, NEW r \in Request, Good(r), InCourse(r) \/ InHandler(r), Clocks,
           UNCHANGED <<shadow, call, life, app>>
    PROVE  Fine(r)
<1>0. /\ pc[r] \in {"profile", "acquire", "reply", "settle", "cancelled", "late"} =>
            /\ "reader" \notin held[r] /\ "stream" \notin held[r] /\ unwind[r] = "none"
            /\ "permit" \notin held[r] \/ "permit" \in hist[r].cut
      /\ life' = [life EXCEPT ![r] = life[r]]
      /\ Running(r) \in BOOLEAN /\ reply[r] \in {"none", "started", "done"}
  BY DEF Good, Holding, Unwinding, Running, Typed
<1>a. ASSUME ToHandler(r)
      PROVE  /\ pc' = [pc EXCEPT ![r] = "cancelled"] /\ KillOnly(r) /\ kill'[r] = Running(r)
  BY <1>0, <1>a, Changed DEF ToHandler
<1>1. CASE /\ pc[r] = "body" /\ CancelBody(r) /\ ToHandler(r)
           /\ UNCHANGED <<plan, unwind, reply, hist>>
  <2>1. held' = [held EXCEPT ![r] = held[r] \ {"reader"}]
    BY <1>1 DEF CancelBody, Typed
  <2>2. /\ HeldOnly(r) /\ held'[r] = held[r] \ {"reader"} /\ "stream" \notin held[r]
        /\ "permit" \notin held[r] \/ "permit" \in hist[r].cut
        /\ unwind[r] = "none"
    <3>1. held[r] \ {"reader"} \in SUBSET Resource
      BY DEF Typed
    <3> QED BY <1>1, <2>1, <3>1, Changed DEF Good, Holding, Unwinding
  <2> QED BY <1>0, <1>1, <1>a, <2>2, Kept, LeaveFine
<1>2. CASE /\ pc[r] \in {"profile", "acquire", "reply", "settle"} /\ ToHandler(r)
           /\ reply' = [reply EXCEPT ![r] = IF pc[r] = "reply" THEN "started" ELSE @]
           /\ UNCHANGED <<held, plan, unwind, hist>>
  <2>1. ReplyOnly(r)
    <3>1. PICK y \in {"none", "started", "done"} : reply' = [reply EXCEPT ![r] = y]
      BY <1>0, <1>2 DEF Typed
    <3> QED BY <3>1, Changed
  <2> QED BY <1>0, <1>2, <1>a, <2>1, Kept, LeaveFine
<1>3. CASE /\ pc[r] \in InAttempt /\ Resolve(r, "client", Uncertain(r), "settle")
           /\ unwind' = [unwind EXCEPT ![r] = "cancel"]
           /\ reply' = [reply EXCEPT ![r] = IF pc[r] = "relay" THEN "started" ELSE @]
           /\ UNCHANGED <<kill, held, hist>>
  <2>1. ReplyOnly(r)
    <3>1. PICK y \in {"none", "started", "done"} : reply' = [reply EXCEPT ![r] = y]
      BY <1>0, <1>3 DEF Typed
    <3> QED BY <3>1, Changed
  <2>2. UnwindOnly(r) /\ unwind'[r] = "cancel"
    BY <1>3, Changed
  <2>3. /\ Uncertain(r) \in BOOLEAN /\ Main(r).lease = "open"
        /\ Uncertain(r) \/ Main(r).provider # "running"
    <3>1. Main(r) \in Leg
      BY DEF Typed, Main
    <3> QED BY <1>3, <3>1 DEF Good, MainLeg, InAttempt, Uncertain, Leg
  <2>4. MainOnly(r) /\ Main(r)' = Main(r) /\ HeldOnly(r) /\ held'[r] = held[r]
    BY <1>3, Kept
  <2>5. "client" \in Outcome \ {"none"}
    BY DEF Outcome
  <2> QED BY <1>3, <2>1, <2>2, <2>3, <2>4, <2>5, ResolveFine
<1>4. CASE /\ pc[r] \in {"resolve", "record", "answer"}
           /\ unwind' = [unwind EXCEPT ![r] = "cancel"]
           /\ \/ /\ pc[r] = "resolve" /\ (Lost(r, {"record"}) \/ UNCHANGED hist)
                 /\ UNCHANGED <<pc, kill, held, plan, reply>>
              \/ pc[r] = "record" /\ UNCHANGED <<pc, kill, held, plan, reply, hist>>
              \/ /\ pc[r] = "answer" /\ pc' = [pc EXCEPT ![r] = "close"]
                 /\ reply' = [reply EXCEPT ![r] = "started"]
                 /\ UNCHANGED <<kill, held, plan, hist>>
  <2> USE DEF Good, MainLeg, ShadowLeg, Replies, Results, ShadowLate, Unwinding, Cancelling, Holding,
              Owing, Slots, Main, Shadow, Open, Running, InAttempt, OwesMain, OwesShadow, Excused
  <2>1. UnwindOnly(r) /\ unwind'[r] = "cancel"
    BY <1>4, Changed
  <2>2. /\ HistOnly(r) /\ hist[r].cut \subseteq hist'[r].cut
        /\ hist'[r].sends = hist[r].sends /\ hist'[r].result = hist[r].result
    <3>1. CASE Lost(r, {"record"})
      <4>1. {"record"} \in SUBSET Cut
        BY DEF Cut
      <4> QED BY <3>1, <4>1, LostHist
    <3>2. CASE UNCHANGED hist
      BY <3>2, Kept
    <3> QED BY <1>4, <3>1, <3>2
  <2>3. CASE pc[r] \in {"resolve", "record"}
    <3>1. UNCHANGED <<pc, kill, held, plan, reply>>
      BY <1>4, <2>3
    <3>2. Typed' /\ Local(r)
      BY <2>1, <2>2, <3>1 DEF Typed, Local, UnwindOnly, HistOnly, Clocks
    <3>3. Ahead(r)' = Ahead(r)
      BY <2>2, <3>1 DEF Ahead
    <3>4. Good(r)'
      BY <2>1, <2>2, <2>3, <3>1, <3>3
    <3> QED BY <3>2, <3>4 DEF Fine
  <2>4. CASE pc[r] = "answer"
    <3>1. /\ pc' = [pc EXCEPT ![r] = "close"] /\ reply' = [reply EXCEPT ![r] = "started"]
          /\ UNCHANGED <<kill, held, plan>>
      BY <1>4, <2>4
    <3>2. Typed' /\ Local(r)
      BY <2>1, <2>2, <3>1 DEF Typed, Local, Point, UnwindOnly, HistOnly, Clocks
    <3>3. pc'[r] = "close"
      BY <3>1 DEF Typed
    <3>4. Ahead(r)' = Ahead(r)
      BY <2>2, <2>4, <3>3 DEF Ahead
    <3>5. Good(r)'
      BY <2>1, <2>2, <2>4, <3>1, <3>3, <3>4
    <3> QED BY <3>2, <3>5 DEF Fine
  <2> QED BY <1>4, <2>3, <2>4
<1>5. CASE /\ pc[r] = "close" /\ ToHandler(r)
           /\ IF "stream" \in held[r]
              THEN held' = [held EXCEPT ![r] = @ \ {"stream"}] /\ Lost(r, held[r] \cap {"permit"})
              ELSE held' = [held EXCEPT ![r] = @ \ {"permit"}] /\ UNCHANGED hist
           /\ plan' = [plan EXCEPT ![r] = NoPlan] /\ unwind' = [unwind EXCEPT ![r] = "none"]
           /\ UNCHANGED reply
  <2>1. PlanOnly(r) /\ UnwindOnly(r) /\ unwind'[r] = "none" /\ ReplyOnly(r)
    BY <1>5, Changed, Kept, PlanValues
  <2>2. /\ held[r] \ {"stream"} \in SUBSET Resource /\ held[r] \ {"permit"} \in SUBSET Resource
        /\ held[r] \cap {"permit"} \in SUBSET Cut /\ "reader" \notin held[r]
    BY <1>5 DEF Typed, Cut, Good, Holding
  <2>3. /\ HeldOnly(r) /\ held'[r] \subseteq held[r] /\ "stream" \notin held'[r]
        /\ HistOnly(r) /\ hist[r].cut \subseteq hist'[r].cut
        /\ hist'[r].sends = hist[r].sends
        /\ "permit" \notin held'[r] \/ "permit" \in hist'[r].cut
    <3>1. CASE "stream" \in held[r]
      <4>1. held' = [held EXCEPT ![r] = held[r] \ {"stream"}] /\ Lost(r, held[r] \cap {"permit"})
        BY <1>5, <3>1 DEF Typed
      <4>p. PICK h \in SUBSET Resource : /\ h = held[r] \ {"stream"}
                                         /\ held' = [held EXCEPT ![r] = h]
        BY <2>2, <4>1
      <4>2. HeldOnly(r) /\ held'[r] = held[r] \ {"stream"}
        BY <4>p DEF Typed, HeldOnly
      <4>3. /\ HistOnly(r) /\ hist'[r].cut = hist[r].cut \cup (held[r] \cap {"permit"})
            /\ hist'[r].sends = hist[r].sends
        BY <2>2, <4>1, LostHist
      <4> QED BY <4>2, <4>3
    <3>2. CASE "stream" \notin held[r]
      <4>1. held' = [held EXCEPT ![r] = held[r] \ {"permit"}] /\ UNCHANGED hist
        BY <1>5, <3>2 DEF Typed
      <4>p. PICK h \in SUBSET Resource : /\ h = held[r] \ {"permit"}
                                         /\ held' = [held EXCEPT ![r] = h]
        BY <2>2, <4>1
      <4>2. HeldOnly(r) /\ held'[r] = held[r] \ {"permit"}
        BY <4>p DEF Typed, HeldOnly
      <4> QED BY <3>2, <4>1, <4>2, Kept
    <3> QED BY <3>1, <3>2
  <2> QED BY <1>0, <1>5, <1>a, <2>1, <2>2, <2>3, LeaveFine
<1>6. CASE InHandler(r)
  <2>1. /\ pc[r] \in {"cancelled", "late"} /\ pc' = [pc EXCEPT ![r] = "release"]
        /\ kill' = [kill EXCEPT ![r] = Running(r)] /\ UNCHANGED <<held, plan, unwind, hist>>
    BY <1>6 DEF InHandler
  <2>2. ReplyOnly(r)
    <3>1. PICK y \in {"none", "started", "done"} : reply' = [reply EXCEPT ![r] = y]
      BY <1>0, <1>6 DEF InHandler, Typed
    <3> QED BY <3>1, Changed
  <2>3. KillOnly(r) /\ kill'[r] = Running(r)
    BY <1>0, <2>1, Changed
  <2> QED BY <1>0, <2>1, <2>2, <2>3, Kept, LeaveFine
<1> QED BY <1>1, <1>2, <1>3, <1>4, <1>5, <1>6 DEF InCourse

(* release: the reservation is closed, with a terminal event when there    *)
(* was none.                                                               *)
LEMMA UnreservedLife ==
    ASSUME Typed, NEW r \in Request
    PROVE  /\ Unreserved(r) \in Life /\ Unreserved(r).pend = life[r].pend
           /\ Unreserved(r).state # "open"
           /\ \E l \in Life : /\ l = [Unreserved(r) EXCEPT !.outcome = "none"]
                              /\ l.pend = life[r].pend /\ l.state # "open"
<1>1. life[r] \in Life
  BY DEF Typed
<1>2. PICK e \in Life : e = Ended(r, "upstream") /\ e.pend = life[r].pend
  BY EndedLife DEF Terminal, Outcome
<1>3. /\ [e EXCEPT !.state = "released"] \in Life
      /\ [e EXCEPT !.state = "released"].pend = e.pend
      /\ [e EXCEPT !.state = "released"].state = "released"
  BY DEF Life
<1>4. PICK u \in Life : u = Unreserved(r) /\ u.pend = life[r].pend /\ u.state # "open"
  <2>1. CASE life[r].state = "open"
    BY <1>2, <1>3, <2>1 DEF Unreserved
  <2>2. CASE life[r].state # "open"
    BY <1>1, <2>2 DEF Unreserved
  <2> QED BY <2>1, <2>2
<1>5. /\ [u EXCEPT !.outcome = "none"] \in Life
      /\ [u EXCEPT !.outcome = "none"].pend = u.pend
      /\ [u EXCEPT !.outcome = "none"].state = u.state
  BY DEF Life, Outcome
<1> QED BY <1>4, <1>5

(* The task is over.                                                       *)
LEMMA EndsFine ==
    ASSUME Typed, NEW r \in Request, Good(r), pc[r] = "release",
           NEW lost \in SUBSET Cut, Ends(r, lost), HeldOnly(r), held'[r] \subseteq held[r],
           held'[r] \subseteq hist[r].cut \cup lost,
           NEW l \in Life, life' = [life EXCEPT ![r] = l], l.pend = life[r].pend,
           l = life[r] \/ (l.state # "open" /\ ~Running(r)),
           l.state # "open" \/ "life" \in lost, ~Running(r) \/ "shadow" \in lost,
           trouble' \in Nat, UNCHANGED <<shadow, kill, app>>
    PROVE  Fine(r)
<1> USE DEF Good, MainLeg, ShadowLeg, Replies, Results, ShadowLate, Unwinding, Cancelling, Holding,
            Owing, Slots, Main, Shadow, Open, Running, InAttempt, OwesMain, OwesShadow, Excused
<1>1. /\ pc' = [pc EXCEPT ![r] = "done"] /\ plan' = [plan EXCEPT ![r] = NoPlan]
      /\ unwind' = [unwind EXCEPT ![r] = "none"] /\ reply' = [reply EXCEPT ![r] = "none"]
      /\ timer' = [timer EXCEPT ![r] = "off"]
  BY DEF Ends
<1>2. PICK c \in Leg : /\ call' = [call EXCEPT ![r].main = c]
                       /\ c.lease \notin {"open", "released"}
  <2>1. call[r].main \in Leg /\ call[r].main.lease # "open"
    BY DEF Typed
  <2>2. call' = [call EXCEPT ![r].main = Gone(call[r].main)]
    BY DEF Ends, Typed
  <2>3. PICK g \in Leg : g = Gone(call[r].main) /\ g.lease \notin {"open", "released"}
    BY <2>1, LegValues
  <2> QED BY <2>2, <2>3
<1>3. MainOnly(r) /\ call'[r].main = c
  BY <1>2, MainSet
<1>4. HistOnly(r) /\ hist'[r].cut = hist[r].cut \cup lost /\ hist'[r].sends = 0
  <2>1. hist' = [hist EXCEPT ![r] =
                   [sends |-> 0, result |-> "none", cut |-> hist[r].cut \cup lost]]
    BY DEF Ends, Typed
  <2>2. PICK k \in SUBSET Cut : k = hist[r].cut \cup lost
    BY DEF Typed
  <2>3. [sends |-> 0, result |-> "none", cut |-> k]
           \in [sends : Nat, result : Outcome, cut : SUBSET Cut]
    BY DEF Outcome
  <2> QED BY <2>1, <2>2, <2>3 DEF Typed, HistOnly
<1>5. Typed'
  BY <1>1, <1>3, <1>4, PlanValues DEF Typed, Point, MainOnly, HistOnly, HeldOnly
<1>6. Local(r)
  BY <1>1, <1>3, <1>4 DEF Typed, Local, MainOnly, HistOnly, HeldOnly
<1>7. /\ pc'[r] = "done" /\ unwind'[r] = "none" /\ life'[r] = l
      /\ call'[r].shadow = call[r].shadow
  BY <1>1, <1>3 DEF Typed, MainOnly
<1>8. Ahead(r)' = 0 /\ Ahead(r) = 0
  BY <1>7 DEF Ahead
<1>9. Holding(r)'
  BY <1>4, <1>7
<1>10. Owing(r)'
  BY <1>4, <1>7, Numbers
<1>11. Slots(r)'
  BY <1>4, <1>7, <1>8, Numbers
<1>12. Good(r)'
  BY <1>2, <1>3, <1>4, <1>7, <1>9, <1>10, <1>11
<1> QED BY <1>5, <1>6, <1>12 DEF Fine

LEMMA ReleaseFine ==
    ASSUME Typed, NEW r \in Request, Good(r),
           \/ Released(r)
           \/ InFinally(r) /\ trouble' \in Nat /\ UNCHANGED <<shadow, life, app>>
    PROVE  Fine(r)
<1>1. /\ pc[r] = "release"
      /\ "reader" \notin held[r] /\ "stream" \notin held[r]
      /\ "permit" \in held[r] => "permit" \in hist[r].cut
      /\ ~Running(r) => /\ "shadow_stream" \notin held[r]
                        /\ "shadow_permit" \in held[r] => "shadow_permit" \in hist[r].cut
  BY DEF Released, InFinally, Good, Holding
<1>2. ~Running(r) => held[r] \ {"inbound", "preauth", "body"} \subseteq hist[r].cut
  BY <1>1 DEF Typed, Resource
<1>3. /\ held[r] \ {"inbound"} \in SUBSET Resource
      /\ held[r] \ {"inbound", "preauth", "body"} \in SUBSET Resource
      /\ held[r] \cup {"life", "shadow"} \in SUBSET Cut /\ {} \in SUBSET Cut /\ {"life"} \in SUBSET Cut
  BY DEF Typed, Cut
<1>4. life' = life => life' = [life EXCEPT ![r] = life[r]] /\ life[r] \in Life
  BY DEF Typed
<1>5. CASE Released(r)
  <2>1. /\ ~Running(r) /\ Ends(r, {}) /\ UNCHANGED <<shadow, kill, app, trouble>>
        /\ held' = [held EXCEPT ![r] = held[r] \ {"inbound", "preauth", "body"}]
        /\ life' = [life EXCEPT ![r] = [Unreserved(r) EXCEPT !.outcome = "none"]]
    BY <1>5 DEF Released, Typed
  <2>2. PICK l \in Life : /\ life' = [life EXCEPT ![r] = l]
                          /\ l.pend = life[r].pend /\ l.state # "open"
    BY <2>1, UnreservedLife
  <2>3. HeldOnly(r) /\ held'[r] = held[r] \ {"inbound", "preauth", "body"}
    BY <1>3, <2>1, Changed
  <2>4. trouble' \in Nat
    BY <2>1 DEF Typed
  <2>5. held'[r] \subseteq held[r] /\ held'[r] \subseteq hist[r].cut \cup {}
    BY <1>2, <2>1, <2>3
  <2>6. PICK lost \in SUBSET Cut : lost = {} /\ Ends(r, lost)
    BY <1>3, <2>1
  <2> QED BY <1>1, <2>1, <2>2, <2>3, <2>4, <2>5, <2>6, EndsFine
<1>6. CASE InFinally(r) /\ trouble' \in Nat /\ UNCHANGED <<shadow, life, app>>
  <2>1. CASE Running(r)
    <3>1. /\ held' = [held EXCEPT ![r] = held[r] \ {"inbound"}] /\ UNCHANGED kill
          /\ Ends(r, held[r] \cup {"life", "shadow"})
      BY <1>6, <2>1 DEF InFinally, Typed
    <3>2. HeldOnly(r) /\ held'[r] = held[r] \ {"inbound"}
      BY <1>3, <3>1 DEF HeldOnly, Typed
    <3>3. PICK lost \in SUBSET Cut : lost = held[r] \cup {"life", "shadow"}
      BY <1>3
    <3>4. Ends(r, lost)
      BY <3>1, <3>3
    <3>5. /\ held'[r] \subseteq held[r] /\ held'[r] \subseteq hist[r].cut \cup lost
          /\ "life" \in lost /\ "shadow" \in lost
      BY <3>2, <3>3
    <3> QED BY <1>1, <1>4, <1>6, <3>1, <3>2, <3>4, <3>5, EndsFine
  <2>2. CASE ~Running(r)
    <3>1. /\ held' = [held EXCEPT ![r] = held[r] \ {"inbound", "preauth", "body"}]
          /\ UNCHANGED kill /\ Ends(r, {"life"})
      BY <1>6, <2>2 DEF InFinally, Typed
    <3>2. HeldOnly(r) /\ held'[r] = held[r] \ {"inbound", "preauth", "body"}
      BY <1>3, <3>1 DEF HeldOnly, Typed
    <3>3. /\ held'[r] \subseteq held[r] /\ held'[r] \subseteq hist[r].cut \cup {"life"}
          /\ "life" \in {"life"} /\ {"life"} \in SUBSET Cut
      BY <1>2, <1>3, <2>2, <3>2
    <3> QED BY <1>1, <1>4, <1>6, <2>2, <3>1, <3>2, <3>3, EndsFine
  <2> QED BY <2>1, <2>2
<1> QED BY <1>5, <1>6

(* The lease of a shadow is to be resolved.                                *)
LEMMA ShadowResolveFine ==
    ASSUME Typed, NEW r \in Request, Good(r),
           shadow[r] \in {"acquire", "prepare", "send", "drain"},
           NEW c \in Leg, NEW u \in BOOLEAN, ShadowResolve(r, c, u),
           u \/ c.provider # "running",
           IF shadow[r] = "acquire" THEN ~c.reserved ELSE c.reserved = Shadow(r).reserved,
           HeldOnly(r), KillOnly(r),
           held'[r] = held[r] \/ (~kill[r] /\ held'[r] = held[r] \cup {"shadow_stream"}),
           UNCHANGED <<pc, plan, unwind, life, reply, timer, app, trouble, hist>>
    PROVE  Fine(r)
<1> USE DEF Good, MainLeg, ShadowLeg, Replies, Results, ShadowLate, Unwinding, Cancelling, Holding,
            Owing, Slots, Main, Shadow, Open, Running, InAttempt, OwesMain, OwesShadow, Excused
<1>1. PICK d \in Leg : /\ call' = [call EXCEPT ![r].shadow = d]
                       /\ d.lease \in {"keeping", "releasing"} /\ (u \/ d.lease = "releasing")
                       /\ (d.lease = "releasing" => ~u)
                       /\ d.provider = c.provider /\ d.reserved = c.reserved
  <2>1. PICK l \in {"keeping", "releasing"} :
           /\ l = (IF u THEN "keeping" ELSE "releasing") /\ (l = "releasing" <=> ~u)
    OBVIOUS
  <2>2. call' = [call EXCEPT ![r].shadow = Leasing(c, l)]
    BY <2>1 DEF ShadowResolve, SetShadow, Leasing
  <2>3. PICK d \in Leg : /\ d = Leasing(c, l) /\ d.lease = l
                         /\ d.provider = c.provider /\ d.reserved = c.reserved
    BY LegUpdates
  <2> QED BY <2>1, <2>2, <2>3
<1>2. ShadowOnly(r) /\ call'[r].shadow = d
  BY <1>1, ShadowSet
<1>3. shadow' = [shadow EXCEPT ![r] = "resolve"]
  BY DEF ShadowResolve, ShadowAt
<1>4. Typed'
  BY <1>2, <1>3 DEF Typed, ShadowPoint, ShadowOnly, HeldOnly, KillOnly
<1>5. Local(r)
  BY <1>2, <1>3 DEF Typed, Local, ShadowOnly, HeldOnly, KillOnly
<1>6. shadow'[r] = "resolve" /\ call'[r].main = call[r].main
  BY <1>2, <1>3 DEF Typed, ShadowOnly
<1>7. Ahead(r)' = Ahead(r)
  BY DEF Ahead
<1>8. Owing(r)'
  BY <1>1, <1>2, <1>6, Numbers
<1>9. ShadowLeg(r)'
  BY <1>1, <1>2, <1>6
<1>10. (MainLeg(r) /\ Replies(r) /\ Results(r) /\ ShadowLate(r))'
  BY <1>6
<1>11. (Unwinding(r) /\ Cancelling(r) /\ Holding(r))'
  BY <1>6
<1>12. Slots(r)'
  BY <1>6, <1>7
<1> QED BY <1>4, <1>5, <1>8, <1>9, <1>10, <1>11, <1>12 DEF Fine

LEMMA ShadowLeasedFine ==
    ASSUME Typed, NEW r \in Request, Good(r), ShadowLeased(r)
    PROVE  Fine(r)
<1> USE DEF Good, MainLeg, ShadowLeg, Replies, Results, ShadowLate, Unwinding, Cancelling, Holding,
            Owing, Slots, Main, Shadow, Open, Running, InAttempt, OwesMain, OwesShadow, Excused
<1>1. PICK c \in Leg : /\ c = Leasing(NoCall, "open")
                       /\ c.lease = "open" /\ c.provider = "idle" /\ ~c.sent /\ ~c.reserved
  <2>1. NoCall \in Leg
    BY LegValues
  <2>2. /\ Leasing(NoCall, "open") \in Leg /\ Leasing(NoCall, "open").lease = "open"
        /\ Leasing(NoCall, "open").provider = "idle"
    BY <2>1, LegValues, LegUpdates
  <2>3. ~Leasing(NoCall, "open").sent /\ ~Leasing(NoCall, "open").reserved
    BY <2>1, LegValues, LegUpdates
  <2> QED BY <2>2, <2>3
<1>2. /\ shadow[r] = "acquire" /\ ~kill[r] /\ HasShadow[r]
      /\ UNCHANGED <<pc, kill, held, plan, unwind, reply, timer, app, trouble, hist>>
  BY DEF ShadowLeased, Awake
<1>3. CASE Open(r) /\ life[r].left >= 3
  <2>1. /\ call' = [call EXCEPT ![r].shadow = Reserving(c)] /\ life' = Begun(r)
        /\ shadow' = [shadow EXCEPT ![r] = "prepare"]
    BY <1>1, <1>3 DEF ShadowLeased, SetShadow, ShadowAt, Leasing, Reserving
  <2>2. PICK d \in Leg : /\ call' = [call EXCEPT ![r].shadow = d]
                         /\ d.lease = "open" /\ d.provider = "idle" /\ ~d.sent /\ d.reserved
    <3>1. /\ Reserving(c) \in Leg /\ Reserving(c).reserved /\ Reserving(c).provider = "idle"
          /\ Reserving(c).lease = "open"
      BY <1>1, LegUpdates
    <3>2. ~Reserving(c).sent
      BY <1>1, LegUpdates
    <3> QED BY <2>1, <3>1, <3>2
  <2>3. PICK l \in Life : /\ life' = [life EXCEPT ![r] = l]
                          /\ l.state = life[r].state /\ l.outcome = life[r].outcome
                          /\ l.left = life[r].left - 1 /\ l.pend = life[r].pend + 1
    BY <2>1, BegunLife
  <2>4. ShadowOnly(r) /\ call'[r].shadow = d
    BY <2>2, ShadowSet
  <2>5. Typed' /\ Local(r)
    BY <1>2, <2>1, <2>3, <2>4 DEF Typed, Local, ShadowPoint, ShadowOnly
  <2>6. shadow'[r] = "prepare" /\ life'[r] = l /\ call'[r].main = call[r].main
    BY <2>1, <2>3, <2>4 DEF Typed, ShadowOnly
  <2>7. Ahead(r)' = Ahead(r) /\ Ahead(r) \in Int
    BY <1>2, Numbers DEF Ahead
  <2>8. Owing(r)'
    BY <1>2, <1>3, <2>2, <2>3, <2>4, <2>6, Numbers
  <2>9. Slots(r)'
    BY <1>2, <1>3, <2>3, <2>6, <2>7, Numbers
  <2>10. Cancelling(r)
    OBVIOUS
  <2>11. Good(r)'
    BY <1>2, <1>3, <2>2, <2>3, <2>4, <2>6, <2>8, <2>9
  <2> QED BY <2>5, <2>11 DEF Fine
<1>4. CASE ~(Open(r) /\ life[r].left >= 3)
  <2>1. ShadowResolve(r, c, FALSE) /\ UNCHANGED life
    BY <1>1, <1>4 DEF ShadowLeased, Leasing
  <2> QED BY <1>1, <1>2, <2>1, Kept, ShadowResolveFine
<1> QED BY <1>3, <1>4

LEMMA ShadowRunsFine ==
    ASSUME Typed, NEW r \in Request, Good(r),
           ShadowSent(r) \/ ShadowAnswered(r) \/ ShadowDrained(r)
    PROVE  Fine(r)
<1>0. /\ Shadow(r) \in Leg /\ held[r] \cup {"shadow_stream"} \in SUBSET Resource
      /\ shadow[r] = "prepare" => Shadow(r).provider = "idle"
      /\ shadow[r] \in {"prepare", "send"} => Shadow(r).lease = "open"
  BY DEF Typed, Shadow, Resource, Good, ShadowLeg
<1>1. CASE ShadowSent(r)
  <2>1. /\ shadow[r] = "prepare" /\ ~kill[r]
        /\ UNCHANGED <<pc, kill, held, plan, unwind, life, reply, timer, app, trouble, hist>>
    BY <1>1 DEF ShadowSent, Awake
  <2>2. PICK c \in Leg : /\ c = Sent(Shadow(r)) /\ c.sent /\ c.provider = Shadow(r).provider
                         /\ c.lease = Shadow(r).lease /\ c.reserved = Shadow(r).reserved
    BY <1>0, LegUpdates
  <2>3. \/ app = "open" /\ SetShadow(r, Provided(c, "running")) /\ ShadowAt(r, "send")
        \/ ShadowResolve(r, c, TRUE)
        \/ ShadowResolve(r, Shadow(r), FALSE)
    BY <1>1, <2>2 DEF ShadowSent, Sent, Provided
  <2>4. CASE SetShadow(r, Provided(c, "running")) /\ ShadowAt(r, "send")
    <3> USE DEF Good, MainLeg, ShadowLeg, Replies, Results, ShadowLate, Unwinding, Cancelling, Holding,
                Owing, Slots, Main, Shadow, Open, Running, InAttempt, OwesMain, OwesShadow, Excused
    <3>1. PICK d \in Leg : /\ d = Provided(c, "running") /\ d.provider = "running"
                           /\ d.lease = c.lease /\ d.sent = c.sent /\ d.reserved = c.reserved
      BY LegUpdates
    <3>2. ShadowOnly(r) /\ call'[r].shadow = d
      <4>1. call' = [call EXCEPT ![r].shadow = d]
        BY <2>4, <3>1 DEF SetShadow
      <4> QED BY <4>1, ShadowSet
    <3>3. shadow' = [shadow EXCEPT ![r] = "send"]
      BY <2>4 DEF ShadowAt
    <3>4. Typed' /\ Local(r)
      BY <2>1, <3>2, <3>3 DEF Typed, Local, ShadowPoint, ShadowOnly
    <3>5. shadow'[r] = "send" /\ call'[r].main = call[r].main
      BY <3>2, <3>3 DEF Typed, ShadowOnly
    <3>6. Ahead(r)' = Ahead(r)
      BY <2>1 DEF Ahead
    <3>7. (OwesMain(r)' <=> OwesMain(r)) /\ (OwesShadow(r)' <=> OwesShadow(r))
      BY <2>1, <2>2, <3>1, <3>2, <3>5
    <3>8. (Owing(r) /\ Slots(r))'
      <4> HIDE DEF OwesMain, OwesShadow
      <4> QED BY <2>1, <3>5, <3>6, <3>7
    <3>9. d.lease = "open" /\ d.sent
      BY <1>0, <2>1, <2>2, <3>1
    <3>10. ShadowLeg(r)'
      BY <3>2, <3>5, <3>9
    <3>11. (MainLeg(r) /\ Replies(r) /\ Results(r) /\ ShadowLate(r))'
      BY <2>1, <3>5
    <3>12. (Unwinding(r) /\ Cancelling(r) /\ Holding(r))'
      BY <2>1, <3>5
    <3> QED BY <3>4, <3>8, <3>10, <3>11, <3>12 DEF Fine
  <2>5. CASE ShadowResolve(r, c, TRUE)
    BY <2>1, <2>2, <2>5, Kept, ShadowResolveFine
  <2>6. CASE ShadowResolve(r, Shadow(r), FALSE)
    BY <1>0, <2>1, <2>6, Kept, ShadowResolveFine
  <2> QED BY <2>3, <2>4, <2>5, <2>6
<1>2. CASE ShadowAnswered(r)
  <2>1. /\ shadow[r] = "send" /\ ~kill[r]
        /\ UNCHANGED <<pc, kill, plan, unwind, life, reply, timer, app, trouble, hist>>
    BY <1>2 DEF ShadowAnswered, Awake
  <2>2. PICK c \in Leg : /\ c = Provided(Shadow(r), "elsewhere") /\ c.provider = "elsewhere"
                         /\ c.reserved = Shadow(r).reserved
    BY <1>0, LegUpdates
  <2>3. PICK d \in Leg : /\ d = Provided(Shadow(r), "idle") /\ d.provider = "idle"
                         /\ d.reserved = Shadow(r).reserved
    BY <1>0, LegUpdates
  <2>4. \/ /\ ShadowAt(r, "drain") /\ UNCHANGED call
           /\ held' = [held EXCEPT ![r] = held[r] \cup {"shadow_stream"}]
        \/ /\ held' = [held EXCEPT ![r] = held[r] \cup {"shadow_stream"}]
           /\ ShadowResolve(r, c, FALSE)
        \/ ShadowResolve(r, d, FALSE) /\ UNCHANGED held
        \/ ShadowResolve(r, Shadow(r), TRUE) /\ UNCHANGED held
    BY <1>2, <2>2, <2>3 DEF ShadowAnswered, Provided, Typed
  <2>5. held' = [held EXCEPT ![r] = held[r] \cup {"shadow_stream"}] =>
           HeldOnly(r) /\ held'[r] = held[r] \cup {"shadow_stream"}
    BY <1>0, Changed
  <2>6. CASE /\ ShadowAt(r, "drain") /\ UNCHANGED call
             /\ held' = [held EXCEPT ![r] = held[r] \cup {"shadow_stream"}]
    <3> USE DEF Good, MainLeg, ShadowLeg, Replies, Results, ShadowLate, Unwinding, Cancelling, Holding,
                Owing, Slots, Main, Shadow, Open, Running, InAttempt, OwesMain, OwesShadow, Excused
    <3>1. shadow' = [shadow EXCEPT ![r] = "drain"]
      BY <2>6 DEF ShadowAt
    <3>2. Typed' /\ Local(r)
      BY <2>1, <2>5, <2>6, <3>1 DEF Typed, Local, ShadowPoint, HeldOnly
    <3>3. shadow'[r] = "drain"
      BY <3>1 DEF Typed
    <3>4. Ahead(r)' = Ahead(r)
      BY <2>1 DEF Ahead
    <3>5. Good(r)'
      BY <2>1, <2>5, <2>6, <3>3, <3>4
    <3> QED BY <3>2, <3>5 DEF Fine
  <2>7. CASE /\ held' = [held EXCEPT ![r] = held[r] \cup {"shadow_stream"}]
             /\ ShadowResolve(r, c, FALSE)
    BY <2>1, <2>2, <2>5, <2>7, Kept, ShadowResolveFine
  <2>8. CASE ShadowResolve(r, d, FALSE) /\ UNCHANGED held
    BY <2>1, <2>3, <2>8, Kept, ShadowResolveFine
  <2>9. CASE ShadowResolve(r, Shadow(r), TRUE) /\ UNCHANGED held
    BY <1>0, <2>1, <2>9, Kept, ShadowResolveFine
  <2> QED BY <2>4, <2>6, <2>7, <2>8, <2>9
<1>3. CASE ShadowDrained(r)
  <2>1. /\ shadow[r] = "drain" /\ ~kill[r]
        /\ UNCHANGED <<pc, kill, held, plan, unwind, life, reply, timer, app, trouble, hist>>
    BY <1>3 DEF ShadowDrained, Awake
  <2>2. PICK c \in Leg : /\ c = Provided(Shadow(r), "ended") /\ c.provider = "ended"
                         /\ c.reserved = Shadow(r).reserved
    BY <1>0, LegUpdates
  <2>3. ShadowResolve(r, c, FALSE) \/ ShadowResolve(r, Shadow(r), TRUE)
    BY <1>3, <2>2 DEF ShadowDrained, Provided
  <2>4. CASE ShadowResolve(r, c, FALSE)
    BY <2>1, <2>2, <2>4, Kept, ShadowResolveFine
  <2>5. CASE ShadowResolve(r, Shadow(r), TRUE)
    BY <1>0, <2>1, <2>5, Kept, ShadowResolveFine
  <2> QED BY <2>3, <2>4, <2>5
<1> QED BY <1>1, <1>2, <1>3

(* The shadow goes on to its end with its lease resolved.                  *)
LEMMA ShadowEndsFine ==
    ASSUME Typed, NEW r \in Request, Good(r), Running(r),
           NEW a \in {"resolve", "record", "close", "done"}, shadow' = [shadow EXCEPT ![r] = a],
           ShadowOnly(r), ShadowLeg(r)',
           HeldOnly(r), held'[r] \subseteq held[r],
           a = "done" => "shadow_stream" \notin held'[r],
           a # "done" \/ "shadow_permit" \notin held'[r] \/ "shadow_permit" \in hist'[r].cut,
           KillOnly(r), HistOnly(r), hist[r].cut \subseteq hist'[r].cut,
           hist'[r].sends = hist[r].sends, hist'[r].result = hist[r].result,
           Owing(r)', Slots(r)', life' \in [Request -> Life],
           \A q \in Request \ {r} : life'[q] = life[q], life'[r].state = life[r].state,
           life'[r].outcome = life[r].outcome,
           UNCHANGED <<pc, plan, unwind, reply, timer, app, trouble>>
    PROVE  Fine(r)
<1>1. Typed'
  BY DEF Typed, ShadowPoint, ShadowOnly, HeldOnly, KillOnly, HistOnly
<1>2. Local(r)
  BY DEF Typed, Local, ShadowOnly, HeldOnly, KillOnly, HistOnly
<1>3. shadow'[r] = a /\ call'[r].main = call[r].main
  BY DEF Typed, ShadowOnly
<1> USE DEF Good, MainLeg, Replies, Results, ShadowLate, Unwinding, Cancelling, Holding,
            Main, Open, Running, InAttempt
<1>4. (MainLeg(r) /\ Replies(r) /\ Results(r) /\ ShadowLate(r))'
  BY <1>3
<1>5. (Unwinding(r) /\ Cancelling(r) /\ Holding(r))'
  BY <1>3
<1> QED BY <1>1, <1>2, <1>4, <1>5 DEF Fine

LEMMA ShadowFinishFine ==
    ASSUME Typed, NEW r \in Request, Good(r),
           ShadowRefused(r) \/ ShadowResolved(r) \/ ShadowRecorded(r) \/ ShadowClosed(r)
    PROVE  Fine(r)
<1>a. UNCHANGED life => /\ life' \in [Request -> Life] /\ life'[r] = life[r]
                        /\ \A q \in Request \ {r} : life'[q] = life[q]
  BY DEF Typed
<1>b. UNCHANGED call => ShadowOnly(r) /\ call'[r].shadow = call[r].shadow
  BY DEF Typed, ShadowOnly
<1> USE DEF ShadowLeg, Owing, Slots, Main, Shadow, Open, OwesMain, OwesShadow, Excused
<1>1. CASE ShadowRefused(r)
  <2>1. /\ shadow[r] = "acquire" /\ ~kill[r] /\ shadow' = [shadow EXCEPT ![r] = "close"]
        /\ UNCHANGED <<pc, kill, held, call, plan, unwind, life, reply, timer, app, trouble, hist>>
    BY <1>1 DEF ShadowRefused, Awake, ShadowAt
  <2>2. shadow'[r] = "close" /\ Running(r)
    BY <2>1 DEF Typed, Running
  <2>3. ShadowLeg(r)' /\ Owing(r)'
    BY <2>1, <2>2 DEF Good
  <2>4. Ahead(r)' = Ahead(r)
    BY <2>1 DEF Ahead
  <2>5. Slots(r)'
    BY <2>1, <2>2, <2>4 DEF Good
  <2> QED BY <1>a, <1>b, <2>1, <2>2, <2>3, <2>5, Kept, ShadowEndsFine
<1>2. CASE ShadowResolved(r)
  <2>1. PICK a \in {"close", "record"} : /\ shadow' = [shadow EXCEPT ![r] = a]
                                         /\ a = "close" => "shadow_record" \in hist[r].cut
    BY <1>2 DEF ShadowResolved, ShadowAt
  <2>2. /\ shadow[r] = "resolve" /\ Running(r)
        /\ UNCHANGED <<pc, kill, held, plan, unwind, life, reply, timer, app, trouble, hist>>
    BY <1>2 DEF ShadowResolved, Running
  <2>3. PICK d \in Leg : /\ call' = [call EXCEPT ![r].shadow = d]
                         /\ d.lease \in {"released", "kept"}
                         /\ d.lease = "released" => call[r].shadow.lease = "releasing"
                         /\ d.provider = call[r].shadow.provider
                         /\ d.reserved = call[r].shadow.reserved
    <3>1. call[r].shadow \in Leg /\ call[r].shadow.lease \in {"keeping", "releasing"}
      BY <2>2 DEF Typed, Good
    <3>2. PICK l \in {"released", "kept"} : /\ l = Lease(call[r].shadow.lease = "keeping")
                                            /\ l = "released" => call[r].shadow.lease = "releasing"
      BY <3>1 DEF Lease
    <3>3. call' = [call EXCEPT ![r].shadow = Leasing(call[r].shadow, l)]
      BY <1>2, <3>2 DEF ShadowResolved, SetShadow, Leasing
    <3>4. PICK d \in Leg : /\ d = Leasing(call[r].shadow, l) /\ d.lease = l
                           /\ d.provider = call[r].shadow.provider
                           /\ d.reserved = call[r].shadow.reserved
      BY <3>1, LegUpdates
    <3> QED BY <3>2, <3>3, <3>4
  <2>4. ShadowOnly(r) /\ call'[r].shadow = d
    BY <2>3, ShadowSet
  <2>5. shadow'[r] = a /\ call'[r].main = call[r].main
    BY <2>1, <2>4 DEF Typed, ShadowOnly
  <2>6. ShadowLeg(r)'
    BY <2>2, <2>3, <2>4, <2>5 DEF Good
  <2>7. Owing(r)'
    BY <2>1, <2>2, <2>3, <2>4, <2>5 DEF Good
  <2>8. Ahead(r)' = Ahead(r)
    BY <2>2 DEF Ahead
  <2>9. Slots(r)'
    BY <2>2, <2>5, <2>8 DEF Good
  <2> QED BY <1>a, <2>1, <2>2, <2>4, <2>6, <2>7, <2>9, Kept, ShadowEndsFine
<1>3. CASE ShadowRecorded(r)
  <2>1. /\ shadow[r] = "record" /\ shadow' = [shadow EXCEPT ![r] = "close"]
        /\ UNCHANGED <<pc, kill, held, call, plan, unwind, reply, timer, app, trouble, hist>>
    BY <1>3 DEF ShadowRecorded, Awake, ShadowAt
  <2>2. shadow'[r] = "close" /\ Running(r)
    BY <2>1 DEF Typed, Running
  <2>3. ShadowLeg(r)'
    BY <2>1, <2>2 DEF Good
  <2>4. Ahead(r)' = Ahead(r) /\ Ahead(r) \in Int
    BY <2>1, Numbers DEF Ahead
  <2>5. CASE Shadow(r).reserved /\ Open(r)
    <3>1. PICK l \in Life : /\ life' = [life EXCEPT ![r] = l]
                            /\ l.state = life[r].state /\ l.outcome = life[r].outcome
                            /\ l.left = life[r].left - 1 /\ l.pend = life[r].pend - 1
      BY <1>3, <2>5, BegunLife DEF ShadowRecorded
    <3>2. /\ life' \in [Request -> Life] /\ life'[r] = l
          /\ \A q \in Request \ {r} : life'[q] = life[q]
      BY <3>1 DEF Typed
    <3>3. Owing(r)'
      BY <2>1, <2>2, <2>5, <3>1, <3>2, Numbers DEF Good
    <3>4. Slots(r)'
      BY <2>1, <2>2, <2>4, <3>1, <3>2, Numbers DEF Good
    <3> QED BY <1>b, <2>1, <2>2, <2>3, <3>1, <3>2, <3>3, <3>4, Kept, ShadowEndsFine
  <2>6. CASE ~(Shadow(r).reserved /\ Open(r))
    <3>1. UNCHANGED life
      BY <1>3, <2>6 DEF ShadowRecorded
    <3>2. Owing(r)'
      BY <2>1, <2>2, <2>6, <3>1 DEF Good
    <3>3. Slots(r)'
      BY <2>1, <2>2, <2>4, <3>1 DEF Good
    <3> QED BY <1>a, <1>b, <2>1, <2>2, <2>3, <3>1, <3>2, <3>3, Kept, ShadowEndsFine
  <2> QED BY <2>5, <2>6
<1>4. CASE ShadowClosed(r)
  <2>1. /\ shadow[r] = "close" /\ shadow' = [shadow EXCEPT ![r] = "done"]
        /\ held' = [held EXCEPT ![r] = held[r] \ {"shadow_stream", "shadow_permit"}]
        /\ call' = [call EXCEPT ![r].shadow = Gone(call[r].shadow)]
        /\ UNCHANGED <<pc, kill, plan, unwind, life, reply, timer, app, trouble, hist>>
    BY <1>4 DEF ShadowClosed, Awake, ShadowAt, SetShadow, Typed
  <2>2. PICK d \in Leg : d = Gone(call[r].shadow) /\ d.lease = "none"
    <3>1. call[r].shadow \in Leg /\ call[r].shadow.lease \in {"none", "released", "kept"}
      BY <2>1 DEF Typed, Good
    <3> QED BY <3>1, LegValues
  <2>3. ShadowOnly(r) /\ call'[r].shadow = d
    <3>1. call' = [call EXCEPT ![r].shadow = d]
      BY <2>1, <2>2
    <3> QED BY <3>1, ShadowSet
  <2>4. shadow'[r] = "done" /\ Running(r) /\ call'[r].main = call[r].main
    BY <2>1, <2>3 DEF Typed, Running, ShadowOnly
  <2>5. HeldOnly(r) /\ held'[r] = held[r] \ {"shadow_stream", "shadow_permit"}
    BY <2>1 DEF Typed, HeldOnly
  <2>6. ShadowLeg(r)' /\ Owing(r)'
    BY <2>1, <2>2, <2>3, <2>4 DEF Good
  <2>7. Ahead(r)' = Ahead(r)
    BY <2>1 DEF Ahead
  <2>8. Slots(r)'
    BY <2>1, <2>4, <2>7 DEF Good
  <2>9. /\ held'[r] \subseteq held[r] /\ "shadow_stream" \notin held'[r]
        /\ "shadow_permit" \notin held'[r]
    BY <2>5
  <2> QED BY <1>a, <2>1, <2>3, <2>4, <2>5, <2>6, <2>8, <2>9, Kept, ShadowEndsFine
<1> QED BY <1>1, <1>2, <1>3, <1>4

LEMMA ShadowCancelledFine ==
    ASSUME Typed, NEW r \in Request, Good(r), ShadowCancelled(r)
    PROVE  Fine(r)
<1>1. /\ Running(r) /\ kill' = [kill EXCEPT ![r] = FALSE]
      /\ UNCHANGED <<pc, plan, unwind, life, reply, timer, app, trouble>>
  BY DEF ShadowCancelled
<1>2. /\ KillOnly(r)
      /\ life' \in [Request -> Life] /\ life'[r] = life[r]
      /\ \A q \in Request \ {r} : life'[q] = life[q]
  BY <1>1, Changed DEF Typed
<1>3. UNCHANGED call => ShadowOnly(r) /\ call'[r].shadow = call[r].shadow
  BY DEF Typed, ShadowOnly
<1> USE DEF ShadowLeg, Owing, Slots, Main, Shadow, Open, OwesMain, OwesShadow, Excused
<1>4. CASE shadow[r] = "acquire" /\ ShadowAt(r, "close") /\ UNCHANGED <<held, call, hist>>
  <2>1. shadow' = [shadow EXCEPT ![r] = "close"] /\ shadow'[r] = "close"
    BY <1>4 DEF ShadowAt, Typed
  <2>2. ShadowLeg(r)' /\ Owing(r)'
    BY <1>1, <1>4, <2>1 DEF Good
  <2>3. Ahead(r)' = Ahead(r)
    BY <1>1, <1>4 DEF Ahead
  <2>4. Slots(r)'
    BY <1>1, <1>4, <2>1, <2>3 DEF Good
  <2> QED BY <1>1, <1>2, <1>3, <1>4, <2>1, <2>2, <2>4, Kept, ShadowEndsFine
<1>5. CASE /\ shadow[r] \in {"prepare", "send", "drain"}
           /\ ShadowResolve(r, Shadow(r), Shadow(r).sent) /\ UNCHANGED <<held, hist>>
  <2>1. /\ Shadow(r) \in Leg /\ Shadow(r).sent \in BOOLEAN
        /\ Shadow(r).sent \/ Shadow(r).provider # "running"
    <3>1. Shadow(r) \in Leg
      BY DEF Typed
    <3> QED BY <1>5, <3>1 DEF Good, Leg
  <2> HIDE DEF Shadow
  <2> QED BY <1>1, <1>2, <1>5, <2>1, Kept, ShadowResolveFine
<1>6. CASE /\ shadow[r] = "resolve" /\ Lost(r, {"shadow_record"})
           /\ UNCHANGED <<shadow, held, call>>
  <2>1. shadow' = [shadow EXCEPT ![r] = "resolve"]
    BY <1>6 DEF Typed
  <2>2. /\ HistOnly(r) /\ hist'[r].cut = hist[r].cut \cup {"shadow_record"}
        /\ hist'[r].sends = hist[r].sends /\ hist'[r].result = hist[r].result
    <3>1. {"shadow_record"} \in SUBSET Cut
      BY DEF Cut
    <3> QED BY <1>6, <3>1, LostHist
  <2>3. ShadowLeg(r)' /\ Owing(r)'
    BY <1>1, <1>6, <2>2 DEF Good
  <2>4. Ahead(r)' = Ahead(r)
    BY <1>1, <2>2 DEF Ahead
  <2>5. Slots(r)'
    BY <1>1, <1>6, <2>2, <2>4 DEF Good
  <2>6. hist[r].cut \subseteq hist'[r].cut
    BY <2>2
  <2> QED BY <1>1, <1>2, <1>3, <1>6, <2>1, <2>2, <2>3, <2>5, <2>6, Kept, ShadowEndsFine
<1>7. CASE shadow[r] = "record" /\ UNCHANGED <<shadow, held, call, hist>>
  <2>1. shadow' = [shadow EXCEPT ![r] = "record"]
    BY <1>7 DEF Typed
  <2>2. ShadowLeg(r)' /\ Owing(r)'
    BY <1>1, <1>7 DEF Good
  <2>3. Ahead(r)' = Ahead(r)
    BY <1>1, <1>7 DEF Ahead
  <2>4. Slots(r)'
    BY <1>1, <1>7, <2>3 DEF Good
  <2> QED BY <1>1, <1>2, <1>3, <1>7, <2>1, <2>2, <2>4, Kept, ShadowEndsFine
<1>8. CASE /\ shadow[r] = "close" /\ ShadowAt(r, "done") /\ SetShadow(r, Gone(Shadow(r)))
           /\ IF "shadow_stream" \in held[r]
              THEN /\ held' = [held EXCEPT ![r] = @ \ {"shadow_stream"}]
                   /\ Lost(r, {"shadow_permit"})
              ELSE held' = [held EXCEPT ![r] = @ \ {"shadow_permit"}] /\ UNCHANGED hist
  <2>1. shadow' = [shadow EXCEPT ![r] = "done"] /\ shadow'[r] = "done"
    BY <1>8 DEF ShadowAt, Typed
  <2>2. PICK d \in Leg : d = Gone(call[r].shadow) /\ d.lease = "none"
    <3>1. call[r].shadow \in Leg /\ call[r].shadow.lease \in {"none", "released", "kept"}
      BY <1>8 DEF Typed, Good
    <3> QED BY <3>1, LegValues
  <2>3. ShadowOnly(r) /\ call'[r].shadow = d
    <3>1. call' = [call EXCEPT ![r].shadow = d]
      BY <1>8, <2>2 DEF SetShadow
    <3> QED BY <3>1, ShadowSet
  <2>4. /\ HistOnly(r) /\ hist[r].cut \subseteq hist'[r].cut
        /\ hist'[r].sends = hist[r].sends /\ hist'[r].result = hist[r].result
        /\ HeldOnly(r) /\ held'[r] \subseteq held[r] /\ "shadow_stream" \notin held'[r]
        /\ "shadow_permit" \notin held'[r] \/ "shadow_permit" \in hist'[r].cut
    <3>1. CASE "shadow_stream" \in held[r]
      <4>1. held' = [held EXCEPT ![r] = held[r] \ {"shadow_stream"}] /\ Lost(r, {"shadow_permit"})
        BY <1>8, <3>1 DEF Typed
      <4>2. HeldOnly(r) /\ held'[r] = held[r] \ {"shadow_stream"}
        BY <4>1 DEF Typed, HeldOnly
      <4>3. {"shadow_permit"} \in SUBSET Cut
        BY DEF Cut, Resource
      <4>4. /\ HistOnly(r) /\ hist'[r].cut = hist[r].cut \cup {"shadow_permit"}
            /\ hist'[r].sends = hist[r].sends /\ hist'[r].result = hist[r].result
        BY <4>1, <4>3, LostHist
      <4> QED BY <4>2, <4>4
    <3>2. CASE "shadow_stream" \notin held[r]
      <4>1. held' = [held EXCEPT ![r] = held[r] \ {"shadow_permit"}] /\ UNCHANGED hist
        BY <1>8, <3>2 DEF Typed
      <4>2. HeldOnly(r) /\ held'[r] = held[r] \ {"shadow_permit"}
        BY <4>1 DEF Typed, HeldOnly
      <4> QED BY <3>2, <4>1, <4>2, Kept
    <3> QED BY <3>1, <3>2
  <2>5. call'[r].main = call[r].main
    BY <2>3 DEF ShadowOnly
  <2>6. ShadowLeg(r)' /\ Owing(r)'
    BY <1>1, <1>8, <2>1, <2>2, <2>3, <2>4, <2>5 DEF Good
  <2>7. Ahead(r)' = Ahead(r)
    BY <1>1, <2>4 DEF Ahead
  <2>8. Slots(r)'
    BY <1>1, <1>8, <2>1, <2>4, <2>7 DEF Good
  <2> QED BY <1>1, <1>2, <2>1, <2>3, <2>4, <2>6, <2>8, ShadowEndsFine
<1> QED BY <1>4, <1>5, <1>6, <1>7, <1>8 DEF ShadowCancelled

-----------------------------------------------------------------------------
(* Every step of a request.                                                *)
LEMMA StepFine ==
    ASSUME Typed, NEW r \in Request, Good(r),
           Arrive(r) \/ Serve(r) \/ ShadowTask(r) \/ Expire(r) \/ ServerCancels(r)
    PROVE  Fine(r)
<1>1. CASE Arrive(r)
  BY <1>1, ArriveFine
<1>2. CASE Serve(r)
  <2>1. Prepared(r) => (Prepared(r) /\ app = "open") \/ (Prepared(r) /\ app # "open")
    OBVIOUS
  <2> QED BY <1>2, <2>1, ReceiveFine, HandlerFine, LeaseFine, AttemptEnds, AttemptRuns, ResolvedFine,
             RecordedFine, ClosedFine, ReleaseFine DEF Serve
<1>3. CASE ShadowTask(r)
  BY <1>3, ShadowLeasedFine, ShadowRunsFine, ShadowFinishFine, ShadowCancelledFine DEF ShadowTask
<1>4. CASE Expire(r)
  <2>1. /\ InCourse(r) \/ InHandler(r)
        /\ timer' = [timer EXCEPT ![r] = "expired"] /\ UNCHANGED <<shadow, call, life, app, trouble>>
    BY <1>4 DEF Expire
  <2>2. Clocks
    BY <2>1 DEF Clocks, Typed
  <2> QED BY <2>1, <2>2, CourseFine
<1>5. CASE ServerCancels(r)
  <2>1. trouble' = trouble + 1 /\ UNCHANGED <<shadow, life, app>>
    BY <1>5 DEF ServerCancels
  <2>2. trouble' \in Nat
    BY <2>1 DEF Typed
  <2>3. CASE (InCourse(r) \/ InHandler(r)) /\ UNCHANGED <<call, timer>>
    <3>1. Clocks
      BY <2>2, <2>3 DEF Clocks, Typed
    <3> QED BY <2>1, <2>3, <3>1, CourseFine
  <2>4. CASE InFinally(r)
    BY <2>1, <2>2, <2>4, ReleaseFine
  <2> QED BY <1>5, <2>3, <2>4 DEF ServerCancels
<1> QED BY <1>1, <1>2, <1>3, <1>4, <1>5

(* ... which leaves the others as they are.                                *)
LEMMA OthersGood ==
    ASSUME NEW r \in Request, Local(r), NEW q \in Request \ {r}, Good(q)
    PROVE  Good(q)'
<1>1. /\ pc'[q] = pc[q] /\ shadow'[q] = shadow[q] /\ kill'[q] = kill[q]
      /\ held'[q] = held[q] /\ call'[q] = call[q] /\ plan'[q] = plan[q]
      /\ unwind'[q] = unwind[q] /\ life'[q] = life[q] /\ reply'[q] = reply[q]
      /\ hist'[q] = hist[q] /\ app' = app
  BY DEF Local
<1>2. Ahead(q)' = Ahead(q)
  BY <1>1 DEF Ahead
<1>3. (MainLeg(q) /\ ShadowLeg(q) /\ Replies(q) /\ Results(q) /\ ShadowLate(q))'
  BY <1>1 DEF Good, MainLeg, ShadowLeg, Replies, Results, ShadowLate, Main, Shadow, InAttempt
<1>4. (Unwinding(q) /\ Cancelling(q) /\ Holding(q))'
  BY <1>1 DEF Good, Unwinding, Cancelling, Holding, Running, Open
<1>5. (Owing(q) /\ Slots(q))'
  BY <1>1, <1>2 DEF Good, Owing, Slots, Main, Shadow, Open, OwesMain, OwesShadow, Excused
<1> QED BY <1>3, <1>4, <1>5 DEF Good

(* aclose: every reservation is closed, every request excused.             *)
LEMMA CloseGood ==
    ASSUME Typed, AllGood, CloseHttp \/ CloseLifecycles
    PROVE  Typed' /\ AllGood'
<1> USE DEF Good, MainLeg, ShadowLeg, Replies, Results, ShadowLate, Unwinding, Cancelling, Holding,
            Owing, Slots, Main, Shadow, Open, Running, InAttempt, OwesMain, OwesShadow, Excused
<1>1. CASE CloseHttp
  <2>1. /\ app = "open" /\ app' = "nohttp" /\ trouble' = trouble + 2
        /\ UNCHANGED <<pc, shadow, kill, held, call, plan, unwind, life, reply, timer, hist>>
    BY <1>1 DEF CloseHttp
  <2>2. Typed'
    BY <2>1 DEF Typed
  <2>3. ASSUME NEW q \in Request PROVE Good(q)'
    <3>1. Ahead(q)' = Ahead(q)
      BY <2>1 DEF Ahead
    <3> QED BY <2>1, <3>1 DEF AllGood
  <2> QED BY <2>2, <2>3 DEF AllGood
<1>2. CASE CloseLifecycles
  <2>1. /\ app' = "closed" /\ life' = [r \in Request |-> Unreserved(r)]
        /\ UNCHANGED <<pc, shadow, kill, held, call, plan, unwind, reply, timer, trouble, hist>>
    BY <1>2 DEF CloseLifecycles
  <2>2. \A q \in Request : /\ life'[q] \in Life /\ life'[q].state # "open"
    BY <2>1, UnreservedLife
  <2>3. Typed'
    BY <2>1, <2>2 DEF Typed
  <2>4. ASSUME NEW q \in Request PROVE Good(q)'
    <3>1. Ahead(q)' = Ahead(q)
      BY <2>1 DEF Ahead
    <3> QED BY <2>1, <2>2, <3>1 DEF AllGood
  <2> QED BY <2>3, <2>4 DEF AllGood
<1> QED BY <1>1, <1>2

LEMMA InitGood == Init => Typed /\ AllGood
<1> SUFFICES ASSUME Init PROVE Typed /\ AllGood
  OBVIOUS
<1>1. [state |-> "none", left |-> 0, pend |-> 0, outcome |-> "none"] \in Life
  BY DEF Life, Outcome
<1>2. [sends |-> 0, result |-> "none", cut |-> {}] \in [sends : Nat, result : Outcome, cut : SUBSET Cut]
  BY DEF Outcome
<1>3. Typed
  BY <1>1, <1>2, LegValues, PlanValues DEF Init, Typed, Point, ShadowPoint
<1>4. ASSUME NEW r \in Request PROVE Good(r)
  <2>1. /\ pc[r] = "new" /\ shadow[r] = "off" /\ held[r] = {} /\ unwind[r] = "none"
        /\ life[r].state = "none" /\ life[r].pend = 0 /\ reply[r] = "none"
        /\ hist[r].sends = 0 /\ call[r].main.lease = "none" /\ call[r].shadow.lease = "none"
    BY LegValues DEF Init
  <2> QED BY <2>1, Numbers, <1>3
          DEF Good, MainLeg, ShadowLeg, Replies, Results, ShadowLate, Unwinding, Cancelling, Holding,
              Owing, Slots, Main, Shadow, Open, Running, InAttempt, OwesMain, OwesShadow, Excused
<1> QED BY <1>3, <1>4 DEF AllGood

LEMMA NextGood ==
    ASSUME Typed, AllGood, [Next]_vars
    PROVE  Typed' /\ AllGood'
<1>1. ASSUME NEW r \in Request,
             Arrive(r) \/ Serve(r) \/ ShadowTask(r) \/ Expire(r) \/ ServerCancels(r)
      PROVE  Typed' /\ AllGood'
  <2>1. Fine(r)
    BY <1>1, StepFine DEF AllGood
  <2>2. \A q \in Request \ {r} : Good(q)'
    BY <2>1, OthersGood DEF Fine, AllGood
  <2> QED BY <2>1, <2>2 DEF Fine, AllGood
<1>2. CASE CloseHttp \/ CloseLifecycles
  BY <1>2, CloseGood
<1>3. CASE UNCHANGED vars
  <2>1. Typed'
    BY <1>3 DEF vars, Typed
  <2>2. ASSUME NEW r \in Request PROVE Good(r)'
    <3>1. Ahead(r)' = Ahead(r)
      BY <1>3 DEF vars, Ahead
    <3> QED BY <1>3, <3>1
          DEF vars, AllGood, Good, MainLeg, ShadowLeg, Replies, Results, ShadowLate, Unwinding,
              Cancelling, Holding, Owing, Slots, Main, Shadow, Open, Running, InAttempt, OwesMain,
              OwesShadow, Excused
  <2> QED BY <2>1, <2>2 DEF AllGood
<1> QED BY <1>1, <1>2, <1>3 DEF Next

LEMMA AlwaysGood == Spec => [](Typed /\ AllGood)
<1>1. Init => Typed /\ AllGood
  BY InitGood
<1>2. (Typed /\ AllGood) /\ [Next]_vars => (Typed /\ AllGood)'
  BY NextGood
<1> QED BY <1>1, <1>2, PTL DEF Spec

-----------------------------------------------------------------------------
(* Capacity goes back to an account only when its provider does not run    *)
(* the call: a lease released after finish_async or fail_before_send was   *)
(* never sent, is over, or ran elsewhere, in every interleaving of the     *)
(* attempt, its shadow, the deadline and aclose.                           *)
THEOREM CapacityIsHonest == Spec => []CapacityHonest
<1>1. Typed /\ AllGood => CapacityHonest
  <2> SUFFICES ASSUME AllGood, NEW r \in Request, NEW c \in {"main", "shadow"}
               PROVE  call[r][c].lease = "released" => call[r][c].provider # "running"
    BY DEF CapacityHonest
  <2>1. Good(r)
    BY DEF AllGood
  <2>2. CASE c = "main"
    BY <2>1, <2>2 DEF Good, MainLeg, Main
  <2>3. CASE c = "shadow"
    BY <2>1, <2>3 DEF Good, ShadowLeg, Shadow
  <2> QED BY <2>2, <2>3
<1> QED BY <1>1, AlwaysGood, PTL

(* A request that is over has given back its permits, quotas, responses,   *)
(* reservation and leases, whatever path _http and _attempt took, but for  *)
(* what a cancellation in a close or in the finally has cut off.           *)
THEOREM EverythingReturned == Spec => []Returned
<1>1. Typed /\ AllGood => Returned
  <2> SUFFICES ASSUME Typed, AllGood, NEW r \in Request, pc[r] = "done"
               PROVE  /\ held[r] \subseteq hist[r].cut
                      /\ life[r].state = "open" => "life" \in hist[r].cut
                      /\ Running(r) => "shadow" \in hist[r].cut
                      /\ Main(r).lease # "open"
                      /\ Shadow(r).lease \in {"none", "released", "kept"} \/ "shadow" \in hist[r].cut
    BY DEF Returned
  <2>1. MainLeg(r) /\ ShadowLeg(r) /\ Holding(r)
    BY DEF AllGood, Good
  <2>2. Main(r).lease # "open"
    BY <2>1 DEF MainLeg, InAttempt
  <2>3. ~Running(r) => Shadow(r).lease \in {"none", "released", "kept"}
    BY <2>1 DEF ShadowLeg, Running
  <2> QED BY <2>1, <2>2, <2>3 DEF Holding
<1> QED BY <1>1, AlwaysGood, PTL

(* A terminal request has the resolution of every attempt it reserved in   *)
(* its events, unless aclose or a cancellation between the two excuses it. *)
THEOREM EventsPaired == Spec => []Paired
<1>1. Typed /\ AllGood => Paired
  BY DEF AllGood, Good, Owing, Paired, Excused
<1> QED BY <1>1, AlwaysGood, PTL

(* The events reserved at admission (lifecycle_events) suffice for every   *)
(* attempt and the shadow the request may still start.                     *)
THEOREM ReservationSuffices == Spec => []SlotsSuffice
<1>1. Typed /\ AllGood => SlotsSuffice
  <2> SUFFICES ASSUME Typed, AllGood, NEW r \in Request, Open(r)
               PROVE  /\ life[r].left > life[r].pend
                      /\ pc[r] = "permit" \/ (shadow[r] = "acquire" /\ HasShadow[r])
                            => life[r].left >= 3
    BY DEF SlotsSuffice
  <2>1. Slots(r) /\ life[r].pend >= 0
    BY DEF AllGood, Good, Owing
  <2>2. Ahead(r) \in Nat /\ (pc[r] = "permit" => Ahead(r) >= 1)
    BY <2>1, Numbers DEF Slots, Ahead
  <2> QED BY <2>1, <2>2, Numbers DEF Slots
<1> QED BY <1>1, AlwaysGood, PTL

(* Once a response has started, no call of the request is sent any more.   *)
LEMMA SentBefore ==
    ASSUME Typed, NEW r \in Request, Good(r),
           Arrive(r) \/ Serve(r) \/ ShadowTask(r) \/ Expire(r) \/ ServerCancels(r),
           Main(r)'.sent, ~Main(r).sent
    PROVE  reply[r] = "none"
<1>1. SUFFICES ASSUME pc[r] \notin {"new", "body", "profile", "acquire", "permit", "prepare", "send",
                                    "error_body"}
               PROVE  FALSE
  BY DEF Good, Replies
<1>2. call' # call
  BY DEF Main
<1>3. RelayDone(r) \/ Resolved(r) \/ Released(r) \/ InFinally(r) \/ ShadowTask(r)
  BY <1>1, <1>2
     DEF Arrive, TurnedAway, Unauthenticated, Admit, Serve, BodyRead, BodyRefused, Profiled,
         ProfileFails, Unroutable, Leased, TakePermit, Prepared, PrepareFails, ConnectFails,
         TransportFails, Refused, Headers, ErrorRead, Mismatched, Accepted, RelayStart, RelayFails,
         Recorded, Answered, Closed, Settled, Cancelled, Replied, Expire, ServerCancels
<1>4. CASE RelayDone(r)
  <2>1. call' = [call EXCEPT ![r].main = Provided(call[r].main, "ended")]
    BY <1>4 DEF RelayDone, SetMain, Main, Provided
  <2> QED BY <2>1, MainProvided DEF Main
<1>5. CASE Resolved(r)
  <2>1. PICK l \in {"released", "kept"} : l = Lease(plan[r].uncertain)
    BY DEF Lease
  <2>2. call' = [call EXCEPT ![r].main = Leasing(call[r].main, l)]
    BY <1>5, <2>1 DEF Resolved, SetMain, Leasing, Main
  <2> QED BY <2>2, MainLeased DEF Main
<1>6. CASE Released(r) \/ InFinally(r)
  <2>1. call' = [call EXCEPT ![r].main = Gone(call[r].main)]
    BY <1>6 DEF Released, InFinally, Ends, Typed
  <2>2. PICK g \in Leg : g = Gone(call[r].main) /\ (g.sent => call[r].main.sent)
    <3>1. call[r].main \in Leg
      BY DEF Typed
    <3> QED BY <3>1, LegValues
  <2>3. call' = [call EXCEPT ![r].main = g]
    BY <2>1, <2>2
  <2> QED BY <2>2, <2>3, MainSet DEF Main
<1>7. CASE ShadowTask(r)
  <2>1. \E c : call' = [call EXCEPT ![r].shadow = c]
    BY <1>2, <1>7
       DEF ShadowTask, ShadowLeased, ShadowRefused, ShadowSent, ShadowAnswered, ShadowDrained,
           ShadowResolved, ShadowRecorded, ShadowClosed, ShadowCancelled, ShadowResolve, SetShadow
  <2>2. call'[r].main = call[r].main
    BY <2>1 DEF Typed
  <2> QED BY <2>2 DEF Main
<1> QED BY <1>3, <1>4, <1>5, <1>6, <1>7

(* No fallback after response bytes (the alternate of _attempt).           *)
THEOREM NoReplayAfterStart == Spec => NoReplay
<1>1. Typed /\ AllGood /\ [Next]_vars =>
         [\A r \in Request : Main(r)'.sent /\ ~Main(r).sent => reply[r] = "none"]_vars
  <2> SUFFICES ASSUME Typed, AllGood, Next, NEW q \in Request, Main(q)'.sent, ~Main(q).sent
               PROVE  reply[q] = "none"
    OBVIOUS
  <2>1. CASE CloseHttp \/ CloseLifecycles
    BY <2>1 DEF CloseHttp, CloseLifecycles, Main
  <2>2. ASSUME NEW r \in Request,
               Arrive(r) \/ Serve(r) \/ ShadowTask(r) \/ Expire(r) \/ ServerCancels(r)
        PROVE  reply[q] = "none"
    <3>1. CASE q = r
      BY <2>2, <3>1, SentBefore DEF AllGood
    <3>2. CASE q # r
      <4>1. Local(r)
        BY <2>2, StepFine DEF Fine, AllGood
      <4> QED BY <3>2, <4>1 DEF Local, Main
    <3> QED BY <3>1, <3>2
  <2> QED BY <2>1, <2>2 DEF Next
<1> QED BY <1>1, AlwaysGood, PTL DEF Spec, NoReplay

-----------------------------------------------------------------------------
(* The limits.  A step of one request adds at most one user of a resource, *)
(* and only when its guard has seen room.                                  *)
Gains(r, res) == res \in held'[r] /\ res \notin held[r]

Roomy(r) ==
    /\ Gains(r, "inbound") => Users("inbound") < Inbound
    /\ Gains(r, "preauth") => Users("preauth") < Preauth
    /\ Gains(r, "reader") => Users("reader") < Readers
    /\ Gains(r, "body") => Users("body") < Retained
    /\ Gains(r, "permit") \/ Gains(r, "shadow_permit") => PermitsUsed < Permits
    /\ ~(Gains(r, "permit") /\ Gains(r, "shadow_permit"))

LEMMA UsersStep ==
    ASSUME NEW r \in Request, Local(r), NEW res
    PROVE  /\ Users(res) \in Nat /\ Users(res)' \in Nat
           /\ Users(res)' <= Users(res) + 1
           /\ ~Gains(r, res) => Users(res)' <= Users(res)
<1> DEFINE S == {q \in Request : res \in held[q]}
           T == {q \in Request : res \in held'[q]}
<1>1. IsFiniteSet(S) /\ IsFiniteSet(T)
  BY LifecycleAssumption, FS_Subset
<1>2. T \subseteq S \cup {r} /\ (~Gains(r, res) => T \subseteq S)
  BY DEF Local, Gains
<1>3. Cardinality(S) \in Nat /\ Cardinality(T) \in Nat
  BY <1>1, FS_CardinalityType
<1>4. /\ IsFiniteSet(S \cup {r}) /\ Cardinality(S \cup {r}) \in Nat
      /\ Cardinality(S \cup {r}) <= Cardinality(S) + 1
  <2> HIDE DEF S, T
  <2>1. /\ IsFiniteSet(S \cup {r})
        /\ Cardinality(S \cup {r}) = IF r \in S THEN Cardinality(S) ELSE Cardinality(S) + 1
    BY <1>1, FS_AddElement
  <2> QED BY <1>3, <2>1
<1>5. Cardinality(T) <= Cardinality(S \cup {r})
  <2> HIDE DEF S, T
  <2> QED BY <1>2, <1>4, FS_Subset
<1>6. ~Gains(r, res) => Cardinality(T) <= Cardinality(S)
  <2> HIDE DEF S, T
  <2> QED BY <1>1, <1>2, FS_Subset
<1>7. Users(res) = Cardinality(S) /\ Users(res)' = Cardinality(T)
  BY DEF Users
<1> HIDE DEF S, T
<1> QED BY <1>3, <1>4, <1>5, <1>6, <1>7

LEMMA StepRoomy ==
    ASSUME Typed, NEW r \in Request,
           Arrive(r) \/ Serve(r) \/ ShadowTask(r) \/ Expire(r) \/ ServerCancels(r)
    PROVE  Roomy(r)
<1> USE DEF Roomy, Gains
<1>0. held'[r] \subseteq held[r] \cup {"stream", "shadow_stream"} => Roomy(r)
  OBVIOUS
<1>a. ASSUME NEW h, held' = [held EXCEPT ![r] = h] PROVE held'[r] = h
  BY <1>a DEF Typed
<1>1. CASE TurnedAway(r)
  <2>1. PICK h : /\ held' = [held EXCEPT ![r] = h] /\ h \subseteq {"inbound"}
                 /\ h # {} => Users("inbound") < Inbound
    BY <1>1 DEF TurnedAway
  <2> QED BY <2>1, <1>a
<1>2. CASE Unauthenticated(r)
  <2>1. held'[r] = {"inbound", "preauth"}
    BY <1>2, <1>a DEF Unauthenticated
  <2> QED BY <1>2, <2>1 DEF Unauthenticated
<1>3. CASE Admit(r)
  <2>1. held'[r] = {"inbound"} \/ (held'[r] = {"inbound", "reader"} /\ ReaderFree)
    BY <1>3 DEF Admit, Typed
  <2> QED BY <1>3, <2>1 DEF Admit, ReaderFree
<1>4. CASE BodyRead(r)
  <2>1. held'[r] = (held[r] \ {"reader"}) \cup {"body"} /\ BodyFits
    BY <1>4 DEF BodyRead, Typed
  <2> QED BY <2>1 DEF BodyFits
<1>5. CASE Leased(r) \/ TakePermit(r)
  <2>1. held'[r] = held[r] \/ (held'[r] = held[r] \cup {"permit"} /\ PermitFree)
    BY <1>5 DEF Leased, TakePermit, Typed
  <2> QED BY <2>1 DEF PermitFree
<1>6. CASE Accepted(r)
  <2>1. \/ held'[r] = held[r] \cup {"stream"}
        \/ held'[r] = held[r] \cup {"stream", "shadow_permit"} /\ PermitFree
    BY <1>6 DEF Accepted, ShadowPermit, Typed
  <2> QED BY <2>1 DEF PermitFree
<1>7. CASE UNCHANGED held
  BY <1>7
<1>8. CASE Refused(r) \/ Mismatched(r)
  <2>1. held'[r] = held[r] \cup {"stream"}
    BY <1>8 DEF Refused, Mismatched, Typed
  <2> QED BY <2>1
<1>9. CASE BodyRefused(r) \/ Closed(r) \/ Released(r)
  <2>1. held'[r] \subseteq held[r]
    BY <1>9 DEF BodyRefused, Closed, Released, Typed
  <2> QED BY <2>1
<1>10. CASE InCourse(r) \/ InHandler(r) \/ InFinally(r)
  <2>1. held'[r] \subseteq held[r]
    BY <1>10 DEF InCourse, InHandler, InFinally, CancelBody, Typed
  <2> QED BY <2>1
<1>11. CASE ShadowAnswered(r) \/ ShadowClosed(r) \/ ShadowCancelled(r)
  <2>1. held'[r] \subseteq held[r] \cup {"shadow_stream"}
    <3>1. CASE ShadowAnswered(r)
      BY <3>1 DEF ShadowAnswered, Typed
    <3>2. CASE ShadowClosed(r)
      BY <3>2 DEF ShadowClosed, Typed
    <3>3. CASE ShadowCancelled(r)
      BY <3>3 DEF ShadowCancelled, Typed
    <3> QED BY <1>11, <3>1, <3>2, <3>3
  <2> QED BY <2>1
<1>12. CASE Serve(r)
  BY <1>12, <1>4, <1>5, <1>6, <1>7, <1>8, <1>9
     DEF Serve, Profiled, ProfileFails, Unroutable, Prepared, PrepareFails, ConnectFails,
         TransportFails, ErrorRead, RelayStart, RelayDone, RelayFails, Resolved, Recorded, Answered,
         Settled, Cancelled, Replied
<1>13. CASE ShadowTask(r)
  BY <1>13, <1>7, <1>11
     DEF ShadowTask, ShadowLeased, ShadowRefused, ShadowSent, ShadowDrained, ShadowResolved,
         ShadowRecorded
<1>14. CASE Expire(r) \/ ServerCancels(r)
  BY <1>14, <1>10 DEF Expire, ServerCancels
<1> QED BY <1>1, <1>2, <1>3, <1>12, <1>13, <1>14 DEF Arrive

Limits ==
    /\ Users("inbound") <= Inbound /\ Users("preauth") <= Preauth
    /\ Users("reader") <= Readers /\ Users("body") <= Retained
    /\ PermitsUsed <= Permits

LEMMA InitLimits == Init => Limits
<1> SUFFICES ASSUME Init PROVE Limits
  OBVIOUS
<1>1. \A res : Users(res) = 0
  <2> SUFFICES ASSUME NEW res PROVE Users(res) = 0
    OBVIOUS
  <2>1. {r \in Request : res \in held[r]} = {}
    BY DEF Init
  <2> QED BY <2>1, FS_EmptySet DEF Users
<1> QED BY <1>1, LifecycleAssumption DEF Limits, PermitsUsed

LEMMA NextLimits ==
    ASSUME Typed, AllGood, Limits, [Next]_vars
    PROVE  Limits'
<1>0. Inbound \in Nat /\ Preauth \in Nat /\ Readers \in Nat /\ Retained \in Nat /\ Permits \in Nat
  BY LifecycleAssumption
<1>1. ASSUME NEW r \in Request,
             Arrive(r) \/ Serve(r) \/ ShadowTask(r) \/ Expire(r) \/ ServerCancels(r)
      PROVE  Limits'
  <2>1. Local(r) /\ Roomy(r)
    BY <1>1, StepFine, StepRoomy DEF Fine, AllGood
  <2>2. \A res : /\ Users(res) \in Nat /\ Users(res)' \in Nat
                 /\ Users(res)' <= Users(res) + 1
                 /\ ~Gains(r, res) => Users(res)' <= Users(res)
    BY <2>1, UsersStep
  <2>3. /\ Users("inbound")' <= Inbound /\ Users("preauth")' <= Preauth
        /\ Users("reader")' <= Readers /\ Users("body")' <= Retained
    BY <1>0, <2>1, <2>2 DEF Limits, Roomy
  <2>4. PermitsUsed' <= Permits
    BY <1>0, <2>1, <2>2 DEF Limits, Roomy, PermitsUsed
  <2> QED BY <2>3, <2>4 DEF Limits
<1>2. CASE CloseHttp \/ CloseLifecycles \/ UNCHANGED vars
  BY <1>2 DEF CloseHttp, CloseLifecycles, vars, Limits, Users, PermitsUsed
<1> QED BY <1>1, <1>2 DEF Next

(* Permits, readers, retained bodies, inbound and pre-auth places never    *)
(* exceed their limits (AttemptPermitPool, IngressController), however     *)
(* many requests there are, and the state keeps its types.                 *)
THEOREM LimitsHold == Spec => []TypeOK
<1>1. Typed /\ Limits => TypeOK
  BY DEF Typed, Limits, TypeOK, Life
<1>2. Typed /\ AllGood /\ Limits /\ [Next]_vars => Limits'
  BY NextLimits
<1> QED BY <1>1, <1>2, InitLimits, AlwaysGood, PTL DEF Spec

=============================================================================
