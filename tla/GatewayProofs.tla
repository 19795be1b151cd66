---------------------------- MODULE GatewayProofs ----------------------------
(***************************************************************************)
(* For any calls, scopes, fallback chains, limits and times: who may leave *)
(* a lease behind, what the transport may rely on, what a cooldown means,  *)
(* what the queue counts, and that the gateway implements LeaseBook.       *)
(***************************************************************************)
EXTENDS ModelGateway, FiniteSetTheorems, TLAPS

\* An acquisition without a sender is one no one will release.
LateLeaky == \A i \in Ids : <<"acquire", i>> \in late => i \in leaky

OwnersInv ==
    /\ TypeOK
    /\ OnlyOwnersHold
    /\ LateLeaky

\* What the lease of a call has left, with what the heartbeat did not plan for:
\* all of it until the first renewal is planned, afterwards half of it and the
\* sleep that is left.
MarginKept ==
    \A c \in Calls : call[c].over < Half =>
      /\ call[c].pc \in {"granted", "secret"} \/ Beats(c, "renewed")
           => lease[Id(c)] + call[c].over >= TTL
      /\ At(c, "call") => lease[Id(c)] + call[c].over >= Half
      /\ Beats(c, "sleep") => lease[Id(c)] + call[c].over >= Half + call[c].timer

\* The first renewal is planned for half a lease.
SleepPlanned ==
    \A c \in Calls : At(c, "secret") => call[c].timer <= TTL \div 2

MarginInv ==
    /\ TypeOK
    /\ MarginKept
    /\ SleepPlanned

\* Where a call has not taken the lease of its group.
Fresh == {"idle", "init", "queued", "sent", "refused"}

\* A lease a call has not taken yet.
Before(i) ==
    \/ i[2] > call[i[1]].grp
    \/ i = Id(i[1]) /\ call[i[1]].pc \in Fresh

\* Such a lease was never held, and no command for it is on its way.
UntakenFresh ==
    \A i \in Ids : Before(i) => /\ lease[i] = 0
                                /\ i \notin spent
                                /\ <<"acquire", i>> \notin late

\* An acquisition is carried out once.
LateFresh ==
    \A i \in Ids : <<"acquire", i>> \in late => lease[i] = 0 /\ i \notin spent

BookInv ==
    /\ TypeOK
    /\ UntakenFresh
    /\ LateFresh

(***************************************************************************)
(* Types.                                                                  *)
(***************************************************************************)
LEMMA HalfTyped == Half \in Nat /\ TTL \div 2 \in Nat /\ TTL = Half + TTL \div 2 /\ Half > 0
BY GatewayAssumption DEF Half

\* A record of a call, with another place, or out of its group.
LEMMA QuietTyped ==
    ASSUME NEW r \in Call, NEW p \in Pcs, NEW x \in Results
    PROVE /\ Quiet(r, p) \in Call
          /\ [r EXCEPT !.prim = x] \in Call
          /\ [Quiet(r, p) EXCEPT !.prim = x] \in Call
          /\ [r EXCEPT !.pc = p] \in Call
          /\ [r EXCEPT !.pc = p, !.el = 0] \in Call
<1>1. 0 \in 0..TTL /\ 0 \in 0..Half /\ 0 \in Nat /\ "off" \in Heartbeats
  BY HalfTyped, GatewayAssumption DEF Heartbeats
<1>2. Quiet(r, p) \in Call
  BY <1>1 DEF Quiet, Call
<1>3. [r EXCEPT !.prim = x] \in Call /\ [Quiet(r, p) EXCEPT !.prim = x] \in Call
  BY <1>2 DEF Call
<1>4. [r EXCEPT !.pc = p] \in Call /\ [r EXCEPT !.pc = p, !.el = 0] \in Call
  BY <1>1 DEF Call
<1>5. QED
  BY <1>2, <1>3, <1>4

LEMMA LeavesTyped ==
    ASSUME NEW r \in Call
    PROVE Ended(r) \in Call /\ NextGroup(r) \in Call /\ AfterLease(r) \in Call
<1>1. \A x \in Call : Ended(x) \in Call
  BY QuietTyped, "ended" \in Pcs, "none" \in Results DEF Ended, Pcs, Results
<1>2. NextGroup(r) \in Call
  <2>1. Quiet(r, "init") \in Call
    BY QuietTyped, "init" \in Pcs, "none" \in Results DEF Pcs, Results
  <2>2. r.grp < Chain => r.grp + 1 \in Groups
    BY GatewayAssumption DEF Call, Groups
  <2>3. r.grp < Chain =>
          [Quiet(r, "init") EXCEPT !.grp = r.grp + 1, !.prim = "none"] \in Call
    BY <2>1, <2>2 DEF Call, Results
  <2>4. QED
    BY <1>1, <2>3 DEF NextGroup
<1>3. QED
  BY <1>1, <1>2 DEF AfterLease

LEMMA ToSleepTyped ==
    ASSUME NEW r \in Call, NEW t \in Nat
    PROVE /\ ToSleep(r) \in Call /\ ToSleep([r EXCEPT !.timer = t]) \in Call
          /\ ToSleep(r).pc = "call" /\ ToSleep(r).grp = r.grp
          /\ ToSleep([r EXCEPT !.timer = t]).pc = "call"
          /\ ToSleep([r EXCEPT !.timer = t]).grp = r.grp
<1>1. \A n \in Nat : Min2(Interval, n) \in Nat
  BY GatewayAssumption DEF Min2
<1>2. 0 \in 0..TTL /\ "sleep" \in Heartbeats /\ "call" \in Pcs
  BY GatewayAssumption DEF Heartbeats, Pcs, Leased
<1>3. \A x \in Call : ToSleep(x) \in Call
  <2> TAKE x \in Call
  <2>1. x.timer \in Nat
    BY DEF Call
  <2>2. QED
    BY <1>1, <1>2, <2>1 DEF ToSleep, Call
<1>4. [r EXCEPT !.timer = t] \in Call
  BY DEF Call
<1>5. \A x \in Call : ToSleep(x).pc = "call" /\ ToSleep(x).grp = x.grp
  BY DEF ToSleep, Call
<1>6. [r EXCEPT !.timer = t].grp = r.grp
  BY DEF Call
<1>7. QED
  BY <1>3, <1>4, <1>5, <1>6

LEMMA SetTyped ==
    ASSUME TypeOK, NEW c \in Calls, NEW r \in Call, Set(c, r)
    PROVE call' \in [Calls -> Call]
BY DEF TypeOK, Set

LEMMA IdTyped ==
    ASSUME TypeOK, NEW c \in Calls
    PROVE /\ call[c] \in Call
          /\ Id(c) \in Ids
          /\ Scope(Id(c)) \in Scopes
          /\ lease[Id(c)] \in 0..TTL
BY GatewayAssumption DEF TypeOK, Call, Id, Ids, Scope, Groups

LEMMA CountdownFacts ==
    \A n \in Nat : /\ Countdown(n) \in Nat
                   /\ n > 0 => Countdown(n) = n - 1
                   /\ n = 0 => Countdown(n) = 0
BY DEF Countdown, Max2

\* The effective limit is between one and the registered limit.
LEMMA EffectiveBounds ==
    ASSUME TypeOK, NEW s \in Scopes, base[s] > 0
    PROVE Effective(s) \in 1..base[s] /\ base[s] \in 1..MaxBase
BY GatewayAssumption DEF TypeOK, Effective, Min2, Max2

\* The scripts keep the types of the records in Redis.
LEMMA AcquireTyped ==
    ASSUME TypeOK, NEW i \in Ids, Acquire(i) \/ Refuse(i)
    PROVE /\ lease' \in [Ids -> 0..TTL]
          /\ eff' \in [Scopes -> 0..MaxBase]
          /\ UNCHANGED <<base, cool, spent>>
<1>1. Scope(i) \in Scopes
  BY GatewayAssumption DEF Ids, Scope, Groups
<1>2. Effective(Scope(i)) \in 0..MaxBase
  BY <1>1, EffectiveBounds, GatewayAssumption DEF TypeOK, Acquire, Refuse
<1>3. QED
  BY <1>2, GatewayAssumption DEF TypeOK, Acquire, Refuse, Grant

LEMMA RenewTyped ==
    ASSUME TypeOK, NEW i \in Ids, Renew(i)
    PROVE lease' \in [Ids -> 0..TTL] /\ UNCHANGED <<spent, base, eff, cool>>
BY GatewayAssumption DEF TypeOK, Renew

LEMMA RemoveTyped ==
    ASSUME TypeOK, NEW i \in Ids, Remove(i)
    PROVE lease' \in [Ids -> 0..TTL] /\ spent' \subseteq Ids
BY GatewayAssumption DEF TypeOK, Remove

LEMMA RecordTyped ==
    ASSUME TypeOK, NEW s \in Scopes, NEW p \in Results, NEW slow \in BOOLEAN,
           RecordOutcome(s, p, slow)
    PROVE /\ eff' \in [Scopes -> 0..MaxBase]
          /\ cool' \in [Scopes -> 0..Cooldown]
          /\ UNCHANGED <<lease, base>>
<1>1. Effective(s) \in 1..base[s] /\ base[s] \in 1..MaxBase
  BY EffectiveBounds DEF RecordOutcome
<1>2. Max2(1, Effective(s) \div 2) \in 0..MaxBase
  BY <1>1, GatewayAssumption DEF Max2
<1>3. Effective(s) < base[s] => Effective(s) + 1 \in 0..MaxBase
  BY <1>1, GatewayAssumption
<1>4. QED
  BY <1>1, <1>2, <1>3, GatewayAssumption DEF TypeOK, RecordOutcome

LEMMA SettledTyped ==
    ASSUME NEW p \in Results, NEW q \in Results
    PROVE Settled(p, q) \in Results
BY DEF Settled

LEMMA LateTyped ==
    ASSUME TypeOK, NEW c \in Calls
    PROVE /\ late \cup LateRenewOf(c) \subseteq {"acquire", "renew"} \X Ids
          /\ late \cup {<<"acquire", Id(c)>>} \subseteq {"acquire", "renew"} \X Ids
          /\ leaky \cup {Id(c)} \subseteq Ids
BY IdTyped DEF TypeOK, LateRenewOf

LEMMA InitTyped == Init => TypeOK
<1> SUFFICES ASSUME Init PROVE TypeOK
  OBVIOUS
<1>1. [pc |-> "idle", grp |-> 1, timer |-> 0, el |-> 0, over |-> 0, hb |-> "off",
       prim |-> "none"] \in Call
  BY HalfTyped, GatewayAssumption DEF Call, Pcs, Groups, Heartbeats, Results
<1>2. QED
  BY <1>1, GatewayAssumption DEF Init, TypeOK

LEMMA AdmissionTyped ==
    ASSUME TypeOK, NEW c \in Calls, Admission(c)
    PROVE TypeOK'
<1>0. call[c] \in Call /\ Id(c) \in Ids
  BY IdTyped
<1>1. CASE Start(c)
  <2>1. [call[c] EXCEPT !.pc = "init"] \in Call
    BY <1>0, QuietTyped, "init" \in Pcs, "none" \in Results DEF Pcs, Results
  <2>2. QED
    BY <1>1, <2>1, SetTyped DEF TypeOK, Start, redis
<1>2. CASE Enqueue(c)
  <2>1. [call[c] EXCEPT !.pc = "queued", !.timer = Wait] \in Call
    BY <1>0, GatewayAssumption DEF Call, Pcs, Waiting
  <2>2. QED
    BY <1>2, <2>1, SetTyped DEF TypeOK, Enqueue, redis
<1>3. CASE QueueFull(c) \/ NotRegistered(c)
  BY <1>0, <1>3, LeavesTyped, SetTyped DEF TypeOK, QueueFull, NotRegistered, redis
<1>4. CASE Poll(c)
  <2>1. [call[c] EXCEPT !.pc = "sent", !.el = 0] \in Call
    BY <1>0, QuietTyped, "sent" \in Pcs, "none" \in Results
       DEF Pcs, Waiting, Acquiring, Results
  <2>2. QED
    BY <1>4, <2>1, SetTyped DEF TypeOK, Poll, redis
<1>5. CASE AcquireGrants(c) \/ AcquireRefuses(c)
  <2>1. \A p \in {"granted", "refused"} : [call[c] EXCEPT !.pc = p] \in Call
    BY <1>0, QuietTyped, "none" \in Results DEF Pcs, Waiting, Acquiring, Results
  <2>2. call' \in [Calls -> Call]
    BY <1>5, <2>1, SetTyped DEF AcquireGrants, AcquireRefuses
  <2>3. Acquire(Id(c)) \/ Refuse(Id(c))
    BY <1>5 DEF AcquireGrants, AcquireRefuses
  <2>4. UNCHANGED <<late, waiters, cancelled, leaky>>
    BY <1>5 DEF AcquireGrants, AcquireRefuses
  <2>5. QED
    BY <1>0, <2>2, <2>3, <2>4, AcquireTyped DEF TypeOK
<1>6. CASE Granted(c)
  <2>1. (TTL - call[c].el) \div 2 \in Nat
    BY <1>0, GatewayAssumption DEF Call
  <2>2. [call[c] EXCEPT !.pc = "secret", !.timer = (TTL - call[c].el) \div 2,
                        !.el = 0] \in Call
    <3>1. 0 \in 0..TTL /\ "secret" \in Pcs
      BY GatewayAssumption DEF Pcs, Leased
    <3>2. QED
      BY <1>0, <2>1, <3>1 DEF Call
  <2>3. QED
    BY <1>6, <2>2, SetTyped DEF TypeOK, Granted, redis
<1>7. CASE Refused(c)
  <2>1. [call[c] EXCEPT !.pc = "queued", !.el = 0] \in Call
    BY <1>0, QuietTyped, "queued" \in Pcs, "none" \in Results DEF Pcs, Waiting, Results
  <2>2. call' \in [Calls -> Call]
    BY <1>0, <1>7, <2>1, LeavesTyped, SetTyped DEF Refused
  <2>3. waiters' \in Int
    BY <1>7 DEF Refused, TypeOK
  <2>4. QED
    BY <1>7, <2>2, <2>3 DEF TypeOK, Refused, redis
<1>8. CASE AcquireFails(c)
  <2>1. call' \in [Calls -> Call]
    BY <1>0, <1>8, LeavesTyped, SetTyped DEF AcquireFails
  <2>2. late' \subseteq {"acquire", "renew"} \X Ids /\ leaky' \subseteq Ids
    BY <1>8, LateTyped DEF TypeOK, AcquireFails
  <2>3. QED
    BY <1>8, <2>1, <2>2 DEF TypeOK, AcquireFails, redis
<1>9. CASE Undo(c)
  <2>1. call' \in [Calls -> Call]
    BY <1>0, <1>9, LeavesTyped, SetTyped DEF Undo
  <2>2. lease' \in [Ids -> 0..TTL] /\ spent' \subseteq Ids /\ leaky' \subseteq Ids
    BY <1>0, <1>9, RemoveTyped DEF TypeOK, Undo
  <2>3. QED
    BY <1>9, <2>1, <2>2 DEF TypeOK, Undo
<1>10. QED
  BY <1>1, <1>2, <1>3, <1>4, <1>5, <1>6, <1>7, <1>8, <1>9 DEF Admission

LEMMA LeasedCallTyped ==
    ASSUME TypeOK, NEW c \in Calls, LeasedCall(c)
    PROVE TypeOK'
<1>0. call[c] \in Call /\ Id(c) \in Ids /\ Scope(Id(c)) \in Scopes /\ call[c].prim \in Results
  BY IdTyped DEF Call
<1>1. \A x \in Results : /\ [Quiet(call[c], "release") EXCEPT !.prim = x] \in Call
                         /\ [Quiet(call[c], "record") EXCEPT !.prim = x] \in Call
  BY <1>0, QuietTyped, "release" \in Pcs, "record" \in Pcs DEF Pcs, Leased
<1>2. CASE SecretResolved(c)
  <2>1. ToSleep(call[c]) \in Call
    BY <1>0, ToSleepTyped, 0 \in Nat
  <2>2. QED
    BY <1>2, <2>1, SetTyped DEF TypeOK, SecretResolved, redis
<1>3. CASE SecretFails(c)
  BY <1>1, <1>3, SetTyped, "fatal" \in Results DEF TypeOK, SecretFails, redis, Results
<1>4. CASE Wake(c) \/ Refreshed(c)
  <2>1. /\ [call[c] EXCEPT !.hb = "refresh"] \in Call
        /\ [call[c] EXCEPT !.hb = "sent", !.el = 0] \in Call
    <3>1. 0 \in 0..TTL /\ "refresh" \in Heartbeats /\ "sent" \in Heartbeats
      BY GatewayAssumption DEF Heartbeats
    <3>2. QED
      BY <1>0, <3>1 DEF Call
  <2>2. QED
    BY <1>4, <2>1, SetTyped DEF TypeOK, Wake, Refreshed, redis
<1>5. CASE RenewRuns(c)
  <2>1. /\ [call[c] EXCEPT !.hb = "renewed", !.over = 0] \in Call
        /\ [call[c] EXCEPT !.hb = "gone"] \in Call
    <3>1. 0 \in 0..Half /\ "renewed" \in Heartbeats /\ "gone" \in Heartbeats
      BY HalfTyped DEF Heartbeats
    <3>2. QED
      BY <1>0, <3>1 DEF Call
  <2>2. call' \in [Calls -> Call]
    BY <1>5, <2>1, SetTyped DEF RenewRuns
  <2>3. QED
    BY <1>0, <1>5, <2>2, RenewTyped DEF TypeOK, RenewRuns
<1>6. CASE Renewed(c)
  <2>1. (TTL - call[c].el) \div 2 \in Nat
    BY <1>0, GatewayAssumption DEF Call
  <2>2. ToSleep([call[c] EXCEPT !.timer = (TTL - call[c].el) \div 2]) \in Call
    BY <1>0, <2>1, ToSleepTyped
  <2>3. QED
    BY <1>6, <2>2, SetTyped DEF TypeOK, Renewed, redis
<1>7. CASE HeartbeatFails(c) \/ TransportEnds(c)
  <2>1. call' \in [Calls -> Call]
    BY <1>1, <1>7, SetTyped, "fatal" \in Results DEF HeartbeatFails, TransportEnds, Results
  <2>2. late' \subseteq {"acquire", "renew"} \X Ids
    BY <1>7, LateTyped DEF HeartbeatFails, TransportEnds
  <2>3. QED
    BY <1>7, <2>1, <2>2 DEF TypeOK, HeartbeatFails, TransportEnds, redis
<1>8. CASE Record(c)
  <2>1. PICK fate \in Fates(c), executed \in BOOLEAN, slow \in BOOLEAN :
          /\ IF executed THEN RecordOutcome(Scope(Id(c)), call[c].prim, slow)
                         ELSE UNCHANGED redis
          /\ Cancels(c, fate)
          /\ Set(c, [Quiet(call[c], "release") EXCEPT
                       !.prim = Settled(call[c].prim, fate)])
    BY <1>8 DEF Record
  <2>2. fate \in Results
    BY DEF Fates, Results
  <2>3. call' \in [Calls -> Call]
    BY <1>0, <1>1, <2>1, <2>2, SettledTyped, SetTyped
  <2>4. /\ eff' \in [Scopes -> 0..MaxBase]
        /\ cool' \in [Scopes -> 0..Cooldown]
        /\ UNCHANGED <<lease, base>>
    BY <1>0, <2>1, RecordTyped DEF TypeOK, redis
  <2>5. cancelled' \subseteq Calls
    BY <2>1 DEF TypeOK, Cancels
  <2>6. QED
    BY <1>8, <2>3, <2>4, <2>5 DEF TypeOK, Record
<1>9. CASE Release(c)
  <2>1. PICK fate \in Fates(c), executed \in BOOLEAN :
          /\ IF executed
             THEN Remove(Id(c)) /\ UNCHANGED leaky
             ELSE leaky' = leaky \cup {Id(c)} /\ UNCHANGED <<lease, spent>>
          /\ Cancels(c, fate)
          /\ Set(c, AfterLease([call[c] EXCEPT !.prim = Settled(call[c].prim, fate)]))
    BY <1>9 DEF Release
  <2>2. fate \in Results
    BY DEF Fates, Results
  <2>3. [call[c] EXCEPT !.prim = Settled(call[c].prim, fate)] \in Call
    BY <1>0, <2>2, SettledTyped, QuietTyped, "record" \in Pcs DEF Pcs, Leased
  <2>4. call' \in [Calls -> Call]
    BY <2>1, <2>3, LeavesTyped, SetTyped
  <2>5. lease' \in [Ids -> 0..TTL] /\ spent' \subseteq Ids /\ leaky' \subseteq Ids
    BY <1>0, <2>1, RemoveTyped DEF TypeOK
  <2>6. cancelled' \subseteq Calls
    BY <2>1 DEF TypeOK, Cancels
  <2>7. QED
    BY <1>9, <2>4, <2>5, <2>6 DEF TypeOK, Release
<1>10. QED
  BY <1>2, <1>3, <1>4, <1>5, <1>6, <1>7, <1>8, <1>9 DEF LeasedCall

LEMMA OtherTyped ==
    ASSUME TypeOK,
           \/ \E c \in Calls : Cancel(c)
           \/ \E i \in Ids : LateAcquire(i) \/ LateRenew(i)
           \/ Crash
           \/ \E s \in Scopes : Republish(s)
           \/ Tick
    PROVE TypeOK'
<1>1. ASSUME NEW c \in Calls, Cancel(c) PROVE TypeOK'
  <2>0. call[c] \in Call
    BY IdTyped
  <2>1. /\ Ended(call[c]) \in Call
        /\ Quiet(call[c], "undo") \in Call
        /\ [Quiet(call[c], "release") EXCEPT !.prim = "cancel"] \in Call
    BY <2>0, LeavesTyped, QuietTyped, "undo" \in Pcs, "release" \in Pcs, "cancel" \in Results
       DEF Pcs, Waiting, Leased, Results
  <2>2. call' \in [Calls -> Call]
    BY <1>1, <2>1, SetTyped DEF Cancel
  <2>3. late' \subseteq {"acquire", "renew"} \X Ids
    BY <1>1, LateTyped DEF Cancel, TypeOK
  <2>4. leaky' \subseteq Ids /\ waiters' \in Int
    BY <1>1, LateTyped DEF Cancel, TypeOK
  <2>5. QED
    BY <1>1, <2>2, <2>3, <2>4 DEF TypeOK, Cancel, redis
<1>2. ASSUME NEW i \in Ids, LateAcquire(i) \/ LateRenew(i) PROVE TypeOK'
  <2>1. /\ lease' \in [Ids -> 0..TTL]
        /\ eff' \in [Scopes -> 0..MaxBase]
        /\ UNCHANGED <<base, cool, spent>>
    BY <1>2, AcquireTyped, RenewTyped DEF TypeOK, LateAcquire, LateRenew
  <2>2. QED
    BY <1>2, <2>1 DEF TypeOK, LateAcquire, LateRenew
<1>3. CASE Crash
  <2>1. \A c \in Calls : call[c] \in Call /\ Ended(call[c]) \in Call
    BY IdTyped, LeavesTyped
  <2>2. call' \in [Calls -> Call]
    BY <1>3, <2>1 DEF Crash
  <2>3. /\ late' \subseteq {"acquire", "renew"} \X Ids
        /\ leaky' \subseteq Ids
    <3> DEFINE renewals == UNION {LateRenewOf(c) : c \in Active}
               acquisitions == {<<"acquire", Id(c)>> : c \in {d \in Calls : At(d, "sent")}}
               orphans == {Id(c) : c \in Active}
    <3>1. \A c \in Calls : /\ Id(c) \in Ids
                           /\ LateRenewOf(c) \subseteq {"acquire", "renew"} \X Ids
      BY IdTyped DEF LateRenewOf
    <3>2. renewals \subseteq {"acquire", "renew"} \X Ids
      BY <3>1 DEF Active
    <3>3. acquisitions \subseteq {"acquire", "renew"} \X Ids
      BY <3>1
    <3>4. orphans \subseteq Ids
      BY <3>1 DEF Active
    <3>5. late' = late \cup renewals \cup acquisitions /\ leaky' = leaky \cup orphans
      BY <1>3 DEF Crash
    <3> HIDE DEF renewals, acquisitions, orphans
    <3>6. QED
      BY <3>2, <3>3, <3>4, <3>5 DEF TypeOK
  <2>4. QED
    BY <1>3, <2>2, <2>3 DEF TypeOK, Crash, redis
<1>4. ASSUME NEW s \in Scopes, Republish(s) PROVE TypeOK'
  BY <1>4, GatewayAssumption DEF TypeOK, Republish, Min2
<1>5. CASE Tick
  <2>1. ASSUME NEW c \in Calls PROVE call'[c] \in Call
    <3>1. call[c] \in Call /\ call[c].timer \in Nat /\ call[c].el \in 0..TTL
          /\ call[c].over \in 0..Half
      BY IdTyped DEF Call
    <3>2. /\ Countdown(call[c].timer) \in Nat
          /\ Min2(TTL, call[c].el + 1) \in 0..TTL
          /\ Min2(Half, call[c].over + 1) \in 0..Half
      BY <3>1, HalfTyped, GatewayAssumption DEF Countdown, Max2, Min2
    <3>3. call'[c] = [call[c] EXCEPT
                 !.timer = IF TimerRuns(c) THEN Countdown(@) ELSE @,
                 !.el = IF InFlight(c) THEN Min2(TTL, @ + 1) ELSE @,
                 !.over = IF Unplanned(c) THEN Min2(Half, @ + 1) ELSE @]
      BY <1>5 DEF Tick
    <3> DEFINE t == IF TimerRuns(c) THEN Countdown(call[c].timer) ELSE call[c].timer
               e == IF InFlight(c) THEN Min2(TTL, call[c].el + 1) ELSE call[c].el
               o == IF Unplanned(c) THEN Min2(Half, call[c].over + 1) ELSE call[c].over
    <3>4. t \in Nat /\ e \in 0..TTL /\ o \in 0..Half
      BY <3>1, <3>2
    <3>5. call'[c] = [call[c] EXCEPT !.timer = t, !.el = e, !.over = o]
      BY <3>1, <3>3 DEF Call
    <3> HIDE DEF t, e, o
    <3>6. QED
      BY <3>1, <3>4, <3>5 DEF Call
  <2>2. call' \in [Calls -> Call]
    <3>1. call' = [c \in Calls |-> call'[c]]
      BY <1>5 DEF Tick
    <3>2. QED
      BY <2>1, <3>1
  <2>3. lease' \in [Ids -> 0..TTL] /\ cool' \in [Scopes -> 0..Cooldown] /\ spent' \subseteq Ids
    <3>1. \A m \in Nat : \A n \in 0..m : Countdown(n) \in 0..m
      BY DEF Countdown, Max2
    <3>2. lease' \in [Ids -> 0..TTL] /\ cool' \in [Scopes -> 0..Cooldown]
      BY <1>5, <3>1, GatewayAssumption DEF TypeOK, Tick
    <3>3. spent' \subseteq Ids
      BY <1>5 DEF TypeOK, Tick
    <3>4. QED
      BY <3>2, <3>3
  <2>4. QED
    BY <1>5, <2>2, <2>3 DEF TypeOK, Tick
<1>6. QED
  BY <1>1, <1>2, <1>3, <1>4, <1>5

LEMMA StepTyped == TypeOK /\ [Next]_vars => TypeOK'
<1>1. TypeOK /\ Next => TypeOK'
  BY AdmissionTyped, LeasedCallTyped, OtherTyped DEF Next
<1>2. TypeOK /\ UNCHANGED vars => TypeOK'
  BY DEF TypeOK, vars, redis
<1>3. QED
  BY <1>1, <1>2

\* Leases, limits, cooldowns and calls stay what the code takes them for, in
\* any interleaving of calls, late commands, crashes and registrations.
THEOREM GatewayTypes == Spec => []TypeOK
BY InitTyped, StepTyped, PTL DEF Spec

(***************************************************************************)
(* Who may leave a lease behind.                                           *)
(***************************************************************************)
\* Where a call holds the lease of its group.
Owning == {"granted", "undo"} \cup Leased

LEMMA IdParts ==
    /\ \A i \in Ids : i[1] \in Calls /\ i[2] \in Groups /\ i = <<i[1], i[2]>>
    /\ \A c \in Calls : Id(c)[1] = c /\ Id(c)[2] = call[c].grp
BY DEF Ids, Id

\* A call that goes elsewhere leaves no lease it held but to leaky.
LEMMA OwnersFrame ==
    ASSUME OwnersInv, NEW c \in Calls, NEW r, Set(c, r), leaky \subseteq leaky',
           \A i \in Ids : i # Id(c) /\ lease'[i] > 0 => lease[i] > 0,
           lease'[Id(c)] > 0 => \/ Id(c) \in leaky'
                                \/ r.grp = call[c].grp /\ r.pc \in Owning
    PROVE OnlyOwnersHold'
<1> SUFFICES ASSUME NEW i \in Ids, lease'[i] > 0, i \notin leaky'
             PROVE i = Id(i[1])' /\ call'[i[1]].pc \in Owning
  BY DEF OnlyOwnersHold, Owning
<1>1. \A d \in Calls : call'[d] = IF d = c THEN r ELSE call[d]
  BY DEF OwnersInv, TypeOK, Set
<1>2. CASE i = Id(c)
  <2>1. r.grp = call[c].grp /\ r.pc \in Owning
    BY <1>2
  <2>2. call'[c] = r /\ i[1] = c
    BY <1>1, <1>2 DEF Id
  <2>3. QED
    BY <1>2, <2>1, <2>2 DEF Id
<1>3. CASE i # Id(c)
  <2>1. lease[i] > 0 /\ i \notin leaky
    BY <1>3
  <2>2. i = Id(i[1]) /\ call[i[1]].pc \in Owning
    BY <2>1 DEF OwnersInv, OnlyOwnersHold, Owning
  <2>3. i[1] # c /\ i[1] \in Calls
    BY <1>3, <2>2, IdParts
  <2>4. QED
    BY <1>1, <2>2, <2>3 DEF Id
<1>4. QED
  BY <1>2, <1>3

\* Where a call does not hold it, its lease is leaky.
LEMMA NotOwned ==
    ASSUME OwnersInv, NEW c \in Calls, call[c].pc \notin Owning
    PROVE lease[Id(c)] > 0 => Id(c) \in leaky
BY IdTyped, IdParts DEF OwnersInv, OnlyOwnersHold, Owning

LEMMA AcquireLeases ==
    ASSUME TypeOK, NEW i \in Ids, Acquire(i) \/ Refuse(i)
    PROVE \A j \in Ids : j # i => lease'[j] = lease[j]
BY DEF TypeOK, Acquire, Refuse, Grant

LEMMA RenewLeases ==
    ASSUME TypeOK, NEW i \in Ids, Renew(i)
    PROVE \A j \in Ids : /\ lease'[j] > 0 <=> lease[j] > 0
                         /\ j # i => lease'[j] = lease[j]
BY GatewayAssumption DEF TypeOK, Renew

LEMMA RemoveLeases ==
    ASSUME TypeOK, NEW i \in Ids, Remove(i)
    PROVE lease'[i] = 0 /\ \A j \in Ids : j # i => lease'[j] = lease[j]
BY DEF TypeOK, Remove

LEMMA AdmissionOwned ==
    ASSUME OwnersInv, NEW c \in Calls, Admission(c)
    PROVE OnlyOwnersHold' /\ LateLeaky'
<1>0. TypeOK /\ Id(c) \in Ids /\ call[c] \in Call
  BY IdTyped DEF OwnersInv
<1>1. CASE \/ Start(c) \/ Enqueue(c) \/ QueueFull(c) \/ NotRegistered(c) \/ Poll(c)
           \/ AcquireRefuses(c) \/ Refused(c)
  <2>1. /\ call[c].pc \notin Owning
        /\ UNCHANGED <<lease, late, leaky>>
    BY <1>1 DEF Start, Enqueue, QueueFull, NotRegistered, Poll, AcquireRefuses, Refused,
                Refuse, At, Owning, Leased, redis
  <2>2. \E r : Set(c, r)
    BY <1>1 DEF Start, Enqueue, QueueFull, NotRegistered, Poll, AcquireRefuses, Refused
  <2>3. OnlyOwnersHold'
    BY <2>1, <2>2, NotOwned, OwnersFrame
  <2>4. QED
    BY <2>1, <2>3 DEF OwnersInv, LateLeaky
<1>2. CASE AcquireGrants(c)
  <2>1. Acquire(Id(c)) /\ Set(c, [call[c] EXCEPT !.pc = "granted"])
        /\ UNCHANGED <<late, leaky>>
    BY <1>2 DEF AcquireGrants
  <2>2. OnlyOwnersHold'
    BY <1>0, <2>1, AcquireLeases, OwnersFrame DEF Owning, Call
  <2>3. QED
    BY <2>1, <2>2 DEF OwnersInv, LateLeaky
<1>3. CASE Granted(c)
  <2>1. UNCHANGED <<lease, late, leaky>>
    BY <1>3 DEF Granted, redis
  <2>2. Set(c, [call[c] EXCEPT !.pc = "secret", !.timer = (TTL - call[c].el) \div 2,
                               !.el = 0])
    BY <1>3 DEF Granted
  <2>3. OnlyOwnersHold'
    BY <1>0, <2>1, <2>2, OwnersFrame DEF Owning, Leased, Call
  <2>4. QED
    BY <2>1, <2>3 DEF OwnersInv, LateLeaky
<1>4. CASE AcquireFails(c)
  <2>1. /\ Set(c, Ended(call[c]))
        /\ late' = IF At(c, "sent") THEN late \cup {<<"acquire", Id(c)>>} ELSE late
        /\ leaky' = IF At(c, "refused") THEN leaky ELSE leaky \cup {Id(c)}
        /\ lease' = lease
    BY <1>4 DEF AcquireFails, redis
  <2>2. At(c, "refused") => call[c].pc \notin Owning
    BY DEF At, Owning, Leased
  <2>3. OnlyOwnersHold'
    BY <2>1, <2>2, NotOwned, OwnersFrame
  <2>4. At(c, "sent") => ~At(c, "refused")
    BY DEF At
  <2>5. LateLeaky'
    BY <2>1, <2>4 DEF OwnersInv, LateLeaky
  <2>6. QED
    BY <2>3, <2>5
<1>5. CASE Undo(c)
  <2>1. /\ \/ Remove(Id(c)) /\ UNCHANGED leaky
           \/ leaky' = leaky \cup {Id(c)} /\ UNCHANGED lease
        /\ Set(c, Ended(call[c]))
        /\ UNCHANGED late
    BY <1>5 DEF Undo
  <2>2. OnlyOwnersHold'
    BY <1>0, <2>1, RemoveLeases, OwnersFrame
  <2>3. QED
    BY <2>1, <2>2 DEF OwnersInv, LateLeaky
<1>6. QED
  BY <1>1, <1>2, <1>3, <1>4, <1>5 DEF Admission

LEMMA LeasedCallOwned ==
    ASSUME OwnersInv, NEW c \in Calls, LeasedCall(c)
    PROVE OnlyOwnersHold' /\ LateLeaky'
<1>0. TypeOK /\ Id(c) \in Ids /\ call[c] \in Call
  BY IdTyped DEF OwnersInv
<1>1. CASE LeasedCall(c) /\ ~Release(c) /\ ~RenewRuns(c)
  <2>1. UNCHANGED <<lease, leaky>>
    BY <1>1 DEF LeasedCall, SecretResolved, SecretFails, Wake, Refreshed, Renewed,
                HeartbeatFails, TransportEnds, Record, RecordOutcome, redis
  <2>2. \A i \in Ids : <<"acquire", i>> \in late' => <<"acquire", i>> \in late
    BY <1>1 DEF LeasedCall, SecretResolved, SecretFails, Wake, Refreshed, Renewed,
                HeartbeatFails, TransportEnds, Record, LateRenewOf
  <2>3. \E r : Set(c, r) /\ r.grp = call[c].grp /\ r.pc \in Leased
    <3>1. CASE SecretResolved(c)
      BY <1>0, <3>1, ToSleepTyped, 0 \in Nat DEF SecretResolved, Leased
    <3>2. CASE Wake(c) \/ Refreshed(c)
      <4>1. call[c].pc = "call"
        BY <3>2 DEF Wake, Refreshed, Beats, At
      <4>2. \/ Set(c, [call[c] EXCEPT !.hb = "refresh"])
            \/ Set(c, [call[c] EXCEPT !.hb = "sent", !.el = 0])
        BY <3>2 DEF Wake, Refreshed
      <4>3. \A h : /\ [call[c] EXCEPT !.hb = h].pc = "call"
                   /\ [call[c] EXCEPT !.hb = h].grp = call[c].grp
                   /\ [call[c] EXCEPT !.hb = h, !.el = 0].pc = "call"
                   /\ [call[c] EXCEPT !.hb = h, !.el = 0].grp = call[c].grp
        BY <1>0, <4>1 DEF Call
      <4>4. QED
        BY <4>2, <4>3 DEF Leased
    <3>3. CASE Renewed(c)
      <4>1. (TTL - call[c].el) \div 2 \in Nat
        BY <1>0, GatewayAssumption DEF Call
      <4>2. QED
        BY <1>0, <3>3, <4>1, ToSleepTyped DEF Renewed, Leased
    <3>4. \A x : /\ [Quiet(call[c], "release") EXCEPT !.prim = x].pc = "release"
                 /\ [Quiet(call[c], "release") EXCEPT !.prim = x].grp = call[c].grp
                 /\ [Quiet(call[c], "record") EXCEPT !.prim = x].pc = "record"
                 /\ [Quiet(call[c], "record") EXCEPT !.prim = x].grp = call[c].grp
      BY <1>0 DEF Quiet, Call
    <3>5. CASE SecretFails(c) \/ HeartbeatFails(c) \/ TransportEnds(c) \/ Record(c)
      BY <3>4, <3>5 DEF SecretFails, HeartbeatFails, TransportEnds, Record, Leased
    <3>6. QED
      BY <1>1, <3>1, <3>2, <3>3, <3>5 DEF LeasedCall
  <2>4. OnlyOwnersHold'
    BY <2>1, <2>3, OwnersFrame DEF Owning
  <2>5. QED
    BY <2>1, <2>2, <2>4 DEF OwnersInv, LateLeaky
<1>2. CASE RenewRuns(c)
  <2>1. Renew(Id(c)) /\ UNCHANGED <<late, leaky>>
    BY <1>2 DEF RenewRuns
  <2>2. \E r : Set(c, r) /\ r.grp = call[c].grp /\ r.pc = "call"
    <3>1. call[c].pc = "call"
      BY <1>2 DEF RenewRuns, Beats, At
    <3>2. \/ Set(c, [call[c] EXCEPT !.hb = "renewed", !.over = 0])
          \/ Set(c, [call[c] EXCEPT !.hb = "gone"])
      BY <1>2 DEF RenewRuns
    <3>3. \A h : /\ [call[c] EXCEPT !.hb = h].pc = "call"
                 /\ [call[c] EXCEPT !.hb = h].grp = call[c].grp
                 /\ [call[c] EXCEPT !.hb = h, !.over = 0].pc = "call"
                 /\ [call[c] EXCEPT !.hb = h, !.over = 0].grp = call[c].grp
      BY <1>0, <3>1 DEF Call
    <3>4. QED
      BY <3>2, <3>3
  <2>3. OnlyOwnersHold'
    BY <1>0, <2>1, <2>2, RenewLeases, OwnersFrame DEF Owning, Leased
  <2>4. QED
    BY <2>1, <2>3 DEF OwnersInv, LateLeaky
<1>3. CASE Release(c)
  <2>1. /\ \/ Remove(Id(c)) /\ UNCHANGED leaky
           \/ leaky' = leaky \cup {Id(c)} /\ UNCHANGED lease
        /\ UNCHANGED late
    BY <1>3 DEF Release
  <2>2. \E r : Set(c, r)
    BY <1>3 DEF Release
  <2>3. OnlyOwnersHold'
    BY <1>0, <2>1, <2>2, RemoveLeases, OwnersFrame
  <2>4. QED
    BY <2>1, <2>3 DEF OwnersInv, LateLeaky
<1>4. QED
  BY <1>1, <1>2, <1>3

LEMMA OtherOwned ==
    ASSUME OwnersInv,
           \/ \E c \in Calls : Cancel(c)
           \/ \E i \in Ids : LateAcquire(i) \/ LateRenew(i)
           \/ Crash
           \/ \E s \in Scopes : Republish(s)
           \/ Tick
    PROVE OnlyOwnersHold' /\ LateLeaky'
<1>0. TypeOK /\ \A c \in Calls : Id(c) \in Ids /\ call[c] \in Call
  BY IdTyped DEF OwnersInv
<1>1. ASSUME NEW c \in Calls, Cancel(c) PROVE OnlyOwnersHold' /\ LateLeaky'
  <2>1. /\ leaky' = IF At(c, "sent") THEN leaky \cup {Id(c)} ELSE leaky
        /\ lease' = lease
    BY <1>1 DEF Cancel, redis
  <2>2. CASE call[c].pc \in {"init", "queued"}
    <3>1. Set(c, Ended(call[c])) /\ late' = late /\ call[c].pc \notin Owning
      BY <1>1, <2>2 DEF Cancel, Owning, Leased, Acquiring
    <3>2. OnlyOwnersHold'
      BY <2>1, <3>1, NotOwned, OwnersFrame
    <3>3. QED
      BY <2>1, <3>1, <3>2 DEF OwnersInv, LateLeaky
  <2>3. CASE call[c].pc \in Acquiring
    <3>1. /\ Set(c, Quiet(call[c], "undo"))
          /\ late' = IF At(c, "sent") THEN late \cup {<<"acquire", Id(c)>>} ELSE late
      BY <1>1, <2>3 DEF Cancel, Acquiring
    <3>2. OnlyOwnersHold'
      BY <1>0, <2>1, <3>1, OwnersFrame DEF Quiet, Call, Owning
    <3>3. QED
      BY <2>1, <3>1, <3>2 DEF OwnersInv, LateLeaky
  <2>4. CASE call[c].pc \in {"secret", "call"}
    <3>1. /\ Set(c, [Quiet(call[c], "release") EXCEPT !.prim = "cancel"])
          /\ late' = late \cup LateRenewOf(c)
      BY <1>1, <2>4 DEF Cancel, Acquiring
    <3>2. OnlyOwnersHold'
      BY <1>0, <2>1, <3>1, OwnersFrame DEF Quiet, Call, Owning, Leased
    <3>3. QED
      BY <2>1, <3>1, <3>2 DEF OwnersInv, LateLeaky, LateRenewOf
  <2>5. QED
    BY <1>1, <2>2, <2>3, <2>4 DEF Cancel
<1>2. ASSUME NEW i \in Ids, LateAcquire(i) PROVE OnlyOwnersHold' /\ LateLeaky'
  <2>1. i \in leaky /\ UNCHANGED <<call, leaky>> /\ late' \subseteq late
    BY <1>2 DEF LateAcquire, OwnersInv, LateLeaky
  <2>2. \A j \in Ids : j # i => lease'[j] = lease[j]
    BY <1>0, <1>2, AcquireLeases DEF LateAcquire
  <2>3. OnlyOwnersHold'
    BY <2>1, <2>2 DEF OwnersInv, OnlyOwnersHold, Id
  <2>4. QED
    BY <2>1, <2>3 DEF OwnersInv, LateLeaky
<1>3. ASSUME NEW i \in Ids, LateRenew(i) PROVE OnlyOwnersHold' /\ LateLeaky'
  <2>1. UNCHANGED <<call, leaky>> /\ late' \subseteq late
    BY <1>3 DEF LateRenew
  <2>2. \A j \in Ids : lease'[j] > 0 => lease[j] > 0
    BY <1>0, <1>3, RenewLeases DEF LateRenew
  <2>3. QED
    BY <2>1, <2>2 DEF OwnersInv, OnlyOwnersHold, LateLeaky, Id
<1>4. CASE Crash
  <2>1. UNCHANGED lease /\ leaky' = leaky \cup {Id(c) : c \in Active}
    BY <1>4 DEF Crash, redis
  <2>2. OnlyOwnersHold'
    <3> SUFFICES ASSUME NEW i \in Ids, lease[i] > 0 PROVE i \in leaky'
      BY <2>1 DEF OnlyOwnersHold
    <3>1. \/ i \in leaky
          \/ i = Id(i[1]) /\ i[1] \in Calls /\ call[i[1]].pc \in Owning
      BY IdParts DEF OwnersInv, OnlyOwnersHold, Owning
    <3>2. \A c \in Calls : call[c].pc \in Owning => c \in Active
      BY DEF Owning, Leased, Active
    <3>3. QED
      BY <2>1, <3>1, <3>2
  <2>3. LateLeaky'
    <3> SUFFICES ASSUME NEW i \in Ids, <<"acquire", i>> \in late' PROVE i \in leaky'
      BY DEF LateLeaky
    <3>1. CASE <<"acquire", i>> \in late
      BY <2>1, <3>1 DEF OwnersInv, LateLeaky
    <3>2. \A c \in Calls : <<"acquire", i>> \notin LateRenewOf(c)
      BY DEF LateRenewOf
    <3>3. CASE \E c \in Calls : At(c, "sent") /\ i = Id(c)
      BY <2>1, <3>3 DEF Active, At
    <3>4. QED
      BY <1>4, <3>1, <3>2, <3>3 DEF Crash, Active
  <2>4. QED
    BY <2>2, <2>3
<1>5. ASSUME NEW s \in Scopes, Republish(s) PROVE OnlyOwnersHold' /\ LateLeaky'
  BY <1>5 DEF OwnersInv, Republish, OnlyOwnersHold, LateLeaky, Id
<1>6. CASE Tick
  <2>1. \A j \in Ids : lease'[j] > 0 => lease[j] > 0
    <3> TAKE j \in Ids
    <3>1. lease[j] \in Nat
      BY <1>0, GatewayAssumption DEF TypeOK
    <3>2. lease'[j] = Countdown(lease[j])
      BY <1>6 DEF Tick
    <3>3. QED
      BY <3>1, <3>2, CountdownFacts
  <2>2. \A c \in Calls : call'[c].pc = call[c].pc /\ call'[c].grp = call[c].grp
    BY <1>0, <1>6 DEF Tick, Call
  <2>3. UNCHANGED <<late, leaky>>
    BY <1>6 DEF Tick
  <2>4. OnlyOwnersHold'
    BY <2>1, <2>2, <2>3, IdParts DEF OwnersInv, OnlyOwnersHold, Id
  <2>5. QED
    BY <2>3, <2>4 DEF OwnersInv, LateLeaky
<1>7. QED
  BY <1>1, <1>2, <1>3, <1>4, <1>5, <1>6

LEMMA OwnersStep == OwnersInv /\ [Next]_vars => OwnersInv'
<1>1. OwnersInv /\ Next => OnlyOwnersHold' /\ LateLeaky'
  BY AdmissionOwned, LeasedCallOwned, OtherOwned DEF Next
<1>2. OwnersInv /\ UNCHANGED vars => OnlyOwnersHold' /\ LateLeaky'
  BY DEF OwnersInv, OnlyOwnersHold, LateLeaky, Id, vars, redis
<1>3. QED
  BY <1>1, <1>2, StepTyped DEF OwnersInv

\* Every way out of an acquisition or of a leased call, error, cancellation or
\* fallback, gives its slot back, unless no one could.
THEOREM SlotsComeBack == Spec => []OnlyOwnersHold
<1>1. Init => OwnersInv
  BY InitTyped DEF Init, OwnersInv, OnlyOwnersHold, LateLeaky
<1>2. OwnersInv => OnlyOwnersHold
  BY DEF OwnersInv
<1>3. QED
  BY <1>1, <1>2, OwnersStep, PTL DEF Spec

(***************************************************************************)
(* Cooldowns.                                                              *)
(***************************************************************************)
CooldownInv == TypeOK /\ CooldownHalvesLimit

\* A limit that is halved, or made smaller, is still halved.
LEMMA Halves ==
    ASSUME NEW n \in 1..MaxBase
    PROVE Max2(1, n \div 2) \in 1..Max2(1, MaxBase \div 2)
BY GatewayAssumption DEF Max2

LEMMA HalvedEffective ==
    ASSUME CooldownInv, NEW s \in Scopes, cool[s] > 0, base[s] > 0
    PROVE Effective(s) \in 1..Max2(1, MaxBase \div 2)
<1>1. eff[s] \in 1..Max2(1, MaxBase \div 2)
  BY DEF CooldownInv, CooldownHalvesLimit
<1>2. base[s] \in 1..MaxBase
  BY GatewayAssumption DEF CooldownInv, TypeOK
<1>3. QED
  BY <1>1, <1>2, GatewayAssumption DEF Effective, Min2, Max2

LEMMA AcquireHalved ==
    ASSUME CooldownInv, NEW i \in Ids, Acquire(i) \/ Refuse(i)
    PROVE CooldownHalvesLimit'
<1>1. eff' = [eff EXCEPT ![Scope(i)] = Effective(Scope(i))] /\ UNCHANGED cool
      /\ base[Scope(i)] > 0
  BY DEF Acquire, Refuse
<1>2. QED
  BY <1>1, HalvedEffective DEF CooldownHalvesLimit, CooldownInv, TypeOK

LEMMA RecordHalved ==
    ASSUME CooldownInv, NEW s \in Scopes, NEW p, NEW slow \in BOOLEAN,
           RecordOutcome(s, p, slow)
    PROVE CooldownHalvesLimit'
<1>1. base[s] > 0 /\ Effective(s) \in 1..MaxBase
  BY EffectiveBounds, GatewayAssumption DEF RecordOutcome, CooldownInv
<1>2. CASE p = "throttled" \/ slow
  <2>1. eff' = [eff EXCEPT ![s] = Max2(1, Effective(s) \div 2)]
        /\ cool' = [cool EXCEPT ![s] = Cooldown]
    BY <1>2 DEF RecordOutcome
  <2>2. QED
    BY <1>1, <2>1, Halves DEF CooldownHalvesLimit, CooldownInv, TypeOK
<1>3. CASE ~(p = "throttled" \/ slow)
  <2>1. UNCHANGED cool
    BY <1>3 DEF RecordOutcome
  <2>2. cool[s] > 0 => eff' = [eff EXCEPT ![s] = Effective(s)]
    BY <1>3 DEF RecordOutcome
  <2>3. \A t \in Scopes : t # s => eff'[t] = eff[t]
    BY <1>3 DEF RecordOutcome, CooldownInv, TypeOK
  <2>4. cool[s] > 0 => eff'[s] \in 1..Max2(1, MaxBase \div 2)
    BY <1>1, <2>2, HalvedEffective DEF CooldownInv, TypeOK
  <2>5. QED
    BY <2>1, <2>3, <2>4 DEF CooldownHalvesLimit, CooldownInv
<1>4. QED
  BY <1>2, <1>3

LEMMA CooldownStep == CooldownInv /\ [Next]_vars => CooldownInv'
<1> SUFFICES ASSUME CooldownInv, [Next]_vars PROVE CooldownHalvesLimit'
  BY StepTyped DEF CooldownInv
<1>1. CASE UNCHANGED <<eff, cool>>
  BY <1>1 DEF CooldownInv, CooldownHalvesLimit
<1>2. ASSUME NEW c \in Calls, AcquireGrants(c) \/ AcquireRefuses(c)
      PROVE CooldownHalvesLimit'
  BY <1>2, AcquireHalved, IdTyped DEF CooldownInv, AcquireGrants, AcquireRefuses
<1>3. ASSUME NEW c \in Calls, Record(c) PROVE CooldownHalvesLimit'
  <2>1. Scope(Id(c)) \in Scopes
    BY IdTyped DEF CooldownInv
  <2>2. \/ \E slow \in BOOLEAN : RecordOutcome(Scope(Id(c)), call[c].prim, slow)
        \/ UNCHANGED redis
    BY <1>3 DEF Record
  <2>3. QED
    BY <1>1, <2>1, <2>2, RecordHalved DEF redis
<1>4. ASSUME NEW i \in Ids, LateAcquire(i) PROVE CooldownHalvesLimit'
  BY <1>4, AcquireHalved DEF LateAcquire
<1>5. ASSUME NEW s \in Scopes, Republish(s) PROVE CooldownHalvesLimit'
  <2>1. PICK b \in 0..MaxBase :
          \/ /\ eff' = [eff EXCEPT ![s] = IF @ = 0 THEN b ELSE Min2(@, b)]
             /\ cool' = IF b = 0 THEN [cool EXCEPT ![s] = 0] ELSE cool
          \/ b = 0 /\ UNCHANGED <<eff, cool>>
    BY <1>5 DEF Republish
  <2>2. CASE UNCHANGED <<eff, cool>>
    BY <2>2, <1>1
  <2>3. CASE /\ eff' = [eff EXCEPT ![s] = IF @ = 0 THEN b ELSE Min2(@, b)]
             /\ cool' = IF b = 0 THEN [cool EXCEPT ![s] = 0] ELSE cool
    <3>1. \A t \in Scopes : t # s => eff'[t] = eff[t] /\ cool'[t] = cool[t]
      BY <2>3 DEF CooldownInv, TypeOK
    <3>2. cool'[s] > 0 => b # 0 /\ cool[s] > 0 /\ eff'[s] = IF eff[s] = 0 THEN b ELSE Min2(eff[s], b)
      BY <2>3 DEF CooldownInv, TypeOK
    <3>3. cool'[s] > 0 => eff'[s] \in 1..Max2(1, MaxBase \div 2)
      BY <3>2, GatewayAssumption DEF CooldownInv, CooldownHalvesLimit, Min2, Max2
    <3>4. QED
      BY <3>1, <3>3 DEF CooldownInv, CooldownHalvesLimit
  <2>4. QED
    BY <2>1, <2>2, <2>3
<1>6. CASE Tick
  <2>1. \A s \in Scopes : cool'[s] = Countdown(cool[s]) /\ cool[s] \in Nat
    <3>1. cool' = [s \in Scopes |-> Countdown(cool[s])]
      BY <1>6 DEF Tick
    <3>2. \A s \in Scopes : cool[s] \in Nat
      BY GatewayAssumption DEF CooldownInv, TypeOK
    <3>3. QED
      BY <3>1, <3>2
  <2>2. \A s \in Scopes : cool'[s] > 0 => cool[s] > 0
    BY <2>1, CountdownFacts
  <2>3. QED
    BY <1>6, <2>2 DEF Tick, CooldownInv, CooldownHalvesLimit
<1>7. ASSUME NEW c \in Calls, Admission(c), ~AcquireGrants(c), ~AcquireRefuses(c)
      PROVE UNCHANGED <<eff, cool>>
  BY <1>7 DEF Admission, Start, Enqueue, QueueFull, NotRegistered, Poll, Granted, Refused,
              AcquireFails, Undo, redis
<1>8. ASSUME NEW c \in Calls, LeasedCall(c), ~Record(c) PROVE UNCHANGED <<eff, cool>>
  BY <1>8 DEF LeasedCall, SecretResolved, SecretFails, Wake, Refreshed, RenewRuns, Renew,
              Renewed, HeartbeatFails, TransportEnds, Release, redis
<1>9. ASSUME NEW c \in Calls, Cancel(c) PROVE UNCHANGED <<eff, cool>>
  BY <1>9 DEF Cancel, redis
<1>10. ASSUME NEW i \in Ids, LateRenew(i) PROVE UNCHANGED <<eff, cool>>
  BY <1>10 DEF LateRenew, Renew
<1>11. CASE Crash \/ UNCHANGED vars
  BY <1>1, <1>11 DEF Crash, vars, redis
<1>12. QED
  BY <1>1, <1>2, <1>3, <1>4, <1>5, <1>6, <1>7, <1>8, <1>9, <1>10, <1>11 DEF Next

\* While a scope cools down no success, registration or admission of any
\* process brings its limit above half of the largest one.
THEOREM CooldownHolds == Spec => []CooldownHalvesLimit
<1>1. Init => CooldownInv
  BY InitTyped DEF Init, CooldownInv, CooldownHalvesLimit
<1>2. CooldownInv => CooldownHalvesLimit
  BY DEF CooldownInv
<1>3. QED
  BY <1>1, <1>2, CooldownStep, PTL DEF Spec

(***************************************************************************)
(* The lease of a running transport.                                       *)
(***************************************************************************)
\* MarginKept and SleepPlanned of one call.
Margin(c) ==
    /\ call[c].over < Half =>
         /\ call[c].pc \in {"granted", "secret"} \/ Beats(c, "renewed")
              => lease[Id(c)] + call[c].over >= TTL
         /\ At(c, "call") => lease[Id(c)] + call[c].over >= Half
         /\ Beats(c, "sleep") => lease[Id(c)] + call[c].over >= Half + call[c].timer
    /\ At(c, "secret") => call[c].timer <= TTL \div 2

LEMMA MarginSplit == MarginInv <=> TypeOK /\ \A c \in Calls : Margin(c)
BY DEF MarginInv, MarginKept, SleepPlanned, Margin

\* What a call's margin looks at: its own record and lease.
LEMMA MarginFrame ==
    ASSUME MarginInv, NEW c \in Calls, call'[c] = call[c],
           lease'[Id(c)] = lease[Id(c)] \/ lease'[Id(c)] = TTL
    PROVE Margin(c)'
<1>1. Margin(c) /\ Id(c)' = Id(c) /\ lease[Id(c)] \in 0..TTL
  BY MarginSplit, IdTyped DEF MarginInv, Id
<1>2. lease'[Id(c)] >= lease[Id(c)]
  BY <1>1, GatewayAssumption
<1>3. call[c].over \in 0..Half /\ call[c].timer \in Nat /\ lease'[Id(c)] \in 0..TTL
  BY <1>1, IdTyped, GatewayAssumption DEF MarginInv, Call
<1>4. QED
  BY <1>1, <1>2, <1>3, HalfTyped, GatewayAssumption DEF Margin, Beats, At

\* A call that is not near a transport has no margin to keep.
LEMMA NoMargin ==
    ASSUME NEW c \in Calls, call'[c].pc \notin {"granted", "secret", "call"}
    PROVE Margin(c)'
BY DEF Margin, Beats, At

\* The other calls, when one moves.
LEMMA MarginOthers ==
    ASSUME MarginInv, NEW c \in Calls, NEW r, Set(c, r),
           \A i \in Ids : i # Id(c) => lease'[i] = lease[i],
           Margin(c)'
    PROVE \A d \in Calls : Margin(d)'
<1> SUFFICES ASSUME NEW d \in Calls, d # c PROVE Margin(d)'
  OBVIOUS
<1>1. call'[d] = call[d]
  BY DEF Set, MarginInv, TypeOK
<1>2. Id(d) \in Ids /\ Id(d) # Id(c)
  BY IdTyped, IdParts DEF MarginInv
<1>3. QED
  BY <1>1, <1>2, MarginFrame

\* Where a call that moves is now.
LEMMA SetRecord ==
    ASSUME TypeOK, NEW c \in Calls, NEW r, Set(c, r)
    PROVE call'[c] = r
BY DEF TypeOK, Set

LEMMA AdmissionMargin ==
    ASSUME MarginInv, NEW c \in Calls, Admission(c)
    PROVE \A d \in Calls : Margin(d)'
<1>0. TypeOK /\ Id(c) \in Ids /\ call[c] \in Call /\ Margin(c)
  BY IdTyped, MarginSplit DEF MarginInv
<1>1. /\ Ended(call[c]).pc = "ended"
      /\ NextGroup(call[c]).pc \in {"init", "ended"}
  BY <1>0 DEF Ended, NextGroup, Quiet, Call
<1>2. CASE \/ Start(c) \/ Enqueue(c) \/ QueueFull(c) \/ NotRegistered(c) \/ Poll(c)
           \/ AcquireRefuses(c) \/ Refused(c) \/ AcquireFails(c) \/ Undo(c)
  <2>1. PICK r : Set(c, r) /\ r.pc \notin {"granted", "secret", "call"}
    <3>1. /\ [call[c] EXCEPT !.pc = "init"].pc = "init"
          /\ [call[c] EXCEPT !.pc = "queued", !.timer = Wait].pc = "queued"
          /\ [call[c] EXCEPT !.pc = "sent", !.el = 0].pc = "sent"
          /\ [call[c] EXCEPT !.pc = "refused"].pc = "refused"
          /\ [call[c] EXCEPT !.pc = "queued", !.el = 0].pc = "queued"
      BY <1>0 DEF Call
    <3>2. CASE Start(c) \/ Enqueue(c) \/ Poll(c) \/ AcquireRefuses(c)
      BY <3>1, <3>2 DEF Start, Enqueue, Poll, AcquireRefuses
    <3>3. CASE QueueFull(c) \/ NotRegistered(c) \/ Refused(c) \/ AcquireFails(c) \/ Undo(c)
      BY <1>1, <3>1, <3>3 DEF QueueFull, NotRegistered, Refused, AcquireFails, Undo
    <3>4. QED
      BY <1>2, <3>2, <3>3
  <2>2. \A i \in Ids : i # Id(c) => lease'[i] = lease[i]
    BY <1>0, <1>2, RemoveLeases DEF Start, Enqueue, QueueFull, NotRegistered, Poll,
       AcquireRefuses, Refuse, Refused, AcquireFails, Undo, redis
  <2>3. Margin(c)'
    BY <1>0, <2>1, SetRecord, NoMargin
  <2>4. QED
    BY <2>1, <2>2, <2>3, MarginOthers
<1>3. CASE AcquireGrants(c)
  <2>1. Set(c, [call[c] EXCEPT !.pc = "granted"]) /\ Acquire(Id(c))
    BY <1>3 DEF AcquireGrants
  <2>2. call'[c] = [call[c] EXCEPT !.pc = "granted"]
    BY <1>0, <2>1, SetRecord
  <2>3. lease'[Id(c)] = TTL
    BY <1>0, <2>1 DEF Acquire, Grant, TypeOK
  <2>4. Id(c)' = Id(c) /\ call'[c].over \in Nat /\ call'[c].pc = "granted"
    BY <1>0, <2>2, HalfTyped DEF Id, Call
  <2>5. Margin(c)'
    BY <2>3, <2>4, GatewayAssumption DEF Margin, Beats, At
  <2>6. QED
    BY <1>0, <2>1, <2>5, AcquireLeases, MarginOthers
<1>4. CASE Granted(c)
  <2>1. /\ Set(c, [call[c] EXCEPT !.pc = "secret",
                                  !.timer = (TTL - call[c].el) \div 2, !.el = 0])
        /\ UNCHANGED lease /\ At(c, "granted")
    BY <1>4 DEF Granted, redis
  <2>2. call'[c] = [call[c] EXCEPT !.pc = "secret",
                                   !.timer = (TTL - call[c].el) \div 2, !.el = 0]
    BY <1>0, <2>1, SetRecord
  <2>3. /\ Id(c)' = Id(c) /\ call'[c].over = call[c].over /\ call'[c].pc = "secret"
        /\ call'[c].timer = (TTL - call[c].el) \div 2
    BY <1>0, <2>2 DEF Id, Call
  <2>4. (TTL - call[c].el) \div 2 <= TTL \div 2
    BY <1>0, GatewayAssumption DEF Call
  <2>5. Margin(c)'
    BY <1>0, <2>1, <2>3, <2>4 DEF Margin, Beats, At
  <2>6. QED
    BY <2>1, <2>5, MarginOthers
<1>5. QED
  BY <1>2, <1>3, <1>4 DEF Admission

\* A heartbeat that goes to sleep plans for no more than half a lease.
LEMMA SleepMargin ==
    ASSUME TypeOK, NEW c \in Calls, NEW r \in Call, Set(c, ToSleep(r)), UNCHANGED lease,
           r.grp = call[c].grp, r.over = call[c].over, r.timer <= TTL \div 2,
           call[c].over < Half => lease[Id(c)] + call[c].over >= TTL
    PROVE Margin(c)'
<1>1. call'[c] = ToSleep(r)
  BY SetRecord
<1>2. /\ call'[c].pc = "call" /\ call'[c].hb = "sleep" /\ call'[c].over = call[c].over
      /\ call'[c].timer = Min2(Interval, r.timer) /\ Id(c)' = Id(c)
  BY <1>1 DEF ToSleep, Call, Id
<1>3. call'[c].timer \in Nat /\ call'[c].timer <= TTL \div 2
  BY <1>2, HalfTyped, GatewayAssumption DEF Min2, Call
<1>4. lease[Id(c)] \in Nat /\ call[c].over \in Nat
  BY IdTyped, HalfTyped, GatewayAssumption DEF Call
<1>5. QED
  BY <1>2, <1>3, <1>4, HalfTyped, GatewayAssumption DEF Margin, Beats, At

LEMMA LeasedCallMargin ==
    ASSUME MarginInv, NEW c \in Calls, LeasedCall(c)
    PROVE \A d \in Calls : Margin(d)'
<1>0. TypeOK /\ Id(c) \in Ids /\ call[c] \in Call /\ Margin(c) /\ lease[Id(c)] \in 0..TTL
  BY IdTyped, MarginSplit DEF MarginInv
<1>1. CASE SecretResolved(c)
  <2>1. Set(c, ToSleep(call[c])) /\ UNCHANGED lease /\ At(c, "secret")
    BY <1>1 DEF SecretResolved, redis
  <2>2. Margin(c)'
    BY <1>0, <2>1, SleepMargin DEF Margin, At
  <2>3. QED
    BY <2>1, <2>2, MarginOthers
<1>2. CASE Renewed(c)
  <2> DEFINE r == [call[c] EXCEPT !.timer = (TTL - call[c].el) \div 2]
  <2>1. Set(c, ToSleep(r)) /\ UNCHANGED lease /\ Beats(c, "renewed")
    BY <1>2 DEF Renewed, redis
  <2>2. (TTL - call[c].el) \div 2 \in Nat /\ (TTL - call[c].el) \div 2 <= TTL \div 2
    BY <1>0, GatewayAssumption DEF Call
  <2>3. /\ r \in Call /\ r.grp = call[c].grp /\ r.over = call[c].over
        /\ r.timer <= TTL \div 2
    BY <1>0, <2>2 DEF Call
  <2>4. call[c].over < Half => lease[Id(c)] + call[c].over >= TTL
    BY <1>0, <2>1 DEF Margin
  <2> HIDE DEF r
  <2>5. Margin(c)'
    BY <1>0, <2>1, <2>3, <2>4, SleepMargin
  <2>6. QED
    BY <2>1, <2>5, MarginOthers
<1>3. CASE Wake(c) \/ Refreshed(c)
  <2>1. /\ At(c, "call") /\ UNCHANGED lease
        /\ \/ Set(c, [call[c] EXCEPT !.hb = "refresh"])
           \/ Set(c, [call[c] EXCEPT !.hb = "sent", !.el = 0])
    BY <1>3 DEF Wake, Refreshed, Beats, redis
  <2>2. /\ call'[c].pc = "call" /\ call'[c].hb \in {"refresh", "sent"}
        /\ call'[c].over = call[c].over /\ Id(c)' = Id(c)
    BY <1>0, <2>1, SetRecord DEF Call, At, Id
  <2>3. Margin(c)'
    BY <1>0, <2>1, <2>2 DEF Margin, Beats, At
  <2>4. QED
    BY <2>1, <2>3, MarginOthers
<1>4. CASE RenewRuns(c)
  <2>1. Beats(c, "sent") /\ Renew(Id(c))
    BY <1>4 DEF RenewRuns
  <2>2. PICK r : /\ Set(c, r)
                 /\ r = IF lease[Id(c)] > 0
                        THEN [call[c] EXCEPT !.hb = "renewed", !.over = 0]
                        ELSE [call[c] EXCEPT !.hb = "gone"]
    BY <1>4 DEF RenewRuns
  <2>3. call'[c] = r
    BY <1>0, <2>2, SetRecord
  <2>4. lease'[Id(c)] = IF lease[Id(c)] > 0 THEN TTL ELSE 0
    BY <1>0, <2>1 DEF Renew, TypeOK
  <2>5. /\ call'[c].pc = "call" /\ Id(c)' = Id(c)
        /\ call'[c].hb = IF lease[Id(c)] > 0 THEN "renewed" ELSE "gone"
        /\ call'[c].over = IF lease[Id(c)] > 0 THEN 0 ELSE call[c].over
    BY <1>0, <2>1, <2>2, <2>3 DEF Beats, At, Call, Id
  <2>6. call[c].over < Half => lease[Id(c)] > 0
    BY <1>0, <2>1, HalfTyped, GatewayAssumption DEF Margin, Beats, Call
  <2>7. Margin(c)'
    BY <1>0, <2>4, <2>5, <2>6, HalfTyped, GatewayAssumption DEF Margin, Beats, At
  <2>8. QED
    BY <1>0, <2>1, <2>2, <2>7, RenewLeases, MarginOthers
<1>5. CASE SecretFails(c) \/ HeartbeatFails(c) \/ TransportEnds(c) \/ Record(c) \/ Release(c)
  <2>1. \A x : /\ [Quiet(call[c], "release") EXCEPT !.prim = x].pc = "release"
               /\ [Quiet(call[c], "record") EXCEPT !.prim = x].pc = "record"
               /\ AfterLease([call[c] EXCEPT !.prim = x]).pc \in {"init", "ended"}
    BY <1>0 DEF Quiet, AfterLease, NextGroup, Ended, Call
  <2>2. PICK r : Set(c, r) /\ r.pc \in {"release", "record", "init", "ended"}
    BY <1>5, <2>1 DEF SecretFails, HeartbeatFails, TransportEnds, Record, Release
  <2>3. \A i \in Ids : i # Id(c) => lease'[i] = lease[i]
    BY <1>0, <1>5, RemoveLeases DEF SecretFails, HeartbeatFails, TransportEnds, Record,
       RecordOutcome, Release, redis
  <2>4. Margin(c)'
    BY <1>0, <2>2, SetRecord, NoMargin
  <2>5. QED
    BY <2>2, <2>3, <2>4, MarginOthers
<1>6. QED
  BY <1>1, <1>2, <1>3, <1>4, <1>5 DEF LeasedCall

LEMMA OtherMargin ==
    ASSUME MarginInv,
           \/ \E c \in Calls : Cancel(c)
           \/ \E i \in Ids : LateAcquire(i) \/ LateRenew(i)
           \/ Crash
           \/ \E s \in Scopes : Republish(s)
    PROVE \A d \in Calls : Margin(d)'
<1>0. TypeOK /\ \A c \in Calls : Id(c) \in Ids /\ call[c] \in Call
  BY IdTyped DEF MarginInv
<1>1. ASSUME NEW c \in Calls, Cancel(c) PROVE \A d \in Calls : Margin(d)'
  <2>1. /\ Ended(call[c]).pc = "ended"
        /\ Quiet(call[c], "undo").pc = "undo"
        /\ [Quiet(call[c], "release") EXCEPT !.prim = "cancel"].pc = "release"
    BY <1>0 DEF Ended, Quiet, Call
  <2>2. PICK r : Set(c, r) /\ r.pc \in {"ended", "undo", "release"}
    BY <1>1, <2>1 DEF Cancel
  <2>3. UNCHANGED lease
    BY <1>1 DEF Cancel, redis
  <2>4. Margin(c)'
    BY <1>0, <2>2, SetRecord, NoMargin
  <2>5. QED
    BY <2>2, <2>3, <2>4, MarginOthers
<1>2. ASSUME NEW i \in Ids, LateAcquire(i) \/ LateRenew(i)
      PROVE \A d \in Calls : Margin(d)'
  <2>1. UNCHANGED call
    BY <1>2 DEF LateAcquire, LateRenew
  <2>2. \A j \in Ids : lease'[j] = lease[j] \/ lease'[j] = TTL
    BY <1>0, <1>2, GatewayAssumption
       DEF LateAcquire, LateRenew, Acquire, Refuse, Grant, Renew, TypeOK
  <2>3. QED
    BY <1>0, <2>1, <2>2, MarginFrame
<1>3. CASE Crash
  <2> TAKE d \in Calls
  <2>1. UNCHANGED lease /\ call'[d] = IF d \in Active THEN Ended(call[d]) ELSE call[d]
    BY <1>3 DEF Crash, redis
  <2>2. Ended(call[d]).pc = "ended"
    BY <1>0 DEF Ended, Quiet, Call
  <2>3. QED
    BY <2>1, <2>2, NoMargin, MarginFrame
<1>4. ASSUME NEW s \in Scopes, Republish(s) PROVE \A d \in Calls : Margin(d)'
  BY <1>0, <1>4, MarginFrame DEF Republish
<1>5. QED
  BY <1>1, <1>2, <1>3, <1>4

\* Time takes from the lease what it adds to over or takes from the sleep.
LEMMA TickMargin ==
    ASSUME MarginInv, Tick, NEW c \in Calls
    PROVE Margin(c)'
<1>0. /\ TypeOK /\ call[c] \in Call /\ Margin(c) /\ Id(c) \in Ids
      /\ lease[Id(c)] \in 0..TTL /\ call[c].over \in 0..Half /\ call[c].timer \in Nat
  BY IdTyped, MarginSplit DEF MarginInv, Call
<1>1. call'[c] = [call[c] EXCEPT
                 !.timer = IF TimerRuns(c) THEN Countdown(@) ELSE @,
                 !.el = IF InFlight(c) THEN Min2(TTL, @ + 1) ELSE @,
                 !.over = IF Unplanned(c) THEN Min2(Half, @ + 1) ELSE @]
  BY DEF Tick
<1>2. /\ call'[c].pc = call[c].pc /\ call'[c].hb = call[c].hb /\ Id(c)' = Id(c)
      /\ call'[c].timer = IF TimerRuns(c) THEN Countdown(call[c].timer) ELSE call[c].timer
      /\ call'[c].over = IF Unplanned(c) THEN Min2(Half, call[c].over + 1) ELSE call[c].over
  BY <1>0, <1>1 DEF Call, Id
<1>3. lease'[Id(c)] = Countdown(lease[Id(c)])
  BY <1>0 DEF Tick
<1>4. lease'[Id(c)] \in Nat /\ lease'[Id(c)] + 1 >= lease[Id(c)]
  BY <1>0, <1>3, CountdownFacts, GatewayAssumption
<1>5. Unplanned(c) /\ call'[c].over < Half =>
        call[c].over < Half /\ call'[c].over = call[c].over + 1
  BY <1>0, <1>2, HalfTyped DEF Min2
<1>6. At(c, "secret") => ~TimerRuns(c)
  BY DEF At, TimerRuns, Beats, Waiting, Acquiring
<1>7. CASE call[c].pc \in {"granted", "secret"}
  <2>1. Unplanned(c)
    BY <1>7 DEF Unplanned
  <2>2. QED
    BY <1>0, <1>2, <1>4, <1>5, <1>6, <1>7, <2>1, HalfTyped, GatewayAssumption
       DEF Margin, Beats, At
<1>8. CASE At(c, "call") /\ ~(Beats(c, "sleep") /\ call[c].timer > 0)
  <2>1. Unplanned(c)
    BY <1>8 DEF Unplanned
  <2>2. Beats(c, "sleep") => call[c].timer = 0 /\ call'[c].timer = 0
    BY <1>0, <1>2, <1>8, CountdownFacts
  <2>3. QED
    BY <1>0, <1>2, <1>4, <1>5, <1>8, <2>1, <2>2, HalfTyped, GatewayAssumption
       DEF Margin, Beats, At
<1>9. CASE Beats(c, "sleep") /\ call[c].timer > 0
  <2>1. ~Unplanned(c) /\ TimerRuns(c)
    BY <1>9 DEF Unplanned, Beats, At, TimerRuns
  <2>2. call'[c].over = call[c].over /\ call'[c].timer = call[c].timer - 1
    BY <1>0, <1>2, <1>9, <2>1, CountdownFacts
  <2>3. QED
    BY <1>0, <1>2, <1>4, <1>9, <2>2, HalfTyped, GatewayAssumption DEF Margin, Beats, At
<1>10. CASE call[c].pc \notin {"granted", "secret", "call"}
  BY <1>2, <1>10, NoMargin
<1>11. QED
  BY <1>7, <1>8, <1>9, <1>10 DEF At

LEMMA MarginStep == MarginInv /\ [Next]_vars => MarginInv'
<1> SUFFICES ASSUME MarginInv, [Next]_vars PROVE MarginInv'
  OBVIOUS
<1>1. TypeOK'
  BY StepTyped DEF MarginInv
<1>2. \A d \in Calls : Margin(d)'
  <2>1. CASE Next
    BY <2>1, AdmissionMargin, LeasedCallMargin, OtherMargin, TickMargin DEF Next
  <2>2. CASE UNCHANGED vars
    BY <2>2, MarginFrame DEF vars, redis
  <2>3. QED
    BY <2>1, <2>2
<1>3. QED
  BY <1>1, <1>2 DEF MarginInv, MarginKept, SleepPlanned, Margin

\* A transport runs under a lease that counts, unless delays that its heartbeat
\* does not plan for took half a lease since the last grant or renewal.
THEOREM TransportLeased == Spec => []TransportIsLeased
<1>1. Init => MarginInv
  BY InitTyped DEF Init, MarginInv, MarginKept, SleepPlanned, At, Beats
<1>2. MarginInv => TransportIsLeased
  <2> SUFFICES ASSUME MarginInv, NEW c \in Calls, At(c, "call"), call[c].over < Half
               PROVE lease[Id(c)] > 0
    BY DEF TransportIsLeased
  <2>1. lease[Id(c)] + call[c].over >= Half
    BY DEF MarginInv, MarginKept
  <2>2. lease[Id(c)] \in Nat /\ call[c].over \in Nat
    BY IdTyped, HalfTyped, GatewayAssumption DEF MarginInv, Call
  <2>3. QED
    BY <2>1, <2>2, HalfTyped
<1>3. QED
  BY <1>1, <1>2, MarginStep, PTL DEF Spec

(***************************************************************************)
(* The queue.                                                              *)
(***************************************************************************)
Waiters == {c \in Calls : call[c].pc \in Waiting}

QueueInv == TypeOK /\ WaitersExact

LEMMA WaitersFinite == IsFiniteSet(Waiters) /\ Cardinality(Waiters) \in Nat
BY GatewayAssumption, FS_Subset, FS_CardinalityType DEF Waiters

\* A call that moves enters the queue, leaves it, or does neither.
LEMMA QueueCounts ==
    ASSUME QueueInv, NEW c \in Calls, NEW r, Set(c, r)
    PROVE Cardinality(Waiters') = waiters
            + (IF r.pc \in Waiting THEN 1 ELSE 0)
            - (IF call[c].pc \in Waiting THEN 1 ELSE 0)
<1>1. \A d \in Calls : call'[d] = IF d = c THEN r ELSE call[d]
  BY DEF QueueInv, TypeOK, Set
<1>2. waiters = Cardinality(Waiters)
  BY DEF QueueInv, WaitersExact, Waiters
<1>3. Cardinality(Waiters \cup {c}) = IF c \in Waiters THEN Cardinality(Waiters)
                                                     ELSE Cardinality(Waiters) + 1
  BY WaitersFinite, FS_AddElement
<1>4. Cardinality(Waiters \ {c}) = IF c \in Waiters THEN Cardinality(Waiters) - 1
                                                   ELSE Cardinality(Waiters)
  BY WaitersFinite, FS_RemoveElement
<1>5. c \in Waiters <=> call[c].pc \in Waiting
  BY DEF Waiters
<1>6. CASE r.pc \in Waiting
  <2>1. Waiters' = Waiters \cup {c}
    BY <1>1, <1>6 DEF Waiters
  <2>2. QED
    BY <1>2, <1>3, <1>5, <1>6, <2>1, WaitersFinite
<1>7. CASE r.pc \notin Waiting
  <2>1. Waiters' = Waiters \ {c}
    BY <1>1, <1>7 DEF Waiters
  <2>2. QED
    BY <1>2, <1>4, <1>5, <1>7, <2>1, WaitersFinite
<1>8. QED
  BY <1>6, <1>7

\* What a step of a call must do to the counter.
LEMMA QueueFrame ==
    ASSUME QueueInv, NEW c \in Calls, NEW r, Set(c, r),
           waiters' = waiters + (IF r.pc \in Waiting THEN 1 ELSE 0)
                              - (IF call[c].pc \in Waiting THEN 1 ELSE 0)
    PROVE WaitersExact'
BY QueueCounts DEF WaitersExact, Waiters

LEMMA QueueKept ==
    ASSUME QueueInv, NEW c \in Calls, NEW r, Set(c, r), UNCHANGED waiters,
           r.pc \in Waiting <=> call[c].pc \in Waiting
    PROVE WaitersExact'
BY QueueFrame DEF QueueInv, TypeOK

LEMMA QueueLeft ==
    ASSUME QueueInv, NEW c \in Calls, NEW r, Set(c, r), waiters' = waiters - 1,
           r.pc \notin Waiting, call[c].pc \in Waiting
    PROVE WaitersExact'
BY QueueFrame DEF QueueInv, TypeOK

LEMMA QueueEntered ==
    ASSUME QueueInv, NEW c \in Calls, NEW r, Set(c, r), waiters' = waiters + 1,
           r.pc \in Waiting, call[c].pc \notin Waiting
    PROVE WaitersExact'
BY QueueFrame DEF QueueInv, TypeOK

LEMMA QueueStep == QueueInv /\ [Next]_vars => QueueInv'
<1> SUFFICES ASSUME QueueInv, [Next]_vars PROVE WaitersExact'
  BY StepTyped DEF QueueInv
<1>0. TypeOK /\ waiters \in Int /\ \A c \in Calls : call[c] \in Call
  BY IdTyped DEF QueueInv, TypeOK
<1>1. \A c \in Calls : /\ Ended(call[c]).pc = "ended"
                       /\ NextGroup(call[c]).pc \in {"init", "ended"}
                       /\ Quiet(call[c], "undo").pc = "undo"
                       /\ [Quiet(call[c], "release") EXCEPT !.prim = "cancel"].pc = "release"
  BY <1>0 DEF Ended, NextGroup, Quiet, Call
<1>2. \A p \in {"init", "ended", "idle"} \cup Leased : p \notin Waiting
  BY DEF Leased, Waiting, Acquiring
<1>3. ASSUME NEW c \in Calls, Admission(c) PROVE WaitersExact'
  <2>0. call[c] \in Call
    BY <1>0
  <2>1. CASE Start(c)
    <3>1. /\ Set(c, [call[c] EXCEPT !.pc = "init"]) /\ UNCHANGED waiters
          /\ call[c].pc = "idle"
      BY <2>1 DEF Start, At
    <3>2. [call[c] EXCEPT !.pc = "init"].pc = "init"
      BY <2>0 DEF Call
    <3>3. PICK r : Set(c, r) /\ r.pc = "init"
      BY <3>1, <3>2
    <3>4. QED
      BY <1>2, <3>1, <3>3, QueueKept
  <2>2. CASE Enqueue(c)
    <3>1. /\ Set(c, [call[c] EXCEPT !.pc = "queued", !.timer = Wait])
          /\ waiters' = waiters + 1 /\ call[c].pc = "init"
      BY <2>2 DEF Enqueue, At
    <3>2. [call[c] EXCEPT !.pc = "queued", !.timer = Wait].pc = "queued"
      BY <2>0 DEF Call
    <3>3. PICK r : Set(c, r) /\ r.pc = "queued"
      BY <3>1, <3>2
    <3>4. QED
      BY <1>2, <3>1, <3>3, QueueEntered DEF Waiting
  <2>3. CASE QueueFull(c) \/ NotRegistered(c)
    <3>1. PICK r : Set(c, r) /\ r.pc \in {"init", "ended"}
      BY <1>1, <2>3 DEF QueueFull, NotRegistered
    <3>2. UNCHANGED waiters /\ call[c].pc = "init"
      BY <2>3 DEF QueueFull, NotRegistered, At
    <3>3. QED
      BY <1>2, <3>1, <3>2, QueueKept
  <2>4. CASE Poll(c) \/ AcquireGrants(c) \/ AcquireRefuses(c)
    <3>1. /\ [call[c] EXCEPT !.pc = "sent", !.el = 0].pc = "sent"
          /\ [call[c] EXCEPT !.pc = "granted"].pc = "granted"
          /\ [call[c] EXCEPT !.pc = "refused"].pc = "refused"
      BY <2>0 DEF Call
    <3>2. PICK r : Set(c, r) /\ r.pc \in Waiting
      BY <2>4, <3>1 DEF Poll, AcquireGrants, AcquireRefuses, Waiting, Acquiring
    <3>3. UNCHANGED waiters /\ call[c].pc \in Waiting
      BY <2>4 DEF Poll, AcquireGrants, AcquireRefuses, At, Waiting, Acquiring
    <3>4. QED
      BY <3>2, <3>3, QueueKept
  <2>5. CASE Granted(c)
    <3>1. /\ Set(c, [call[c] EXCEPT !.pc = "secret",
                                    !.timer = (TTL - call[c].el) \div 2, !.el = 0])
          /\ waiters' = waiters - 1 /\ call[c].pc \in Waiting
      BY <2>5 DEF Granted, At, Waiting, Acquiring
    <3>2. [call[c] EXCEPT !.pc = "secret", !.timer = (TTL - call[c].el) \div 2,
                          !.el = 0].pc = "secret"
      BY <2>0 DEF Call
    <3>3. PICK r : Set(c, r) /\ r.pc = "secret"
      BY <3>1, <3>2
    <3>4. QED
      BY <1>2, <3>1, <3>3, QueueLeft DEF Leased
  <2>6. CASE Refused(c)
    <3>1. call[c].pc \in Waiting
      BY <2>6 DEF Refused, At, Waiting, Acquiring
    <3>2. [call[c] EXCEPT !.pc = "queued", !.el = 0].pc = "queued"
      BY <2>0 DEF Call
    <3>3. CASE Set(c, [call[c] EXCEPT !.pc = "queued", !.el = 0]) /\ UNCHANGED waiters
      <4>1. PICK r : Set(c, r) /\ r.pc = "queued"
        BY <3>2, <3>3
      <4>2. QED
        BY <3>1, <3>3, <4>1, QueueKept DEF Waiting
    <3>4. CASE Set(c, NextGroup(call[c])) /\ waiters' = waiters - 1
      BY <1>1, <1>2, <3>1, <3>4, QueueLeft
    <3>5. QED
      BY <2>6, <3>3, <3>4 DEF Refused
  <2>7. CASE AcquireFails(c) \/ Undo(c)
    <3>1. /\ Set(c, Ended(call[c])) /\ waiters' = waiters - 1
          /\ call[c].pc \in Waiting
      BY <2>7 DEF AcquireFails, Undo, At, Waiting
    <3>2. QED
      BY <1>1, <1>2, <3>1, QueueLeft
  <2>8. QED
    BY <1>3, <2>1, <2>2, <2>3, <2>4, <2>5, <2>6, <2>7 DEF Admission
<1>4. ASSUME NEW c \in Calls, LeasedCall(c) PROVE WaitersExact'
  <2>0. call[c] \in Call
    BY <1>0
  <2>1. UNCHANGED waiters /\ call[c].pc \in Leased
    BY <1>4 DEF LeasedCall, SecretResolved, SecretFails, Wake, Refreshed, RenewRuns,
       Renewed, HeartbeatFails, TransportEnds, Record, Release, Beats, At, Leased
  <2>2. PICK r : Set(c, r) /\ r.pc \in {"init", "ended"} \cup Leased
    <3>1. \A x, h : /\ [Quiet(call[c], "release") EXCEPT !.prim = x].pc = "release"
                    /\ [Quiet(call[c], "record") EXCEPT !.prim = x].pc = "record"
                    /\ AfterLease([call[c] EXCEPT !.prim = x]).pc \in {"init", "ended"}
                    /\ ToSleep(call[c]).pc = "call"
                    /\ ToSleep([call[c] EXCEPT !.timer = x]).pc = "call"
                    /\ [call[c] EXCEPT !.hb = h].pc = call[c].pc
                    /\ [call[c] EXCEPT !.hb = h, !.el = 0].pc = call[c].pc
                    /\ [call[c] EXCEPT !.hb = h, !.over = 0].pc = call[c].pc
      BY <2>0 DEF Quiet, AfterLease, NextGroup, Ended, ToSleep, Call
    <3>2. CASE SecretFails(c) \/ HeartbeatFails(c) \/ TransportEnds(c) \/ Record(c)
      BY <3>1, <3>2 DEF SecretFails, HeartbeatFails, TransportEnds, Record, Leased
    <3>3. CASE Release(c)
      BY <3>1, <3>3 DEF Release
    <3>4. CASE SecretResolved(c) \/ Renewed(c)
      BY <3>1, <3>4 DEF SecretResolved, Renewed, Leased
    <3>5. CASE Wake(c) \/ Refreshed(c)
      BY <2>1, <3>1, <3>5 DEF Wake, Refreshed
    <3>6. CASE RenewRuns(c)
      BY <2>1, <3>1, <3>6 DEF RenewRuns
    <3>7. QED
      BY <1>4, <3>2, <3>3, <3>4, <3>5, <3>6 DEF LeasedCall
  <2>3. QED
    <3>1. r.pc \notin Waiting /\ call[c].pc \notin Waiting
      BY <1>2, <2>1, <2>2
    <3>2. QED
      BY <2>1, <2>2, <3>1, QueueKept
<1>5. ASSUME NEW c \in Calls, Cancel(c) PROVE WaitersExact'
  <2>1. CASE call[c].pc \in {"init", "queued"}
    <3>1. /\ Set(c, Ended(call[c]))
          /\ waiters' = IF At(c, "queued") THEN waiters - 1 ELSE waiters
      BY <1>5, <2>1 DEF Cancel, Acquiring
    <3>2. call[c].pc \in Waiting <=> At(c, "queued")
      BY <2>1 DEF At, Waiting, Acquiring
    <3>3. QED
      BY <1>1, <1>2, <3>1, <3>2, QueueLeft, QueueKept
  <2>2. CASE call[c].pc \in Acquiring
    <3>1. Set(c, Quiet(call[c], "undo")) /\ UNCHANGED waiters /\ call[c].pc \in Waiting
      BY <1>5, <2>2 DEF Cancel, Acquiring, Waiting
    <3>2. QED
      BY <1>1, <3>1, QueueKept DEF Waiting
  <2>3. CASE call[c].pc \in {"secret", "call"}
    <3>1. /\ Set(c, [Quiet(call[c], "release") EXCEPT !.prim = "cancel"])
          /\ UNCHANGED waiters /\ call[c].pc \in Leased
      BY <1>5, <2>3 DEF Cancel, Acquiring, Leased
    <3>2. QED
      <4>1. PICK r : Set(c, r) /\ r.pc = "release"
        BY <1>1, <3>1
      <4>2. r.pc \notin Waiting /\ call[c].pc \notin Waiting
        BY <1>2, <3>1, <4>1 DEF Leased
      <4>3. QED
        BY <3>1, <4>1, <4>2, QueueKept
  <2>4. QED
    BY <1>5, <2>1, <2>2, <2>3 DEF Cancel
<1>6. CASE UNCHANGED <<call, waiters>>
  BY <1>6 DEF QueueInv, WaitersExact
<1>7. CASE Crash
  <2>1. \A c \in Calls : call'[c].pc \in {"idle", "ended"}
    BY <1>1, <1>7 DEF Crash, Active
  <2>2. {c \in Calls : call'[c].pc \in Waiting} = {}
    BY <1>2, <2>1
  <2>3. waiters' = 0 /\ Cardinality({}) = 0
    BY <1>7, FS_EmptySet DEF Crash
  <2>4. QED
    BY <2>2, <2>3 DEF WaitersExact
<1>8. CASE Tick
  <2>1. \A c \in Calls : call'[c].pc = call[c].pc
    BY <1>0, <1>8 DEF Tick, Call
  <2>2. {c \in Calls : call'[c].pc \in Waiting} = {c \in Calls : call[c].pc \in Waiting}
    BY <2>1
  <2>3. QED
    BY <1>8, <2>2 DEF Tick, QueueInv, WaitersExact
<1>9. QED
  BY <1>3, <1>4, <1>5, <1>6, <1>7, <1>8 DEF Next, LateAcquire, LateRenew, Republish, vars

\* The bounded queue never loses a place, whichever way a call leaves it.
THEOREM QueueCountsWaiters == Spec => []WaitersExact
<1>1. Init => QueueInv
  <2> SUFFICES ASSUME Init PROVE QueueInv
    OBVIOUS
  <2>1. {c \in Calls : call[c].pc \in Waiting} = {}
    BY DEF Init, Waiting, Acquiring
  <2>2. QED
    BY <2>1, InitTyped, FS_EmptySet DEF Init, QueueInv, WaitersExact
<1>2. QueueInv => WaitersExact
  BY DEF QueueInv
<1>3. QED
  BY <1>1, <1>2, QueueStep, PTL DEF Spec

(***************************************************************************)
(* The gateway implements LeaseBook.                                       *)
(***************************************************************************)
\* A step that leaves a lease that was never held as it is.
Still(i) == lease[i] = 0 /\ i \notin spent => lease'[i] = 0 /\ i \notin spent'

\* What a step of a call may do: leave its group, or go on in it, and take its
\* lease or leave an acquisition behind only if it has not taken it yet.
LEMMA BookFrame ==
    ASSUME BookInv, NEW c \in Calls, NEW r, Set(c, r), r.grp \in Groups,
           \/ r.grp > call[c].grp
           \/ /\ r.grp = call[c].grp
              /\ r.pc \in Fresh => call[c].pc \in Fresh /\ UNCHANGED late,
           \A i \in Ids : \/ Still(i)
                          \/ /\ i = Id(c) /\ call[c].pc = "sent" /\ UNCHANGED late
                             /\ r.pc = "granted" /\ r.grp = call[c].grp,
           \A i \in Ids : <<"acquire", i>> \in late' =>
                             \/ <<"acquire", i>> \in late
                             \/ i = Id(c) /\ call[c].pc \in Fresh
    PROVE UntakenFresh' /\ LateFresh'
<1>0. \A d \in Calls : call'[d] = IF d = c THEN r ELSE call[d]
  BY DEF BookInv, TypeOK, Set
<1>1. call[c].pc \in Fresh => /\ lease[Id(c)] = 0 /\ Id(c) \notin spent
                              /\ <<"acquire", Id(c)>> \notin late
  BY IdTyped, IdParts DEF BookInv, UntakenFresh, Before
<1>2. call[c].grp \in Groups
  BY IdTyped DEF BookInv, Call
<1>3. ASSUME NEW i \in Ids, Before(i)'
      PROVE lease'[i] = 0 /\ i \notin spent' /\ <<"acquire", i>> \notin late'
  <2>0. i[1] \in Calls /\ i[2] \in Groups /\ i = <<i[1], i[2]>>
    BY IdParts
  <2>1. CASE i[1] # c
    <3>1. Before(i) /\ i # Id(c)
      BY <1>0, <1>3, <2>0, <2>1, IdParts DEF Before, Id
    <3>2. QED
      BY <3>1 DEF BookInv, UntakenFresh, Still
  <2>2. CASE i[1] = c /\ i[2] > call[c].grp
    <3>1. Before(i) /\ i # Id(c)
      BY <1>2, <2>0, <2>2, IdParts DEF Before, Groups
    <3>2. QED
      BY <3>1 DEF BookInv, UntakenFresh, Still
  <2>3. CASE i[1] = c /\ ~(i[2] > call[c].grp)
    <3>1. call'[c] = r /\ Id(c)' = <<c, r.grp>>
      BY <1>0 DEF Id
    <3>2. \/ i[2] > r.grp
          \/ i[2] = r.grp /\ r.pc \in Fresh
      BY <1>3, <2>3, <3>1 DEF Before
    <3>3. r.grp = call[c].grp /\ i[2] = r.grp /\ r.pc \in Fresh
      BY <1>2, <2>0, <2>3, <3>2 DEF Groups
    <3>4. i = Id(c) /\ call[c].pc \in Fresh /\ UNCHANGED late /\ r.pc # "granted"
      BY <1>2, <2>0, <2>3, <3>3 DEF Id, Groups, Fresh
    <3>5. QED
      BY <1>1, <3>4 DEF Still
  <2>4. QED
    BY <2>1, <2>2, <2>3
<1>4. ASSUME NEW i \in Ids, <<"acquire", i>> \in late'
      PROVE lease'[i] = 0 /\ i \notin spent'
  <2>1. CASE <<"acquire", i>> \in late
    <3>1. lease[i] = 0 /\ i \notin spent
      BY <2>1 DEF BookInv, LateFresh
    <3>2. ~(i = Id(c) /\ call[c].pc = "sent")
      BY <1>1, <2>1 DEF Fresh
    <3>3. QED
      BY <3>1, <3>2 DEF Still
  <2>2. CASE <<"acquire", i>> \notin late
    <3>1. i = Id(c) /\ call[c].pc \in Fresh /\ late' # late
      BY <1>4, <2>2
    <3>2. QED
      BY <1>1, <3>1 DEF Still
  <2>3. QED
    BY <2>1, <2>2
<1>5. QED
  BY <1>3, <1>4 DEF UntakenFresh, LateFresh

LEMMA RenewStill ==
    ASSUME TypeOK, NEW i \in Ids, Renew(i)
    PROVE \A j \in Ids : Still(j)
BY DEF TypeOK, Renew, Still

LEMMA RemoveStill ==
    ASSUME TypeOK, NEW i \in Ids, Remove(i)
    PROVE \A j \in Ids : Still(j)
BY DEF TypeOK, Remove, Still

LEMMA AcquireStill ==
    ASSUME TypeOK, NEW i \in Ids, Acquire(i) \/ Refuse(i)
    PROVE /\ \A j \in Ids : j # i => Still(j)
          /\ Refuse(i) => \A j \in Ids : Still(j)
BY DEF TypeOK, Acquire, Refuse, Grant, Still

\* A call that leaves its group is not fresh in it any more.
LEMMA LeavesGroup ==
    ASSUME NEW r \in Call
    PROVE /\ Ended(r).pc = "ended" /\ Ended(r).grp = r.grp
          /\ \/ NextGroup(r).pc = "ended" /\ NextGroup(r).grp = r.grp
             \/ /\ NextGroup(r).pc = "init" /\ NextGroup(r).grp > r.grp
                /\ NextGroup(r).grp \in Groups
<1>1. \A x \in Call : Ended(x).pc = "ended" /\ Ended(x).grp = x.grp
  BY DEF Ended, Quiet, Call
<1>2. r.grp \in Groups
  BY DEF Call
<1>3. r.grp < Chain =>
        /\ NextGroup(r).pc = "init" /\ NextGroup(r).grp = r.grp + 1
        /\ r.grp + 1 \in Groups /\ r.grp + 1 > r.grp
  BY <1>2, GatewayAssumption DEF NextGroup, Quiet, Call, Groups
<1>4. ~(r.grp < Chain) => NextGroup(r) = Ended(r)
  BY DEF NextGroup
<1>5. QED
  BY <1>1, <1>3, <1>4

LEMMA AdmissionFresh ==
    ASSUME BookInv, NEW c \in Calls, Admission(c)
    PROVE UntakenFresh' /\ LateFresh'
<1>0. /\ TypeOK /\ Id(c) \in Ids /\ call[c] \in Call /\ call[c].grp \in Groups
  BY IdTyped DEF BookInv, Call
<1>1. CASE Start(c) \/ Enqueue(c) \/ Poll(c) \/ AcquireRefuses(c)
  <2>1. /\ call[c].pc \in Fresh /\ UNCHANGED late
        /\ \A i \in Ids : Still(i)
    BY <1>0, <1>1, AcquireStill
       DEF Start, Enqueue, Poll, AcquireRefuses, Fresh, At, redis, Still
  <2>2. PICK r : Set(c, r) /\ r.grp = call[c].grp
    <3>1. /\ [call[c] EXCEPT !.pc = "init"].grp = call[c].grp
          /\ [call[c] EXCEPT !.pc = "queued", !.timer = Wait].grp = call[c].grp
          /\ [call[c] EXCEPT !.pc = "sent", !.el = 0].grp = call[c].grp
          /\ [call[c] EXCEPT !.pc = "refused"].grp = call[c].grp
      BY <1>0 DEF Call
    <3>2. QED
      BY <1>1, <3>1 DEF Start, Enqueue, Poll, AcquireRefuses
  <2>3. QED
    BY <1>0, <2>1, <2>2, BookFrame
<1>2. CASE QueueFull(c) \/ NotRegistered(c)
  <2>1. UNCHANGED late /\ \A i \in Ids : Still(i)
    BY <1>2 DEF QueueFull, NotRegistered, redis, Still
  <2>2. PICK r : /\ Set(c, r) /\ r.grp \in Groups
                 /\ r.grp > call[c].grp \/ (r.grp = call[c].grp /\ r.pc = "ended")
    BY <1>0, <1>2, LeavesGroup DEF QueueFull, NotRegistered
  <2>3. QED
    BY <2>1, <2>2, BookFrame DEF Fresh
<1>3. CASE AcquireGrants(c)
  <2>1. /\ Set(c, [call[c] EXCEPT !.pc = "granted"]) /\ call[c].pc = "sent"
        /\ UNCHANGED late /\ Acquire(Id(c))
    BY <1>3 DEF AcquireGrants, At
  <2>2. PICK r : Set(c, r) /\ r.pc = "granted" /\ r.grp = call[c].grp
    BY <1>0, <2>1 DEF Call
  <2>3. \A j \in Ids : j # Id(c) => Still(j)
    BY <1>0, <2>1, AcquireStill
  <2>4. QED
    BY <1>0, <2>1, <2>2, <2>3, BookFrame DEF Fresh
<1>4. CASE Granted(c)
  <2>1. /\ Set(c, [call[c] EXCEPT !.pc = "secret",
                                  !.timer = (TTL - call[c].el) \div 2, !.el = 0])
        /\ UNCHANGED late /\ \A i \in Ids : Still(i)
    BY <1>4 DEF Granted, redis, Still
  <2>2. PICK r : Set(c, r) /\ r.pc = "secret" /\ r.grp = call[c].grp
    <3> DEFINE q == [call[c] EXCEPT !.pc = "secret",
                                    !.timer = (TTL - call[c].el) \div 2, !.el = 0]
    <3>1. q.pc = "secret" /\ q.grp = call[c].grp
      BY <1>0 DEF Call
    <3>2. Set(c, q)
      BY <2>1
    <3> HIDE DEF q
    <3>3. QED
      BY <3>1, <3>2
  <2>3. QED
    BY <1>0, <2>1, <2>2, BookFrame DEF Fresh
<1>5. CASE Refused(c)
  <2>1. /\ UNCHANGED late /\ \A i \in Ids : Still(i)
        /\ call[c].pc = "refused"
    BY <1>5 DEF Refused, redis, Still, At
  <2>2. PICK r : /\ Set(c, r) /\ r.grp \in Groups
                 /\ \/ r.grp > call[c].grp
                    \/ r.grp = call[c].grp
    <3>1. [call[c] EXCEPT !.pc = "queued", !.el = 0].grp = call[c].grp
      BY <1>0 DEF Call
    <3>2. QED
      BY <1>0, <1>5, <3>1, LeavesGroup DEF Refused
  <2>3. QED
    BY <2>1, <2>2, BookFrame DEF Fresh
<1>6. CASE AcquireFails(c) \/ Undo(c)
  <2>1. Set(c, Ended(call[c])) /\ \A i \in Ids : Still(i)
    BY <1>0, <1>6, RemoveStill DEF AcquireFails, Undo, redis, Still
  <2>2. \A i \in Ids : <<"acquire", i>> \in late' =>
                         \/ <<"acquire", i>> \in late
                         \/ i = Id(c) /\ call[c].pc \in Fresh
    BY <1>6 DEF AcquireFails, Undo, At, Fresh
  <2>3. PICK r : Set(c, r) /\ r.pc = "ended" /\ r.grp = call[c].grp
    BY <1>0, <2>1, LeavesGroup
  <2>4. QED
    BY <1>0, <2>1, <2>2, <2>3, BookFrame DEF Fresh
<1>7. QED
  BY <1>1, <1>2, <1>3, <1>4, <1>5, <1>6 DEF Admission

LEMMA LeasedCallFresh ==
    ASSUME BookInv, NEW c \in Calls, LeasedCall(c)
    PROVE UntakenFresh' /\ LateFresh'
<1>0. /\ TypeOK /\ Id(c) \in Ids /\ call[c] \in Call /\ call[c].grp \in Groups
  BY IdTyped DEF BookInv, Call
<1>1. \A i \in Ids : <<"acquire", i>> \in late' => <<"acquire", i>> \in late
  BY DEF LeasedCall, SecretResolved, SecretFails, Wake, Refreshed, RenewRuns, Renewed,
         HeartbeatFails, TransportEnds, Record, Release, LateRenewOf
<1>2. \A i \in Ids : Still(i)
  <2>1. CASE RenewRuns(c)
    BY <1>0, <2>1, RenewStill DEF RenewRuns
  <2>2. CASE Release(c)
    BY <1>0, <2>2, RemoveStill DEF Release, Still
  <2>3. CASE ~RenewRuns(c) /\ ~Release(c)
    BY <2>3 DEF LeasedCall, SecretResolved, SecretFails, Wake, Refreshed, Renewed,
       HeartbeatFails, TransportEnds, Record, RecordOutcome, redis, Still
  <2>4. QED
    BY <2>1, <2>2, <2>3
<1>3. PICK r : /\ Set(c, r) /\ r.grp \in Groups
               /\ \/ r.grp > call[c].grp
                  \/ r.grp = call[c].grp /\ r.pc \notin Fresh
  <2>1. \A x, h : /\ [Quiet(call[c], "release") EXCEPT !.prim = x].pc = "release"
                  /\ [Quiet(call[c], "record") EXCEPT !.prim = x].pc = "record"
                  /\ ToSleep(call[c]).pc = "call"
                  /\ ToSleep([call[c] EXCEPT !.timer = x]).pc = "call"
                  /\ [call[c] EXCEPT !.hb = h].pc = call[c].pc
                  /\ [call[c] EXCEPT !.hb = h, !.el = 0].pc = call[c].pc
                  /\ [call[c] EXCEPT !.hb = h, !.over = 0].pc = call[c].pc
    BY <1>0 DEF Quiet, ToSleep, Call
  <2>2. \A x, h : /\ [Quiet(call[c], "release") EXCEPT !.prim = x].grp = call[c].grp
                  /\ [Quiet(call[c], "record") EXCEPT !.prim = x].grp = call[c].grp
                  /\ ToSleep(call[c]).grp = call[c].grp
                  /\ ToSleep([call[c] EXCEPT !.timer = x]).grp = call[c].grp
                  /\ [call[c] EXCEPT !.hb = h].grp = call[c].grp
                  /\ [call[c] EXCEPT !.hb = h, !.el = 0].grp = call[c].grp
                  /\ [call[c] EXCEPT !.hb = h, !.over = 0].grp = call[c].grp
    BY <1>0 DEF Quiet, ToSleep, Call
  <2>3. CASE SecretFails(c) \/ HeartbeatFails(c) \/ TransportEnds(c) \/ Record(c)
    BY <1>0, <2>1, <2>2, <2>3 DEF SecretFails, HeartbeatFails, TransportEnds, Record, Fresh
  <2>4. CASE Release(c)
    <3>1. PICK x \in Results :
            Set(c, AfterLease([call[c] EXCEPT !.prim = x]))
      <4>1. PICK fate \in Fates(c) :
              Set(c, AfterLease([call[c] EXCEPT !.prim = Settled(call[c].prim, fate)]))
        BY <2>4 DEF Release
      <4>2. Settled(call[c].prim, fate) \in Results
        BY <1>0, SettledTyped DEF Fates, Results, Call
      <4>3. QED
        BY <4>1, <4>2
    <3>2. /\ [call[c] EXCEPT !.prim = x] \in Call
          /\ [call[c] EXCEPT !.prim = x].grp = call[c].grp
      BY <1>0 DEF Call
    <3>3. QED
      <4> DEFINE q == [call[c] EXCEPT !.prim = x]
      <4>1. q \in Call /\ q.grp = call[c].grp /\ Set(c, AfterLease(q))
        BY <3>1, <3>2
      <4> HIDE DEF q
      <4>2. Set(c, NextGroup(q)) \/ Set(c, Ended(q))
        BY <4>1 DEF AfterLease
      <4>3. QED
        BY <1>0, <4>1, <4>2, LeavesGroup DEF Fresh
  <2>5. CASE SecretResolved(c) \/ Renewed(c)
    BY <1>0, <2>1, <2>2, <2>5 DEF SecretResolved, Renewed, Fresh
  <2>6. CASE Wake(c) \/ Refreshed(c)
    <3>1. call[c].pc \notin Fresh
      BY <2>6 DEF Wake, Refreshed, Beats, At, Fresh
    <3>2. \/ Set(c, [call[c] EXCEPT !.hb = "refresh"])
          \/ Set(c, [call[c] EXCEPT !.hb = "sent", !.el = 0])
      BY <2>6 DEF Wake, Refreshed
    <3>3. \A q : Set(c, q) /\ q.pc \notin Fresh /\ q.grp = call[c].grp =>
                 \E r : /\ Set(c, r) /\ r.grp \in Groups
                        /\ r.grp = call[c].grp /\ r.pc \notin Fresh
      BY <1>0
    <3>4. QED
      BY <2>1, <2>2, <3>1, <3>2, <3>3
  <2>7. CASE RenewRuns(c)
    <3>1. call[c].pc \notin Fresh
      BY <2>7 DEF RenewRuns, Beats, At, Fresh
    <3>2. \/ Set(c, [call[c] EXCEPT !.hb = "renewed", !.over = 0])
          \/ Set(c, [call[c] EXCEPT !.hb = "gone"])
      BY <2>7 DEF RenewRuns
    <3>3. \A q : Set(c, q) /\ q.pc \notin Fresh /\ q.grp = call[c].grp =>
                 \E r : /\ Set(c, r) /\ r.grp \in Groups
                        /\ r.grp = call[c].grp /\ r.pc \notin Fresh
      BY <1>0
    <3>4. QED
      BY <2>1, <2>2, <3>1, <3>2, <3>3
  <2>8. QED
    BY <2>3, <2>4, <2>5, <2>6, <2>7 DEF LeasedCall
<1>4. QED
  BY <1>1, <1>2, <1>3, BookFrame

LEMMA OtherFresh ==
    ASSUME BookInv,
           \/ \E c \in Calls : Cancel(c)
           \/ \E i \in Ids : LateAcquire(i) \/ LateRenew(i)
           \/ Crash
           \/ \E s \in Scopes : Republish(s)
           \/ Tick
    PROVE UntakenFresh' /\ LateFresh'
<1>0. /\ TypeOK
      /\ \A c \in Calls : Id(c) \in Ids /\ call[c] \in Call /\ call[c].grp \in Groups
  BY IdTyped DEF BookInv, Call
<1>1. ASSUME NEW c \in Calls, Cancel(c) PROVE UntakenFresh' /\ LateFresh'
  <2>1. \A i \in Ids : Still(i)
    BY <1>1 DEF Cancel, redis, Still
  <2>2. \A i \in Ids : <<"acquire", i>> \in late' =>
                         \/ <<"acquire", i>> \in late
                         \/ i = Id(c) /\ call[c].pc \in Fresh
    BY <1>1 DEF Cancel, At, Fresh, LateRenewOf
  <2>3. /\ Quiet(call[c], "undo").pc = "undo" /\ Quiet(call[c], "undo").grp = call[c].grp
        /\ [Quiet(call[c], "release") EXCEPT !.prim = "cancel"].pc = "release"
        /\ [Quiet(call[c], "release") EXCEPT !.prim = "cancel"].grp = call[c].grp
    BY <1>0 DEF Quiet, Call
  <2>4. PICK r : Set(c, r) /\ r.grp = call[c].grp /\ r.pc \in {"ended", "undo", "release"}
    BY <1>0, <1>1, <2>3, LeavesGroup DEF Cancel
  <2>5. QED
    BY <1>0, <2>1, <2>2, <2>4, BookFrame DEF Fresh
<1>2. ASSUME NEW i \in Ids, LateAcquire(i) PROVE UntakenFresh' /\ LateFresh'
  <2>1. /\ late' = late \ {<<"acquire", i>>} /\ UNCHANGED call
        /\ <<"acquire", i>> \in late
    BY <1>2 DEF LateAcquire
  <2>2. \A j \in Ids : j # i => Still(j)
    BY <1>0, <1>2, AcquireStill DEF LateAcquire
  <2>3. ~Before(i)
    BY <2>1 DEF BookInv, UntakenFresh
  <2>4. \A j \in Ids : Before(j)' <=> Before(j)
    BY <2>1 DEF Before, Id
  <2>5. QED
    BY <2>1, <2>2, <2>3, <2>4 DEF BookInv, UntakenFresh, LateFresh, Still
<1>3. ASSUME NEW i \in Ids, LateRenew(i) PROVE UntakenFresh' /\ LateFresh'
  <2>1. late' \subseteq late /\ UNCHANGED call
    BY <1>3 DEF LateRenew
  <2>2. \A j \in Ids : Still(j)
    BY <1>0, <1>3, RenewStill DEF LateRenew
  <2>3. \A j \in Ids : Before(j)' <=> Before(j)
    BY <2>1 DEF Before, Id
  <2>4. QED
    BY <2>1, <2>2, <2>3 DEF BookInv, UntakenFresh, LateFresh, Still
<1>4. CASE Crash
  <2>1. UNCHANGED <<lease, spent>>
    BY <1>4 DEF Crash, redis
  <2>2. ASSUME NEW i \in Ids, <<"acquire", i>> \in late', <<"acquire", i>> \notin late
        PROVE Before(i) /\ ~Before(i)'
    <3>1. \A c \in Calls : <<"acquire", i>> \notin LateRenewOf(c)
      BY DEF LateRenewOf
    <3>2. PICK c \in Calls : At(c, "sent") /\ i = Id(c)
      BY <1>4, <2>2, <3>1 DEF Crash, Active
    <3>3. call'[c] = Ended(call[c])
      BY <1>4, <3>2 DEF Crash, Active, At
    <3>4. call'[c].pc = "ended" /\ call'[c].grp = call[c].grp
      BY <1>0, <3>3, LeavesGroup
    <3>5. i[1] = c /\ i[2] = call[c].grp
      BY <3>2 DEF Id
    <3>6. QED
      BY <1>0, <3>2, <3>4, <3>5 DEF Before, Fresh, At, Groups
  <2>3. \A c \in Calls : /\ call'[c].grp = call[c].grp
                         /\ call'[c].pc \in Fresh => call[c].pc \in Fresh
    BY <1>0, <1>4, LeavesGroup DEF Crash, Fresh
  <2>4. \A i \in Ids : Before(i)' => Before(i)
    BY <2>3, IdParts DEF Before, Id
  <2>5. QED
    BY <2>1, <2>2, <2>4 DEF BookInv, UntakenFresh, LateFresh
<1>5. ASSUME NEW s \in Scopes, Republish(s) PROVE UntakenFresh' /\ LateFresh'
  BY <1>5 DEF BookInv, Republish, UntakenFresh, LateFresh, Before, Id
<1>6. CASE Tick
  <2>1. \A c \in Calls : call'[c].pc = call[c].pc /\ call'[c].grp = call[c].grp
    BY <1>0, <1>6 DEF Tick, Call
  <2>2. \A i \in Ids : Before(i)' => Before(i)
    BY <2>1, IdParts DEF Before, Id
  <2>3. \A i \in Ids : Still(i)
    <3>1. ASSUME NEW i \in Ids PROVE lease'[i] = Countdown(lease[i])
      BY <1>6 DEF Tick
    <3>2. Countdown(0) = 0
      BY CountdownFacts
    <3>3. QED
      <4> SUFFICES ASSUME NEW i \in Ids, lease[i] = 0, i \notin spent
                   PROVE lease'[i] = 0 /\ i \notin spent'
        BY DEF Still
      <4>1. lease'[i] = 0
        BY <3>1, <3>2
      <4>2. spent' = spent \cup {j \in Ids : lease[j] = 1}
        BY <1>6 DEF Tick
      <4>3. lease[i] # 1
        BY 0 # 1
      <4>4. QED
        BY <4>1, <4>2, <4>3
  <2>4. QED
    BY <1>6, <2>2, <2>3 DEF Tick, BookInv, UntakenFresh, LateFresh, Still
<1>7. QED
  BY <1>1, <1>2, <1>3, <1>4, <1>5, <1>6

LEMMA BookInvStep == BookInv /\ [Next]_vars => BookInv'
<1>1. BookInv /\ Next => UntakenFresh' /\ LateFresh'
  BY AdmissionFresh, LeasedCallFresh, OtherFresh DEF Next
<1>2. BookInv /\ UNCHANGED vars => UntakenFresh' /\ LateFresh'
  BY DEF BookInv, UntakenFresh, LateFresh, Before, Id, vars, redis
<1>3. QED
  BY <1>1, <1>2, StepTyped DEF BookInv

LEMMA IdsFinite == IsFiniteSet(Ids)
<1>1. 1 \in Int /\ Chain \in Int
  BY GatewayAssumption
<1>2. IsFiniteSet(Groups)
  BY <1>1, FS_Interval DEF Groups
<1>3. QED
  BY <1>2, FS_Product, GatewayAssumption DEF Ids

\* The leases that count.
Held == {i \in Ids : lease[i] > 0}

LEMMA LiveInScope ==
    ASSUME NEW s
    PROVE Book!InScope(s, Held) = Live(s)
BY DEF Book!InScope, Held, Live

\* The book's variables, as the gateway keeps them.
BookVars == <<Held, spent, Allowed>>

LEMMA AllowedTyped == TypeOK => Allowed \in [Scopes -> 0..MaxBase]
<1> SUFFICES ASSUME TypeOK, NEW s \in Scopes
             PROVE (IF base[s] = 0 THEN 0 ELSE Effective(s)) \in 0..MaxBase
  BY DEF Allowed
<1>1. base[s] \in 0..MaxBase /\ MaxBase \in Nat
  BY GatewayAssumption DEF TypeOK
<1>2. base[s] > 0 => Effective(s) \in 1..base[s]
  BY EffectiveBounds
<1>3. QED
  BY <1>1, <1>2

LEMMA AllowedFrame == ASSUME UNCHANGED <<base, eff>> PROVE Allowed' = Allowed
BY DEF Allowed, Effective

\* The script writes the limit it read.
LEMMA AcquireAllows ==
    ASSUME TypeOK, NEW i \in Ids, Acquire(i) \/ Refuse(i)
    PROVE Allowed' = Allowed
<1>1. Scope(i) \in Scopes /\ base[Scope(i)] > 0
  BY GatewayAssumption DEF Ids, Scope, Groups, Acquire, Refuse
<1>2. Effective(Scope(i)) \in 1..base[Scope(i)] /\ base[Scope(i)] \in 1..MaxBase
  BY <1>1, EffectiveBounds
<1>3. base' = base /\ eff' = [eff EXCEPT ![Scope(i)] = Effective(Scope(i))]
  BY DEF Acquire, Refuse
<1>4. ASSUME NEW s \in Scopes PROVE Effective(s)' = Effective(s)
  <2>1. CASE s = Scope(i)
    <3>1. eff'[s] = Effective(s) /\ base'[s] = base[s]
      BY <1>1, <1>3, <2>1 DEF TypeOK
    <3>2. Effective(s) \in Nat /\ Effective(s) >= 1 /\ Effective(s) <= base[s] /\ base[s] \in Nat
      BY <1>2, <2>1
    <3>3. Effective(s)' = Max2(1, Min2(IF eff'[s] = 0 THEN base'[s] ELSE eff'[s], base'[s]))
      BY DEF Effective
    <3>4. QED
      BY <3>1, <3>2, <3>3 DEF Max2, Min2
  <2>2. CASE s # Scope(i)
    <3>1. eff'[s] = eff[s] /\ base'[s] = base[s]
      BY <1>3, <2>2 DEF TypeOK
    <3>2. QED
      BY <3>1 DEF Effective
  <2>3. QED
    BY <2>1, <2>2
<1>5. QED
  BY <1>3, <1>4 DEF Allowed

\* An outcome or a registration touches one scope and no lease.
LEMMA AdjustStep ==
    ASSUME TypeOK, TypeOK', NEW s \in Scopes, UNCHANGED <<lease, spent>>,
           \A q \in Scopes : q # s => base'[q] = base[q] /\ eff'[q] = eff[q]
    PROVE Book!Adjust(s)
<1>1. Allowed'[s] \in 0..MaxBase
  <2>1. base'[s] \in 0..MaxBase /\ eff'[s] \in 0..MaxBase /\ MaxBase \in Nat \ {0}
    BY GatewayAssumption DEF TypeOK
  <2>2. Effective(s)' = Max2(1, Min2(IF eff'[s] = 0 THEN base'[s] ELSE eff'[s], base'[s]))
    BY DEF Effective
  <2>3. Effective(s)' \in 0..MaxBase
    BY <2>1, <2>2 DEF Max2, Min2
  <2>4. Allowed'[s] = IF base'[s] = 0 THEN 0 ELSE Effective(s)'
    BY DEF Allowed
  <2>5. QED
    BY <2>1, <2>3, <2>4
<1>2. \A q \in Scopes : q # s => Allowed'[q] = Allowed[q]
  BY DEF Allowed, Effective
<1>3. Allowed' = [Allowed EXCEPT ![s] = Allowed'[s]]
  BY <1>2 DEF Allowed
<1>4. Held' = Held
  BY DEF Held
<1>5. QED
  BY <1>1, <1>3, <1>4 DEF Book!Adjust, Held

\* A lease that is granted while there is room, and was never held.
LEMMA GrantStep ==
    ASSUME BookInv, NEW i \in Ids, Acquire(i), lease[i] = 0, i \notin spent
    PROVE Book!Grant(i)
<1>1. Scope(i) \in Scopes /\ base[Scope(i)] > 0 /\ TypeOK
  BY GatewayAssumption DEF Ids, Scope, Groups, Acquire, BookInv
<1>2. Allowed[Scope(i)] = Effective(Scope(i))
  BY <1>1 DEF Allowed
<1>3. Cardinality(Live(Scope(i))) < Allowed[Scope(i)]
  BY <1>2 DEF Acquire, Room
<1>4. [j \in Ids |-> Scope(j)][i] = Scope(i)
  OBVIOUS
<1>5. Held' = Held \cup {i} /\ UNCHANGED spent /\ i \notin Held
  BY GatewayAssumption DEF Acquire, Grant, BookInv, TypeOK, Held
<1>6. Book!InScope([j \in Ids |-> Scope(j)][i], Held) = Live(Scope(i))
  BY <1>4, LiveInScope
<1>7. Cardinality(Book!InScope([j \in Ids |-> Scope(j)][i], Held))
        < Allowed[[j \in Ids |-> Scope(j)][i]]
  BY <1>3, <1>4, <1>6
<1>8. i \notin Held \cup spent /\ Allowed' = Allowed
  BY <1>1, <1>5, AcquireAllows
<1>9. \A S : Book!Cardinality(S) = Cardinality(S)
  BY DEF Book!Cardinality, Cardinality
<1>10. QED
  BY <1>5, <1>7, <1>8, <1>9 DEF Book!Grant, Held

LEMMA RemoveStep ==
    ASSUME TypeOK, NEW i \in Ids, Remove(i), UNCHANGED <<base, eff>>
    PROVE (\E L \in SUBSET Held : Book!End(L)) \/ UNCHANGED BookVars
<1>0. Allowed' = Allowed
  BY AllowedFrame
<1>1. CASE lease[i] > 0
  <2>1. Held' = Held \ {i} /\ spent' = spent \cup {i} /\ {i} \in SUBSET Held
    BY <1>1 DEF Remove, TypeOK, Held
  <2>2. Book!End({i})
    BY <1>0, <2>1 DEF Book!End, Held
  <2>3. QED
    BY <2>1, <2>2
<1>2. CASE ~(lease[i] > 0)
  <2>1. lease[i] = 0
    BY <1>2, GatewayAssumption DEF TypeOK
  <2>2. lease' = lease /\ spent' = spent
    BY <2>1, <1>2 DEF Remove, TypeOK
  <2>3. QED
    BY <1>0, <2>2 DEF Held, BookVars
<1>3. QED
  BY <1>1, <1>2

LEMMA TickStep ==
    ASSUME TypeOK, Tick
    PROVE \E L \in SUBSET Held : Book!End(L)
<1> DEFINE L == {i \in Ids : lease[i] = 1}
<1>1. ASSUME NEW i \in Ids
      PROVE lease'[i] > 0 <=> lease[i] > 0 /\ lease[i] # 1
  <2>1. lease[i] \in Nat
    BY GatewayAssumption DEF TypeOK
  <2>2. lease'[i] = Countdown(lease[i])
    BY DEF Tick
  <2>3. QED
    BY <2>1, <2>2, CountdownFacts
<1>2. Held' = Held \ L
  BY <1>1 DEF Held
<1>3. L \in SUBSET Held
  BY DEF Held
<1>4. spent' = spent \cup L
  BY DEF Tick
<1> HIDE DEF L
<1>5. PICK S : S = L
  OBVIOUS
<1>6. Allowed' = Allowed
  BY AllowedFrame DEF Tick
<1>7. S \in SUBSET Held /\ Book!End(S)
  BY <1>2, <1>3, <1>4, <1>5, <1>6 DEF Book!End, Held
<1>8. QED
  BY <1>7

\* Each step of the gateway is a step of the book, or leaves it as it is.
LEMMA BookStep == BookInv /\ [Next]_vars => [Book!Next]_BookVars
<1> SUFFICES ASSUME BookInv, [Next]_vars PROVE [Book!Next]_BookVars
  OBVIOUS
<1>0. TypeOK /\ \A c \in Calls : Id(c) \in Ids
  BY IdTyped DEF BookInv
<1>t. TypeOK'
  BY StepTyped DEF BookInv
<1>1. CASE UNCHANGED <<lease, spent, base, eff>>
  BY <1>1, AllowedFrame DEF Held, BookVars
<1>2. ASSUME NEW i \in Ids, Acquire(i), lease[i] = 0, i \notin spent
      PROVE Book!Next
  BY <1>2, GrantStep DEF Book!Next
<1>3. ASSUME NEW i \in Ids, Renew(i) PROVE UNCHANGED BookVars
  <2>1. Held' = Held /\ Allowed' = Allowed
    BY <1>0, <1>3, RenewLeases, AllowedFrame DEF Held, Renew
  <2>2. QED
    BY <1>3, <2>1 DEF Renew, BookVars
<1>4. ASSUME NEW i \in Ids, Remove(i), UNCHANGED <<base, eff>> PROVE [Book!Next]_BookVars
  BY <1>0, <1>4, RemoveStep DEF Book!Next, Held
<1>r. ASSUME NEW i \in Ids, Refuse(i) PROVE UNCHANGED BookVars
  BY <1>0, <1>r, AcquireAllows DEF Refuse, Held, BookVars
<1>5. ASSUME NEW c \in Calls, Admission(c) PROVE [Book!Next]_BookVars
  <2>1. CASE AcquireGrants(c)
    <3>1. Before(Id(c)) /\ Acquire(Id(c))
      BY <2>1, IdParts DEF AcquireGrants, Before, Fresh, At
    <3>2. QED
      BY <1>0, <1>2, <3>1 DEF BookInv, UntakenFresh
  <2>2. CASE Undo(c)
    BY <1>0, <1>1, <1>4, <2>2 DEF Undo
  <2>r. CASE AcquireRefuses(c)
    BY <1>0, <1>r, <2>r DEF AcquireRefuses
  <2>3. CASE ~AcquireGrants(c) /\ ~AcquireRefuses(c) /\ ~Undo(c)
    <3>1. UNCHANGED <<lease, spent, base, eff>>
      BY <1>5, <2>3 DEF Admission, Start, Enqueue, QueueFull, NotRegistered, Poll, Granted, Refused, AcquireFails, redis
    <3>2. QED
      BY <1>1, <3>1
  <2>4. QED
    BY <2>1, <2>2, <2>r, <2>3
<1>6. ASSUME NEW c \in Calls, LeasedCall(c) PROVE [Book!Next]_BookVars
  <2>1. CASE RenewRuns(c)
    BY <1>0, <1>3, <2>1 DEF RenewRuns
  <2>2. CASE Release(c)
    BY <1>0, <1>1, <1>4, <2>2 DEF Release
  <2>r. CASE Record(c)
    <3>1. PICK slow \in BOOLEAN : \/ RecordOutcome(Scope(Id(c)), call[c].prim, slow)
                                  \/ UNCHANGED redis
      BY <2>r DEF Record
    <3>2. UNCHANGED <<lease, spent>> /\ Scope(Id(c)) \in Scopes
      BY <1>0, <2>r, <3>1, GatewayAssumption DEF Record, RecordOutcome, redis, Ids, Scope, Groups
    <3>3. \A q \in Scopes : q # Scope(Id(c)) => base'[q] = base[q] /\ eff'[q] = eff[q]
      BY <1>0, <3>1 DEF RecordOutcome, redis, TypeOK
    <3>4. Book!Adjust(Scope(Id(c)))
      BY <1>0, <1>t, <3>2, <3>3, AdjustStep
    <3>5. QED
      BY <3>2, <3>4 DEF Book!Next
  <2>3. CASE ~RenewRuns(c) /\ ~Release(c) /\ ~Record(c)
    <3>1. UNCHANGED <<lease, spent, base, eff>>
      BY <1>6, <2>3 DEF LeasedCall, SecretResolved, SecretFails, Wake, Refreshed, Renewed,
         HeartbeatFails, TransportEnds, redis
    <3>2. QED
      BY <1>1, <3>1
  <2>4. QED
    BY <2>1, <2>2, <2>r, <2>3
<1>7. ASSUME NEW c \in Calls, Cancel(c) PROVE [Book!Next]_BookVars
  BY <1>1, <1>7 DEF Cancel, redis
<1>8. ASSUME NEW i \in Ids, LateAcquire(i) PROVE [Book!Next]_BookVars
  <2>1. lease[i] = 0 /\ i \notin spent
    BY <1>8 DEF LateAcquire, BookInv, LateFresh
  <2>2. CASE Refuse(i)
    BY <1>r, <2>2
  <2>3. QED
    BY <1>2, <1>8, <2>1, <2>2 DEF LateAcquire
<1>9. ASSUME NEW i \in Ids, LateRenew(i) PROVE [Book!Next]_BookVars
  BY <1>3, <1>9 DEF LateRenew
<1>10. CASE Crash
  BY <1>1, <1>10 DEF Crash, redis
<1>11. ASSUME NEW s \in Scopes, Republish(s) PROVE [Book!Next]_BookVars
  <2>1. /\ UNCHANGED <<lease, spent>>
        /\ \A q \in Scopes : q # s => base'[q] = base[q] /\ eff'[q] = eff[q]
    BY <1>0, <1>11 DEF Republish, TypeOK
  <2>2. Book!Adjust(s)
    BY <1>0, <1>t, <2>1, AdjustStep
  <2>3. QED
    BY <2>2 DEF Book!Next
<1>12. CASE Tick
  BY <1>0, <1>12, TickStep DEF Book!Next, Held
<1>13. CASE UNCHANGED vars
  BY <1>1, <1>13 DEF vars, redis
<1>14. QED
  BY <1>5, <1>6, <1>7, <1>8, <1>9, <1>10, <1>11, <1>12, <1>13 DEF Next

LEMMA BookInvariant == Spec => []BookInv
<1>1. Init => BookInv
  BY InitTyped DEF Init, BookInv, UntakenFresh, LateFresh
<1>2. QED
  BY <1>1, BookInvStep, PTL DEF Spec

\* A lease is granted only within what policies and health allow at that moment,
\* however far below the leases held it was lowered before, and no late
\* acquisition, late renewal or heartbeat brings back a lease that ended.
THEOREM GatewayKeepsBook == Spec => ImplementsLeaseBook
<1>1. Init => Book!Init
  BY InitTyped, AllowedTyped DEF Init, Book!Init
<1>2. BookInv /\ [Next]_vars => [Book!Next]_BookVars
  BY BookStep
<1>3. QED
  BY <1>1, <1>2, BookInvariant, PTL DEF Spec, ImplementsLeaseBook, Book!Spec, Book!vars, BookVars,
     Held

\* The live leases of a scope fit into the largest limit its policies may have.
LimitKept == \A s \in Scopes : Cardinality(Live(s)) <= MaxBase

LEMMA LimitStep ==
    ASSUME TypeOK, [Book!Next]_BookVars, LimitKept
    PROVE LimitKept'
<1> SUFFICES ASSUME NEW s \in Scopes PROVE Cardinality(Live(s)') <= MaxBase
  BY DEF LimitKept
<1>0. Live(s) = {i \in Held : Scope(i) = s} /\ Live(s)' = {i \in Held' : Scope(i) = s}
  BY DEF Live, Held
<1>1. Cardinality(Live(s)) <= MaxBase
  BY DEF LimitKept
<1>2. IsFiniteSet(Live(s)) /\ IsFiniteSet(Live(s)')
  BY IdsFinite, FS_Subset DEF Live
<1>3. Cardinality(Live(s)) \in Nat /\ Cardinality(Live(s)') \in Nat
  BY <1>2, FS_CardinalityType
<1>4. CASE Held' \subseteq Held
  <2>1. Live(s)' \subseteq Live(s)
    BY <1>0, <1>4
  <2>2. Cardinality(Live(s)') <= Cardinality(Live(s))
    BY <1>2, <2>1, FS_Subset
  <2>3. QED
    BY <1>1, <1>3, <2>2, GatewayAssumption
<1>5. ASSUME NEW i \in Ids, Book!Grant(i) PROVE Cardinality(Live(s)') <= MaxBase
  <2>1. /\ Held' = Held \cup {i}
        /\ Book!Cardinality(Book!InScope([j \in Ids |-> Scope(j)][i], Held))
             < Allowed[[j \in Ids |-> Scope(j)][i]]
    BY <1>5 DEF Book!Grant, Held
  <2>2. CASE Scope(i) = s
    <3>1. [j \in Ids |-> Scope(j)][i] = s
      BY <2>2
    <3>2. \A S : Book!Cardinality(S) = Cardinality(S)
      BY DEF Book!Cardinality, Cardinality
    <3>3. Book!InScope([j \in Ids |-> Scope(j)][i], Held) = Live(s)
      BY <3>1, LiveInScope
    <3>4. Cardinality(Live(s)) < MaxBase
      <4>1. Cardinality(Live(s)) < Allowed[s]
        BY <2>1, <3>1, <3>2, <3>3
      <4>2. Allowed[s] \in 0..MaxBase
        BY AllowedTyped
      <4>3. QED
        BY <1>3, <4>1, <4>2, GatewayAssumption
    <3>5. Live(s)' = Live(s) \cup {i}
      BY <1>0, <2>1, <2>2
    <3>6. Cardinality(Live(s)') <= Cardinality(Live(s)) + 1
      BY <1>2, <1>3, <3>5, FS_AddElement
    <3>7. QED
      BY <1>3, <3>4, <3>6, GatewayAssumption
  <2>3. CASE Scope(i) # s
    <3>1. Live(s)' = Live(s)
      BY <1>0, <2>1, <2>3
    <3>2. QED
      BY <1>1, <3>1
  <2>4. QED
    BY <2>2, <2>3
<1>6. CASE UNCHANGED BookVars
  BY <1>4, <1>6 DEF BookVars
<1>7. ASSUME NEW L \in SUBSET Held, Book!End(L) PROVE Held' \subseteq Held
  BY <1>7 DEF Book!End, Held
<1>8. CASE Book!Next
  <2>1. ASSUME NEW q \in Scopes, Book!Adjust(q) PROVE Held' \subseteq Held
    BY <2>1 DEF Book!Adjust, Held
  <2>2. QED
    BY <1>4, <1>5, <1>7, <1>8, <2>1 DEF Book!Next, Held
<1>9. QED
  BY <1>6, <1>8

\* What the book is kept for, from its steps alone: no interleaving of calls,
\* late commands and shrinking policies brings a scope above the largest limit
\* that any of its policies may have.
THEOREM ScopeWithinLimit == Spec => [](\A s \in Scopes : Cardinality(Live(s)) <= MaxBase)
<1>1. Init => LimitKept
  <2> SUFFICES ASSUME Init, NEW s \in Scopes PROVE Cardinality(Live(s)) <= MaxBase
    BY DEF LimitKept
  <2>1. Live(s) = {}
    BY DEF Init, Live
  <2>2. QED
    BY <2>1, FS_EmptySet, GatewayAssumption
<1>2. BookInv /\ [Next]_vars /\ LimitKept => LimitKept'
  BY BookStep, LimitStep DEF BookInv
<1>3. QED
  BY <1>1, <1>2, BookInvariant, PTL DEF Spec, LimitKept
=============================================================================
