---------------------------- MODULE ModelGateway ----------------------------
(***************************************************************************)
(* A model call from ModelGateway.complete to its end: the leases, limits  *)
(* and cooldowns of quota scopes in Redis (models/capacity.py and the      *)
(* scripts of models/redis), and the coroutines of the calls that use them *)
(* (models/gateway.py).                                                    *)
(*                                                                         *)
(* A script runs atomically; the command that carries it may be executed   *)
(* long after it was sent, its reply may be late or lost, and a call that  *)
(* is cancelled or disconnected leaves its command on the way.  Time is    *)
(* what is left of it: a lease, a cooldown or a sleep counts down by one   *)
(* at every Tick, and nothing else takes a bounded time.                   *)
(*                                                                         *)
(* Each call walks its fallback chain, one group of candidates after the   *)
(* other, and holds at most one lease of each.  The choice among the       *)
(* deployments of one scope, the token buckets' contents and the latency   *)
(* samples are left open: any answer they could give is a choice.          *)
(***************************************************************************)
EXTENDS Integers, FiniteSets

CONSTANTS
    Calls,         \* calls of complete_with_context in one process
    Scopes,        \* quota scopes
    Chain,         \* length of the fallback chain
    ScopeOf,       \* [1..Chain -> Scopes]
    MaxBase,       \* largest base limit a policy may have
    TTL,           \* lease_seconds
    Interval,      \* heartbeat_interval
    Cooldown,      \* cooldown_seconds
    Wait,          \* capacity_wait_timeout
    MaxWaiters     \* max_waiters

Groups == 1..Chain
Ids == Calls \X Groups

ASSUME GatewayAssumption ==
    /\ Chain \in Nat \ {0}
    /\ ScopeOf \in [Groups -> Scopes]
    /\ MaxBase \in Nat \ {0}
    /\ TTL \in Nat \ {0}
    /\ Interval \in Nat \ {0}
    /\ Cooldown \in Nat \ {0}
    /\ Wait \in Nat
    /\ MaxWaiters \in Nat \ {0}
    /\ IsFiniteSet(Calls)

VARIABLES
    lease,         \* per lease id, the time it has left; 0 is none
    base,          \* per scope, the registered limit; 0 is no policy
    eff,           \* per scope, the effective limit; 0 is no health record
    cool,          \* per scope, the cooldown left
    late,          \* commands whose sender no longer waits for them
    call,          \* per call, where it is
    waiters,       \* CapacityPool._waiters
    cancelled,     \* history: calls that were cancelled
    spent,         \* history: leases that were held and are no longer
    leaky          \* history: leases that no one is left to release

redis == <<lease, base, eff, cool>>
vars == <<redis, late, call, waiters, cancelled, spent, leaky>>

\* The unplanned delays a heartbeat survives: the half of the lease it never
\* plans to sleep.
Half == TTL - TTL \div 2

Min2(a, b) == IF a < b THEN a ELSE b
Max2(a, b) == IF a > b THEN a ELSE b

Acquiring == {"sent", "granted", "refused"}
Waiting == {"queued", "undo"} \cup Acquiring
Leased == {"secret", "call", "record", "release"}
Pcs == {"idle", "init", "ended"} \cup Waiting \cup Leased
Heartbeats == {"off", "sleep", "refresh", "sent", "renewed", "gone"}

\* A call: where it is in its chain; the wait or sleep that is left; the time
\* since it sent its command; the time since its lease was granted or renewed
\* that the heartbeat did not plan to sleep; and how it stands: no failure yet,
\* one that the fallback chain may follow (with or without a sign of an
\* unhealthy provider), one it may not.
Results == {"none", "throttled", "retry", "fatal", "cancel"}
Retryable == {"throttled", "retry"}

Call == [pc : Pcs, grp : Groups, timer : Nat, el : 0..TTL, over : 0..Half,
         hb : Heartbeats, prim : Results]

TypeOK ==
    /\ lease \in [Ids -> 0..TTL]
    /\ base \in [Scopes -> 0..MaxBase]
    /\ eff \in [Scopes -> 0..MaxBase]
    /\ cool \in [Scopes -> 0..Cooldown]
    /\ late \subseteq {"acquire", "renew"} \X Ids
    /\ call \in [Calls -> Call]
    /\ waiters \in Int
    /\ cancelled \subseteq Calls
    /\ spent \subseteq Ids
    /\ leaky \subseteq Ids

Init ==
    /\ lease = [i \in Ids |-> 0]
    /\ base = [s \in Scopes |-> MaxBase]
    /\ eff = [s \in Scopes |-> MaxBase]
    /\ cool = [s \in Scopes |-> 0]
    /\ late = {}
    /\ call = [c \in Calls |-> [pc |-> "idle", grp |-> 1, timer |-> 0, el |-> 0,
                                over |-> 0, hb |-> "off", prim |-> "none"]]
    /\ waiters = 0
    /\ cancelled = {}
    /\ spent = {}
    /\ leaky = {}

(***************************************************************************)
(* Helpers.                                                                *)
(***************************************************************************)
At(c, pc) == call[c].pc = pc
Beats(c, hb) == At(c, "call") /\ call[c].hb = hb
Id(c) == <<c, call[c].grp>>
Scope(i) == ScopeOf[i[2]]
Live(s) == {i \in Ids : Scope(i) = s /\ lease[i] > 0}

\* A failure takes effect unless an earlier one did.
Settled(prim, new) == IF prim = "none" THEN new ELSE prim

\* The effective limit as every script reads it.
Effective(s) == Max2(1, Min2(IF eff[s] = 0 THEN base[s] ELSE eff[s], base[s]))

Quiet(r, pc) ==
    [r EXCEPT !.pc = pc, !.timer = 0, !.el = 0, !.over = 0, !.hb = "off"]

\* The call returns or raises; which of the two is left out.
Ended(r) == [Quiet(r, "ended") EXCEPT !.prim = "none"]

\* A record of call c that leaves this group: for the next one, or for good.
NextGroup(r) ==
    IF r.grp < Chain
    THEN [Quiet(r, "init") EXCEPT !.grp = r.grp + 1, !.prim = "none"]
    ELSE Ended(r)

Set(c, r) == call' = [call EXCEPT ![c] = r]

\* A lease is removed; it is spent if it was held.
Remove(i) ==
    /\ lease' = [lease EXCEPT ![i] = 0]
    /\ spent' = IF lease[i] > 0 THEN spent \cup {i} ELSE spent

(***************************************************************************)
(* The scripts.                                                            *)
(***************************************************************************)
\* Fault: a scope whose limit is reached has room for one more.
RoomForOneMore(s) == Cardinality(Live(s)) <= Effective(s)

\* acquire_lease.lua: expired leases are gone, and a new one is added while
\* there is room for it.
Room(s) == Cardinality(Live(s)) < Effective(s)

Grant(i) ==
    /\ lease' = [lease EXCEPT ![i] = TTL]
    /\ UNCHANGED spent

Acquire(i) ==
    /\ base[Scope(i)] > 0
    /\ Room(Scope(i))
    /\ Grant(i)
    /\ eff' = [eff EXCEPT ![Scope(i)] = Effective(Scope(i))]
    /\ UNCHANGED <<base, cool>>

\* No room in the scope, or no token in one of its buckets.
Refuse(i) ==
    /\ base[Scope(i)] > 0
    /\ eff' = [eff EXCEPT ![Scope(i)] = Effective(Scope(i))]
    /\ UNCHANGED <<lease, spent, base, cool>>

\* Fault: the renewal is added to what is left.
RenewAdds(i) ==
    /\ lease' = [lease EXCEPT ![i] = IF lease[i] > 0 THEN lease[i] + TTL ELSE 0]
    /\ UNCHANGED <<spent, base, eff, cool>>

\* renew_lease.lua: only a lease that is still there is extended.
Renew(i) ==
    /\ lease' = [lease EXCEPT ![i] = IF lease[i] > 0 THEN TTL ELSE 0]
    /\ UNCHANGED <<spent, base, eff, cool>>

\* Fault: a success restores a slot before the cooldown is over.
RecordOutcomeEager(s, prim, slow) ==
    LET current == Effective(s) IN
    /\ base[s] > 0
    /\ IF prim = "throttled" \/ slow
       THEN /\ eff' = [eff EXCEPT ![s] = Max2(1, current \div 2)]
            /\ cool' = [cool EXCEPT ![s] = Cooldown]
       ELSE /\ eff' = [eff EXCEPT ![s] = IF prim = "none" /\ current < base[s]
                                        THEN current + 1 ELSE current]
            /\ UNCHANGED cool
    /\ UNCHANGED <<lease, base>>

\* record_outcome.lua: an unhealthy sample halves the limit and starts a
\* cooldown, a success after the cooldown restores one slot.  A slow sample
\* is one that takes the 95th percentile over its threshold.
RecordOutcome(s, prim, slow) ==
    LET current == Effective(s) IN
    /\ base[s] > 0
    /\ IF prim = "throttled" \/ slow
       THEN /\ eff' = [eff EXCEPT ![s] = Max2(1, current \div 2)]
            /\ cool' = [cool EXCEPT ![s] = Cooldown]
       ELSE /\ eff' = [eff EXCEPT ![s] =
                         IF prim = "none" /\ cool[s] = 0 /\ current < base[s]
                         THEN current + 1 ELSE current]
            /\ UNCHANGED cool
    /\ UNCHANGED <<lease, base>>

(***************************************************************************)
(* CapacityPool.initialize and acquire.                                    *)
(***************************************************************************)
Start(c) ==
    /\ At(c, "idle")
    /\ Set(c, [call[c] EXCEPT !.pc = "init"])
    /\ UNCHANGED <<redis, late, waiters, cancelled, spent, leaky>>

\* The registration is current: wait in the queue, if there is room.
Enqueue(c) ==
    /\ At(c, "init")
    /\ waiters < MaxWaiters
    /\ waiters' = waiters + 1
    /\ Set(c, [call[c] EXCEPT !.pc = "queued", !.timer = Wait])
    /\ UNCHANGED <<redis, late, cancelled, spent, leaky>>

\* Fault: the call is counted before the queue is found full.
QueueFullCounted(c) ==
    /\ At(c, "init")
    /\ waiters >= MaxWaiters
    /\ Set(c, NextGroup(call[c]))
    /\ waiters' = waiters + 1
    /\ UNCHANGED <<redis, late, cancelled, spent, leaky>>

\* CapacityQueueFull: the next group of the chain.
QueueFull(c) ==
    /\ At(c, "init")
    /\ waiters >= MaxWaiters
    /\ Set(c, NextGroup(call[c]))
    /\ UNCHANGED <<redis, late, waiters, cancelled, spent, leaky>>

\* initialize or _require_initialized raises: no fallback.
NotRegistered(c) ==
    /\ At(c, "init")
    /\ Set(c, Ended(call[c]))
    /\ UNCHANGED <<redis, late, waiters, cancelled, spent, leaky>>

Poll(c) ==
    /\ At(c, "queued")
    /\ Set(c, [call[c] EXCEPT !.pc = "sent", !.el = 0])
    /\ UNCHANGED <<redis, late, waiters, cancelled, spent, leaky>>

AcquireGrants(c) ==
    /\ At(c, "sent")
    /\ Acquire(Id(c))
    /\ Set(c, [call[c] EXCEPT !.pc = "granted"])
    /\ UNCHANGED <<late, waiters, cancelled, leaky>>

AcquireRefuses(c) ==
    /\ At(c, "sent")
    /\ Refuse(Id(c))
    /\ Set(c, [call[c] EXCEPT !.pc = "refused"])
    /\ UNCHANGED <<late, waiters, cancelled, leaky>>

\* The lease is the caller's; half of what is left of it, as far as the
\* caller can tell, is the delay before the first renewal.
Granted(c) ==
    /\ At(c, "granted")
    /\ Set(c, [call[c] EXCEPT !.pc = "secret", !.timer = (TTL - call[c].el) \div 2,
                              !.el = 0])
    /\ waiters' = waiters - 1
    /\ UNCHANGED <<redis, late, cancelled, spent, leaky>>

\* Fault: the deadline is not looked at.
RefusedForever(c) ==
    /\ At(c, "refused")
    /\ Set(c, [call[c] EXCEPT !.pc = "queued", !.el = 0])
    /\ UNCHANGED <<redis, late, waiters, cancelled, spent, leaky>>

\* Sleep and poll again, or CapacityWaitTimeout: the next group.
Refused(c) ==
    /\ At(c, "refused")
    /\ \/ /\ call[c].timer > 0
          /\ Set(c, [call[c] EXCEPT !.pc = "queued", !.el = 0])
          /\ UNCHANGED waiters
       \/ /\ call[c].timer = 0
          /\ Set(c, NextGroup(call[c]))
          /\ waiters' = waiters - 1
    /\ UNCHANGED <<redis, late, cancelled, spent, leaky>>

\* The command fails: its reply is lost, or it never arrives, or there is no
\* policy.  Nothing releases what it may have added.
AcquireFails(c) ==
    /\ call[c].pc \in Acquiring
    /\ Set(c, Ended(call[c]))
    /\ waiters' = waiters - 1
    /\ late' = IF At(c, "sent") THEN late \cup {<<"acquire", Id(c)>>} ELSE late
    /\ leaky' = IF At(c, "refused") THEN leaky ELSE leaky \cup {Id(c)}
    /\ UNCHANGED <<redis, cancelled, spent>>

\* _release_id_ignoring_errors, for a call cancelled while it acquired.
Undo(c) ==
    /\ At(c, "undo")
    /\ \/ Remove(Id(c)) /\ UNCHANGED leaky
       \/ leaky' = leaky \cup {Id(c)} /\ UNCHANGED <<lease, spent>>
    /\ Set(c, Ended(call[c]))
    /\ waiters' = waiters - 1
    /\ UNCHANGED <<base, eff, cool, late, cancelled>>

(***************************************************************************)
(* _complete_leased: the secret, then the transport beside its heartbeat.  *)
(***************************************************************************)
\* The heartbeat goes to sleep; r holds the delay the renewal allows.
ToSleep(r) == [r EXCEPT !.pc = "call", !.hb = "sleep", !.el = 0,
                        !.timer = Min2(Interval, r.timer)]

SecretResolved(c) ==
    /\ At(c, "secret")
    /\ Set(c, ToSleep(call[c]))
    /\ UNCHANGED <<redis, late, waiters, cancelled, spent, leaky>>

\* Fault: the secret is resolved outside the try whose finally releases.
SecretFailsUnreleased(c) ==
    /\ At(c, "secret")
    /\ Set(c, Ended(call[c]))
    /\ UNCHANGED <<redis, late, waiters, cancelled, spent, leaky>>

SecretFails(c) ==
    /\ At(c, "secret")
    /\ Set(c, [Quiet(call[c], "release") EXCEPT !.prim = "fatal"])
    /\ UNCHANGED <<redis, late, waiters, cancelled, spent, leaky>>

\* renew begins with a forced refresh of the registration.
Wake(c) ==
    /\ Beats(c, "sleep")
    /\ call[c].timer = 0
    /\ Set(c, [call[c] EXCEPT !.hb = "refresh"])
    /\ UNCHANGED <<redis, late, waiters, cancelled, spent, leaky>>

Refreshed(c) ==
    /\ Beats(c, "refresh")
    /\ Set(c, [call[c] EXCEPT !.hb = "sent", !.el = 0])
    /\ UNCHANGED <<redis, late, waiters, cancelled, spent, leaky>>

\* Fault: that the lease is gone goes unnoticed.
RenewRunsUnchecked(c) ==
    /\ Beats(c, "sent")
    /\ Renew(Id(c))
    /\ Set(c, [call[c] EXCEPT !.hb = "renewed", !.over = 0])
    /\ UNCHANGED <<late, waiters, cancelled, leaky>>

RenewRuns(c) ==
    /\ Beats(c, "sent")
    /\ Renew(Id(c))
    /\ Set(c, IF lease[Id(c)] > 0
              THEN [call[c] EXCEPT !.hb = "renewed", !.over = 0]
              ELSE [call[c] EXCEPT !.hb = "gone"])
    /\ UNCHANGED <<late, waiters, cancelled, leaky>>

Renewed(c) ==
    /\ Beats(c, "renewed")
    /\ Set(c, ToSleep([call[c] EXCEPT !.timer = (TTL - call[c].el) \div 2]))
    /\ UNCHANGED <<redis, late, waiters, cancelled, spent, leaky>>

\* The command of a heartbeat that ends may still be on its way.
LateRenewOf(c) == IF Beats(c, "sent") THEN {<<"renew", Id(c)>>} ELSE {}

\* The heartbeat raises: the lease is gone, the refresh or the renewal failed,
\* or the replies left no time to sleep four times in a row.
\* The transport is cancelled and no outcome recorded.
HeartbeatFails(c) ==
    /\ \/ Beats(c, "gone") \/ Beats(c, "refresh") \/ Beats(c, "sent")
       \/ Beats(c, "renewed")
    /\ late' = late \cup LateRenewOf(c)
    /\ Set(c, [Quiet(call[c], "release") EXCEPT !.prim = "fatal"])
    /\ UNCHANGED <<redis, waiters, cancelled, spent, leaky>>

\* The transport ends first: the heartbeat is cancelled wherever it is.
TransportEnds(c) ==
    /\ At(c, "call")
    /\ \E result \in Results \ {"cancel"} :
         Set(c, [Quiet(call[c], "record") EXCEPT !.prim = result])
    /\ late' = late \cup LateRenewOf(c)
    /\ UNCHANGED <<redis, waiters, cancelled, spent, leaky>>

\* The fates of an awaited command: its reply comes, it fails, or the call is
\* cancelled, and in the last two cases it may have been executed.
Fates(c) == {"none", "fatal"} \cup (IF c \in cancelled THEN {} ELSE {"cancel"})

Cancels(c, fate) == cancelled' = IF fate = "cancel" THEN cancelled \cup {c} ELSE cancelled

Record(c) ==
    /\ At(c, "record")
    /\ \E fate \in Fates(c), executed \in BOOLEAN, slow \in BOOLEAN :
         /\ fate = "none" => executed
         /\ IF executed THEN RecordOutcome(Scope(Id(c)), call[c].prim, slow)
                        ELSE UNCHANGED redis
         /\ Cancels(c, fate)
         /\ Set(c, [Quiet(call[c], "release") EXCEPT
                      !.prim = Settled(call[c].prim, fate)])
    /\ UNCHANGED <<late, waiters, spent, leaky>>

\* After _complete_leased: a retryable failure goes on to the next group.
AfterLease(r) == IF r.prim \in Retryable THEN NextGroup(r) ELSE Ended(r)

Release(c) ==
    /\ At(c, "release")
    /\ \E fate \in Fates(c), executed \in BOOLEAN :
         /\ fate = "none" => executed
         /\ IF executed
            THEN Remove(Id(c)) /\ UNCHANGED leaky
            ELSE leaky' = leaky \cup {Id(c)} /\ UNCHANGED <<lease, spent>>
         /\ Cancels(c, fate)
         /\ Set(c, AfterLease([call[c] EXCEPT !.prim = Settled(call[c].prim, fate)]))
    /\ UNCHANGED <<base, eff, cool, late, waiters>>

(***************************************************************************)
(* Cancellation, stragglers, crashes, registrations and time.              *)
(***************************************************************************)
\* The caller is cancelled while it waits for anything but the outcome and
\* the release, whose fates include it.
Cancel(c) ==
    /\ c \notin cancelled
    /\ cancelled' = cancelled \cup {c}
    /\ \/ /\ call[c].pc \in {"init", "queued"}
          /\ Set(c, Ended(call[c]))
          /\ waiters' = IF At(c, "queued") THEN waiters - 1 ELSE waiters
          /\ UNCHANGED late
       \/ /\ call[c].pc \in Acquiring
          /\ Set(c, Quiet(call[c], "undo"))
          /\ late' = IF At(c, "sent") THEN late \cup {<<"acquire", Id(c)>>} ELSE late
          /\ UNCHANGED waiters
       \/ /\ call[c].pc \in {"secret", "call"}
          /\ Set(c, [Quiet(call[c], "release") EXCEPT !.prim = "cancel"])
          /\ late' = late \cup LateRenewOf(c)
          /\ UNCHANGED waiters
    /\ leaky' = IF At(c, "sent") THEN leaky \cup {Id(c)} ELSE leaky
    /\ UNCHANGED <<redis, spent>>

\* A command without a sender is executed after all.
LateAcquire(i) ==
    /\ <<"acquire", i>> \in late
    /\ late' = late \ {<<"acquire", i>>}
    /\ Acquire(i) \/ Refuse(i)
    /\ UNCHANGED <<call, waiters, cancelled, leaky>>

\* Fault: the heartbeat is not cancelled with its transport, and renews again.
LateRenewAgain(i) ==
    /\ <<"renew", i>> \in late
    /\ Renew(i)
    /\ UNCHANGED <<late, call, waiters, cancelled, leaky>>

LateRenew(i) ==
    /\ <<"renew", i>> \in late
    /\ late' = late \ {<<"renew", i>>}
    /\ Renew(i)
    /\ UNCHANGED <<call, waiters, cancelled, leaky>>

Active == {c \in Calls : call[c].pc \notin {"idle", "ended"}}

\* The process dies, and another serves the calls that had not started.
Crash ==
    /\ Active # {}
    /\ call' = [c \in Calls |-> IF c \in Active THEN Ended(call[c]) ELSE call[c]]
    /\ waiters' = 0
    /\ late' = late \cup (UNION {LateRenewOf(c) : c \in Active})
                    \cup {<<"acquire", Id(c)>> : c \in {d \in Calls : At(d, "sent")}}
    /\ leaky' = leaky \cup {Id(c) : c \in Active}
    /\ UNCHANGED <<redis, cancelled, spent>>

\* The policy of a scope as the registrations of all processes leave it: the
\* health record never exceeds a new policy; with the last policy it is deleted
\* or expires, unless a script has given it a longer life.
Republish(s) ==
    /\ \E b \in 0..MaxBase \ {base[s]} :
         /\ base' = [base EXCEPT ![s] = b]
         /\ \/ /\ eff' = [eff EXCEPT ![s] = IF @ = 0 THEN b ELSE Min2(@, b)]
               /\ cool' = IF b = 0 THEN [cool EXCEPT ![s] = 0] ELSE cool
            \/ b = 0 /\ UNCHANGED <<eff, cool>>
    /\ UNCHANGED <<lease, late, call, waiters, cancelled, spent, leaky>>

Countdown(n) == Max2(0, n - 1)

\* Time passes for a command on its way and for whoever sleeps or waits.
InFlight(c) == call[c].pc \in {"sent", "granted"} \/ Beats(c, "sent") \/ Beats(c, "renewed")

TimerRuns(c) == call[c].pc \in Waiting \ {"undo", "granted"} \/ Beats(c, "sleep")

\* The heartbeat does not plan for this: a reply, a secret or a refresh that
\* takes its time, a sleep that is over.
Unplanned(c) ==
    \/ call[c].pc \in {"granted", "secret"}
    \/ At(c, "call") /\ ~(Beats(c, "sleep") /\ call[c].timer > 0)

Tick ==
    /\ lease' = [i \in Ids |-> Countdown(lease[i])]
    /\ spent' = spent \cup {i \in Ids : lease[i] = 1}
    /\ cool' = [s \in Scopes |-> Countdown(cool[s])]
    /\ call' = [c \in Calls |-> [call[c] EXCEPT
                 !.timer = IF TimerRuns(c) THEN Countdown(@) ELSE @,
                 !.el = IF InFlight(c) THEN Min2(TTL, @ + 1) ELSE @,
                 !.over = IF Unplanned(c) THEN Min2(Half, @ + 1) ELSE @]]
    /\ UNCHANGED <<base, eff, late, waiters, cancelled, leaky>>

(***************************************************************************)
(* The next-state relation.                                                *)
(***************************************************************************)
Admission(c) ==
    \/ Start(c) \/ Enqueue(c) \/ QueueFull(c) \/ NotRegistered(c)
    \/ Poll(c) \/ AcquireGrants(c) \/ AcquireRefuses(c)
    \/ Granted(c) \/ Refused(c) \/ AcquireFails(c) \/ Undo(c)

LeasedCall(c) ==
    \/ SecretResolved(c) \/ SecretFails(c)
    \/ Wake(c) \/ Refreshed(c) \/ RenewRuns(c) \/ Renewed(c) \/ HeartbeatFails(c)
    \/ TransportEnds(c) \/ Record(c) \/ Release(c)

Next ==
    \/ \E c \in Calls : Admission(c) \/ LeasedCall(c) \/ Cancel(c)
    \/ \E i \in Ids : LateAcquire(i) \/ LateRenew(i)
    \/ Crash
    \/ \E s \in Scopes : Republish(s)
    \/ Tick

Spec == Init /\ [][Next]_vars

\* A call's coroutine runs when it can, every command gets a reply or an error,
\* the transport has a timeout, and time passes.  Calls need not come, and
\* nothing is assumed of heartbeats.
Progress(c) ==
    /\ ~At(c, "idle")
    /\ \/ Admission(c)
       \/ ~At(c, "call") /\ LeasedCall(c)
       \/ TransportEnds(c)

Fairness ==
    /\ \A c \in Calls : WF_vars(Progress(c))
    /\ WF_vars(Tick)

FairSpec == Spec /\ Fairness

(***************************************************************************)
(* Properties.                                                             *)
(***************************************************************************)
\* A lease outlives the part of its call that uses it only if no one could
\* tell that it had been granted or could reach it to release it: every way
\* out of an acquisition or of _complete_leased, error, cancellation or
\* fallback, gives the slot back.
OnlyOwnersHold ==
    \A i \in Ids : lease[i] > 0 =>
        \/ /\ i = Id(i[1])
           /\ call[i[1]].pc \in {"granted", "undo"} \cup Leased
        \/ i \in leaky

\* The bounded queue never loses a place: _waiters counts exactly the calls
\* inside acquire, whichever way each of them leaves it.
WaitersExact == waiters = Cardinality({c \in Calls : call[c].pc \in Waiting})

\* The transport runs only under a lease that still counts against its scope,
\* unless what the heartbeat does not plan for (a slow reply, secret, refresh
\* or event loop) took half a lease since the last grant or renewal.
TransportIsLeased ==
    \A c \in Calls : At(c, "call") /\ call[c].over < Half => lease[Id(c)] > 0

\* While a scope cools down no success, registration or admission brings its
\* limit above half of what its policies may allow.
CooldownHalvesLimit ==
    \A s \in Scopes : cool[s] > 0 => eff[s] \in 1..Max2(1, MaxBase \div 2)

\* What is allowed of a scope: without a policy nothing is granted.
Allowed == [s \in Scopes |-> IF base[s] = 0 THEN 0 ELSE Effective(s)]

\* A slot is granted only within what policies and health allow when the script
\* runs, however late it runs and however many leases were held when the limit
\* was lowered below them; and no late acquisition, late renewal or heartbeat
\* brings back a lease that ended.
Book == INSTANCE LeaseBook WITH
    Leases <- Ids,
    ScopeOfLease <- [i \in Ids |-> Scope(i)],
    Limit <- MaxBase,
    held <- {i \in Ids : lease[i] > 0},
    allowed <- Allowed

ImplementsLeaseBook == Book!Spec

\* The slot of a call that is over, however it ended and whatever was lost,
\* is free again in the end.
LeakHeals ==
    \A i \in Ids : lease[i] > 0 /\ At(i[1], "ended") ~> lease[i] = 0

\* Nothing a call waits for keeps it for ever: every call ends.
EveryCallEnds == \A c \in Calls : At(c, "init") ~> At(c, "ended")
=============================================================================
