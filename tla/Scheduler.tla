------------------------------ MODULE Scheduler ------------------------------
(***************************************************************************)
(* Schedules: SchedulerService, which holds them in the memory of the API  *)
(* process, the handlers of /schedules, which copy them to the database    *)
(* and back around each request, and the run service, whose idempotency    *)
(* key makes a fire that is submitted again the run that it already is.    *)
(*                                                                         *)
(* The process is one event loop: what a handler does between two of its   *)
(* awaits of the database or of the run service is one step.  The lock of  *)
(* the service is never held over such an await.                           *)
(***************************************************************************)
EXTENDS Integers

CONSTANTS
    Schedules,     \* the ids that schedules are created with
    Requests,      \* slots of the handlers that run at a time
    MaxTime,       \* bound: the last moment of the clock
    MaxRestarts    \* bound on restarts of the process

ASSUME SchedulerAssumption == MaxTime \in Nat \ {0} /\ MaxRestarts \in Nat

Times == 1..MaxTime

VARIABLES
    clock,
    spec,          \* per schedule, what it was created with
    mem,           \* _schedules: the next fire of each, 0 of one completed
    submitted,     \* _submitted_fires
    docs,          \* the persisted documents of the schedules
    runs,          \* per fire that has a run, the latest now of the ticks it was
                   \* submitted by; 0 of one that has none
    handler,       \* per request, its handler
    dropped,       \* history: marked fires whose submission was cancelled
    gone,          \* history: schedules whose deletion was answered
    revived,       \* history: of those, whose deletion another handler overlapped
    overtaken,     \* history: schedules that were deleted while they were submitted
    restarts

vars == <<clock, spec, mem, submitted, docs, runs, handler, dropped, gone, revived,
          overtaken, restarts>>

\* A cron schedule fires at every moment from its first, a one-time one once;
\* one that skips does not fire late.
Specs == [kind : {"once", "cron"}, policy : {"fire_once", "skip"}, first : 1..MaxTime + 1]

Unborn == [kind |-> "none", policy |-> "none", first |-> 0]

Dicts == UNION {[S -> 0..MaxTime + 1] : S \in SUBSET Schedules}
Empty == [s \in {} |-> 0]
Fires == [schedule : Schedules, at : Times]
NoFire == [schedule |-> "none", at |-> 0]

Idle == [pc |-> "idle", op |-> "none", id |-> "none", now |-> 0, seen |-> Empty, fire |-> NoFire]

\* seen is what a handler has read and will write: the documents, or the
\* schedules it persists.
Handlers ==
    [pc : {"idle", "created", "read", "submitting", "accepted", "persisting", "deleting"},
     op : {"none", "list", "tick", "delete"}, id : Schedules \cup {"none"},
     now : 0..MaxTime, seen : Dicts, fire : Fires \cup {NoFire}]

TypeOK ==
    /\ clock \in Times
    /\ spec \in [Schedules -> Specs \cup {Unborn}]
    /\ mem \in Dicts /\ docs \in Dicts
    /\ submitted \subseteq Fires
    /\ runs \in [Fires -> 0..MaxTime]
    /\ handler \in [Requests -> Handlers]
    /\ dropped \subseteq Fires
    /\ gone \subseteq Schedules /\ revived \subseteq Schedules /\ overtaken \subseteq Schedules
    /\ restarts \in 0..MaxRestarts

Init ==
    /\ clock = 1
    /\ spec = [s \in Schedules |-> Unborn]
    /\ mem = Empty /\ docs = Empty
    /\ submitted = {}
    /\ runs = [f \in Fires |-> 0]
    /\ handler = [h \in Requests |-> Idle]
    /\ dropped = {}
    /\ gone = {} /\ revived = {} /\ overtaken = {}
    /\ restarts = 0

Known(dict) == DOMAIN dict
Without(dict, s) == [q \in Known(dict) \ {s} |-> dict[q]]
With(dict, s, n) == [q \in Known(dict) \cup {s} |-> IF q = s THEN n ELSE dict[q]]

\* add_schedule of those that memory does not hold.
Restored(dict) == [s \in Known(mem) \cup Known(dict) |-> IF s \in Known(mem) THEN mem[s] ELSE dict[s]]

NextAfter(s, t) == IF spec[s].kind = "cron" THEN t + 1 ELSE 0

At(h, pc) == handler[h].pc = pc
Becomes(h, r) == handler' = [handler EXCEPT ![h] = r]
Ends(h) == Becomes(h, Idle)

(***************************************************************************)
(* SchedulerService.tick.                                                  *)
(***************************************************************************)
\* Fault: what fires at the next moment counts as due.
DueSoon(dict, now) == {s \in Known(dict) : dict[s] \in 1..now + 1}
Due(dict, now) == {s \in Known(dict) : dict[s] \in 1..now}

\* What is due and late is skipped, and not submitted.
Late(dict, now) == {s \in Due(dict, now) : spec[s].policy = "skip" /\ dict[s] < now}

Fire(dict, s) == [schedule |-> s, at |-> dict[s]]

Skip(dict, S, now) == [s \in Known(dict) |-> IF s \in S THEN NextAfter(s, now) ELSE dict[s]]

\* _next_due_request takes the first that is due and not being submitted; which
\* late ones it meets before depends on the order of creation.  When there is
\* none, the tick returns and its handler lists what it will persist.
TakeDue(h, dict, fires, now) ==
    LET late == Late(dict, now)
        ready == {s \in Due(dict, now) \ late : Fire(dict, s) \notin fires}
    IN \/ \E s \in ready, skipped \in SUBSET late :
            /\ mem' = Skip(dict, skipped, now)
            /\ submitted' = fires \cup {Fire(dict, s)}
            /\ Becomes(h, [Idle EXCEPT !.pc = "submitting", !.op = "tick", !.now = now,
                                       !.fire = Fire(dict, s)])
       \/ /\ ready = {}
          /\ mem' = Skip(dict, late, now)
          /\ submitted' = fires
          /\ Becomes(h, IF Known(dict) = {} THEN Idle
                        ELSE [Idle EXCEPT !.pc = "persisting", !.op = "tick", !.now = now,
                                          !.seen = Skip(dict, late, now)])

\* RunService.submit commits the run, or finds the one that has its key.
Submit(h) ==
    LET f == handler[h].fire IN
    /\ At(h, "submitting")
    /\ runs' = [runs EXCEPT ![f] = IF handler[h].now > @ THEN handler[h].now ELSE @]
    /\ Becomes(h, [handler[h] EXCEPT !.pc = "accepted"])
    /\ UNCHANGED <<clock, spec, mem, submitted, docs, dropped, gone, revived, overtaken, restarts>>

\* Fault: the fire is not released.
SubmitFailsHeld(h) ==
    /\ At(h, "submitting") \/ At(h, "accepted")
    /\ Ends(h)
    /\ UNCHANGED <<clock, spec, mem, submitted, docs, runs, dropped, gone, revived, overtaken, restarts>>

\* It raises, before it commits or after: the fire is released for the next
\* tick, and nothing that this one has done is persisted.
SubmitFails(h) ==
    /\ At(h, "submitting") \/ At(h, "accepted")
    /\ submitted' = submitted \ {handler[h].fire}
    /\ Ends(h)
    /\ UNCHANGED <<clock, spec, mem, docs, runs, dropped, gone, revived, overtaken, restarts>>

\* The request is cancelled: CancelledError is no Exception, and the fire stays
\* marked although no one submits it any more.
SubmitCancelled(h) ==
    /\ At(h, "submitting") \/ At(h, "accepted")
    /\ dropped' = dropped \cup ({handler[h].fire} \cap submitted)
    /\ Ends(h)
    /\ UNCHANGED <<clock, spec, mem, submitted, docs, runs, gone, revived, overtaken, restarts>>

\* Fault: the schedule moves past the present instead of the moment of the tick.
SubmittedPastClock(h) ==
    LET s == handler[h].fire.schedule
        now == handler[h].now
        dict == IF s \in Known(mem) THEN With(mem, s, NextAfter(s, clock)) ELSE mem
    IN /\ At(h, "accepted")
       /\ TakeDue(h, dict, submitted, now)
       /\ UNCHANGED <<clock, spec, docs, runs, dropped, gone, revived, overtaken, restarts>>

\* Fault: the schedule is written without a look whether it is still there.
SubmittedUnchecked(h) ==
    LET s == handler[h].fire.schedule
        now == handler[h].now
    IN /\ At(h, "accepted")
       /\ TakeDue(h, With(mem, s, NextAfter(s, now)), submitted, now)
       /\ UNCHANGED <<clock, spec, docs, runs, dropped, gone, revived, overtaken, restarts>>

\* Its reply: the schedule, if it is still there, moves past the tick, and the
\* tick goes on.
Submitted(h) ==
    LET s == handler[h].fire.schedule
        now == handler[h].now
        dict == IF s \in Known(mem) THEN With(mem, s, NextAfter(s, now)) ELSE mem
    IN /\ At(h, "accepted")
       /\ TakeDue(h, dict, submitted, now)
       /\ UNCHANGED <<clock, spec, docs, runs, dropped, gone, revived, overtaken, restarts>>

(***************************************************************************)
(* The handlers of the API.                                                *)
(***************************************************************************)
\* create_schedule, and the upsert that follows.
Create(h, s, r) ==
    /\ At(h, "idle")
    /\ spec[s] = Unborn
    /\ r.kind = "cron" => r.first = clock + 1
    /\ spec' = [spec EXCEPT ![s] = r]
    /\ mem' = With(mem, s, r.first)
    /\ Becomes(h, [Idle EXCEPT !.pc = "created", !.seen = With(Empty, s, r.first)])
    /\ UNCHANGED <<clock, submitted, docs, runs, dropped, gone, revived, overtaken, restarts>>

\* _restore_persisted_schedules reads the documents.  A tick has its now from
\* the client: it may be behind the clock, or ahead of it.
Read(h, op, id, now) ==
    /\ At(h, "idle")
    /\ Becomes(h, [Idle EXCEPT !.pc = "read", !.op = op, !.id = id, !.now = now, !.seen = docs])
    /\ UNCHANGED <<clock, spec, mem, submitted, docs, runs, dropped, gone, revived, overtaken, restarts>>

ListSchedules(h) ==
    /\ At(h, "read") /\ handler[h].op = "list"
    /\ mem' = Restored(handler[h].seen)
    /\ Ends(h)
    /\ UNCHANGED <<clock, spec, submitted, docs, runs, dropped, gone, revived, overtaken, restarts>>

TickSchedules(h) ==
    /\ At(h, "read") /\ handler[h].op = "tick"
    /\ TakeDue(h, Restored(handler[h].seen), submitted, handler[h].now)
    /\ UNCHANGED <<clock, spec, docs, runs, dropped, gone, revived, overtaken, restarts>>

\* SchedulerService.delete_schedule forgets the schedule and its fires.
DeleteSchedule(h) ==
    LET s == handler[h].id
        dict == Restored(handler[h].seen)
    IN /\ At(h, "read") /\ handler[h].op = "delete"
       /\ mem' = Without(dict, s)
       /\ IF s \in Known(dict)
          THEN /\ submitted' = {f \in submitted : f.schedule # s}
               /\ dropped' = {f \in dropped : f.schedule # s}
               /\ overtaken' = IF \E g \in Requests : handler[g].fire.schedule = s
                               THEN overtaken \cup {s} ELSE overtaken
               /\ Becomes(h, [Idle EXCEPT !.pc = "deleting", !.id = s])
          ELSE UNCHANGED <<submitted, dropped, overtaken>> /\ Ends(h)
       /\ UNCHANGED <<clock, spec, docs, runs, gone, revived, restarts>>

Holds(h, s) == s \in Known(handler[h].seen)

DeleteDocument(h) ==
    LET s == handler[h].id IN
    /\ At(h, "deleting")
    /\ docs' = Without(docs, s)
    /\ gone' = gone \cup {s}
    /\ revived' = IF s \in Known(mem) \/ \E g \in Requests : Holds(g, s)
                  THEN revived \cup {s} ELSE revived \ {s}
    /\ Ends(h)
    /\ UNCHANGED <<clock, spec, mem, submitted, runs, dropped, overtaken, restarts>>

\* _upsert_admin_payload, one schedule at a time.
Persist(h, s) ==
    LET rest == Without(handler[h].seen, s) IN
    /\ At(h, "persisting") \/ At(h, "created")
    /\ Holds(h, s)
    /\ docs' = With(docs, s, handler[h].seen[s])
    /\ Becomes(h, IF Known(rest) = {} THEN Idle ELSE [handler[h] EXCEPT !.seen = rest])
    /\ UNCHANGED <<clock, spec, mem, submitted, runs, dropped, gone, revived, overtaken, restarts>>

\* The database fails, or the request is cancelled: what was done in memory stays.
DatabaseFails(h) ==
    /\ At(h, "read") \/ At(h, "created") \/ At(h, "persisting") \/ At(h, "deleting")
    /\ Ends(h)
    /\ UNCHANGED <<clock, spec, mem, submitted, docs, runs, dropped, gone, revived, overtaken, restarts>>

(***************************************************************************)
(* Time, and restarts of the process.                                      *)
(***************************************************************************)
Pass ==
    /\ clock < MaxTime
    /\ clock' = clock + 1
    /\ UNCHANGED <<spec, mem, submitted, docs, runs, handler, dropped, gone, revived, overtaken,
                   restarts>>

Restart ==
    /\ restarts < MaxRestarts
    /\ restarts' = restarts + 1
    /\ mem' = Empty /\ submitted' = {} /\ dropped' = {} /\ overtaken' = {}
    /\ handler' = [h \in Requests |-> Idle]
    /\ UNCHANGED <<clock, spec, docs, runs, gone, revived>>

Next ==
    \/ \E h \in Requests :
         \/ \E s \in Schedules : (\E r \in Specs : Create(h, s, r)) \/ Persist(h, s)
         \/ Read(h, "list", "none", 0)
         \/ \E now \in Times : Read(h, "tick", "none", now)
         \/ \E s \in Schedules : Read(h, "delete", s, 0)
         \/ ListSchedules(h) \/ TickSchedules(h) \/ DeleteSchedule(h)
         \/ Submit(h) \/ SubmitFails(h) \/ SubmitCancelled(h) \/ Submitted(h)
         \/ DeleteDocument(h) \/ DatabaseFails(h)
    \/ Pass
    \/ Restart

Spec == Init /\ [][Next]_vars

(***************************************************************************)
(* Properties.                                                             *)
(***************************************************************************)
\* The moments before n at which a schedule was to fire.
Moments(s, n) ==
    IF spec[s].kind = "cron" THEN spec[s].first..n - 1
    ELSE {g \in {spec[s].first} : n = 0}

\* A run for that fire or an earlier one, submitted by a tick to which the
\* moment had come.
Served(s, g) ==
    \E f \in Fires : f.schedule = s /\ f.at <= g /\ runs[f] >= g

\* No schedule that fires late moves past a moment but by a run that was
\* submitted for it, or for an earlier one together with it, by a tick whose
\* client said that it had come: whatever ticks overlap, fail, are cancelled or
\* lost with the process, however far their nows are apart, and whichever memory
\* or document it is taken from.  (Whether the moment had come is for the client
\* to know: one that is ahead of the clock lets moments pass before they come.)
FiresServed ==
    \A dict \in {mem, docs} \cup {handler[h].seen : h \in Requests} :
      \A s \in Known(dict) : spec[s].policy = "fire_once" =>
        \A g \in Moments(s, dict[s]) : Served(s, g)

\* A schedule waits only for a submission that is under way, or for one that was
\* cancelled, which nothing but a restart or its deletion makes good: none that
\* failed or ended leaves it marked, unless it was deleted meanwhile and came
\* back.  (One that skips is moved past a marked fire by the next tick in any
\* case.)
HeldFires ==
    \A s \in Known(mem) \ overtaken :
      spec[s].policy = "fire_once" /\ Fire(mem, s) \in submitted \ dropped =>
        \E h \in Requests : handler[h].fire = Fire(mem, s)

\* A deleted schedule stays deleted, in memory and in the database, unless a
\* handler that overlapped the deletion held a copy.
DeletedStaysGone ==
    \A s \in gone : s \in Known(mem) \cup Known(docs) => s \in revived
=============================================================================
