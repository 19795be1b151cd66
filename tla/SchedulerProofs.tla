--------------------------- MODULE SchedulerProofs ---------------------------
(***************************************************************************)
(* For any schedules, requests and times: a moment that a schedule passes  *)
(* has its run, a fire is held by a submission that is under way, and a    *)
(* deleted schedule does not return by itself.                             *)
(***************************************************************************)
EXTENDS Scheduler, TLAPS

\* A handler with record r has nothing to do with schedule s.
Apart(r, s) ==
    /\ s \notin Known(r.seen)
    /\ r.fire \in Fires => r.fire.schedule # s
    /\ r.pc = "deleting" => r.id # s

\* No part of the state knows a schedule that was never created.
BornInv ==
    \A s \in Schedules : spec[s] = Unborn =>
        /\ s \notin Known(mem) \cup Known(docs) \cup gone
        /\ \A h \in Requests : Apart(handler[h], s)

(***************************************************************************)
(* Dictionaries.                                                           *)
(***************************************************************************)
LEMMA DictIs ==
    ASSUME NEW d \in Dicts
    PROVE  /\ Known(d) \subseteq Schedules
           /\ \A s \in Known(d) : d[s] \in 0..MaxTime + 1
           /\ d = [s \in Known(d) |-> d[s]]
  BY DEF Dicts, Known

LEMMA IsDict ==
    ASSUME NEW S \in SUBSET Schedules, NEW d \in [S -> 0..MaxTime + 1]
    PROVE  d \in Dicts /\ Known(d) = S
  BY DEF Dicts, Known

LEMMA EmptyIsDict == Empty \in Dicts /\ Known(Empty) = {}
  <1>1. Empty \in [{} -> 0..MaxTime + 1]
    BY DEF Empty
  <1> QED BY <1>1, IsDict

LEMMA WithoutIs ==
    ASSUME NEW d \in Dicts, NEW s
    PROVE  /\ Without(d, s) \in Dicts
           /\ Known(Without(d, s)) = Known(d) \ {s}
           /\ \A q \in Known(d) \ {s} : Without(d, s)[q] = d[q]
  <1>1. Without(d, s) \in [Known(d) \ {s} -> 0..MaxTime + 1]
    BY DictIs DEF Without
  <1>2. Known(d) \ {s} \in SUBSET Schedules
    BY DictIs
  <1> QED BY <1>1, <1>2, IsDict DEF Without

LEMMA WithIs ==
    ASSUME NEW d \in Dicts, NEW s \in Schedules, NEW n \in 0..MaxTime + 1
    PROVE  /\ With(d, s, n) \in Dicts
           /\ Known(With(d, s, n)) = Known(d) \cup {s}
           /\ With(d, s, n)[s] = n
           /\ \A q \in Known(d) \ {s} : With(d, s, n)[q] = d[q]
  <1>1. With(d, s, n) \in [Known(d) \cup {s} -> 0..MaxTime + 1]
    BY DictIs DEF With
  <1>2. Known(d) \cup {s} \in SUBSET Schedules
    BY DictIs
  <1> QED BY <1>1, <1>2, IsDict DEF With

LEMMA RestoredIs ==
    ASSUME mem \in Dicts, NEW d \in Dicts
    PROVE  /\ Restored(d) \in Dicts
           /\ Known(Restored(d)) = Known(mem) \cup Known(d)
           /\ \A q \in Known(mem) : Restored(d)[q] = mem[q]
           /\ \A q \in Known(d) \ Known(mem) : Restored(d)[q] = d[q]
  <1>1. Restored(d) \in [Known(mem) \cup Known(d) -> 0..MaxTime + 1]
    BY DictIs DEF Restored
  <1>2. Known(mem) \cup Known(d) \in SUBSET Schedules
    BY DictIs
  <1> QED BY <1>1, <1>2, IsDict DEF Restored

LEMMA TimesAre == 0 \in 0..MaxTime /\ Times \subseteq 0..MaxTime
  BY SchedulerAssumption DEF Times

LEMMA NextIs ==
    ASSUME NEW s, NEW t \in 0..MaxTime
    PROVE  /\ NextAfter(s, t) \in 0..MaxTime + 1
           /\ NextAfter(s, t) = 0 \/ NextAfter(s, t) = t + 1
           /\ spec[s].kind = "cron" => NextAfter(s, t) = t + 1
           /\ spec[s].kind # "cron" => NextAfter(s, t) = 0
  BY SchedulerAssumption DEF NextAfter

LEMMA SkipIs ==
    ASSUME NEW d \in Dicts, NEW S, NEW t \in 0..MaxTime
    PROVE  /\ Skip(d, S, t) \in Dicts
           /\ Known(Skip(d, S, t)) = Known(d)
           /\ \A q \in Known(d) \ S : Skip(d, S, t)[q] = d[q]
           /\ \A q \in Known(d) \cap S : Skip(d, S, t)[q] = NextAfter(q, t)
  <1>1. Skip(d, S, t) \in [Known(d) -> 0..MaxTime + 1]
    BY DictIs, NextIs DEF Skip
  <1>2. Known(d) \in SUBSET Schedules
    BY DictIs
  <1> QED BY <1>1, <1>2, IsDict DEF Skip

LEMMA FireIs ==
    ASSUME NEW d \in Dicts, NEW t \in 0..MaxTime, NEW s \in Due(d, t)
    PROVE  /\ Fire(d, s) \in Fires
           /\ Fire(d, s).schedule = s /\ Fire(d, s).at = d[s]
           /\ s \in Known(d) /\ d[s] \in 1..t
  BY DictIs, SchedulerAssumption DEF Due, Fire, Fires, Times

LEMMA BlankHandler ==
    /\ Idle \in Handlers /\ Idle.pc = "idle" /\ Idle.fire = NoFire
    /\ Idle.seen = Empty /\ Known(Idle.seen) = {} /\ Idle.now = 0
    /\ NoFire \notin Fires
  <1>1. NoFire \notin Fires
    BY SchedulerAssumption DEF NoFire, Fires, Times
  <1> QED BY <1>1, EmptyIsDict, SchedulerAssumption DEF Idle, Handlers

(***************************************************************************)
(* What a tick does when it looks for the next schedule that is due.       *)
(***************************************************************************)
Taken(h, dict, fires, now) ==
    /\ mem' \in Dicts /\ Known(mem') = Known(dict)
    /\ \A q \in Known(dict) :
         mem'[q] = dict[q] \/ (spec[q].policy = "skip" /\ mem'[q] = NextAfter(q, now))

Submits(h, dict, fires, now, s) ==
    /\ s \in Due(dict, now) /\ Fire(dict, s) \notin fires
    /\ mem'[s] = dict[s]
    /\ submitted' = fires \cup {Fire(dict, s)}
    /\ handler' = [handler EXCEPT ![h] =
                     [Idle EXCEPT !.pc = "submitting", !.op = "tick", !.now = now,
                                  !.fire = Fire(dict, s)]]

Finishes(h, fires, now) ==
    /\ submitted' = fires
    /\ \/ handler' = [handler EXCEPT ![h] = Idle]
       \/ handler' = [handler EXCEPT ![h] =
                        [Idle EXCEPT !.pc = "persisting", !.op = "tick", !.now = now,
                                     !.seen = mem']]

LEMMA TakeDueIs ==
    ASSUME NEW h, NEW dict \in Dicts, NEW fires, NEW now \in 0..MaxTime,
           TakeDue(h, dict, fires, now)
    PROVE  /\ Taken(h, dict, fires, now)
           /\ (\E s \in Schedules : Submits(h, dict, fires, now, s)) \/ Finishes(h, fires, now)
  <1> DEFINE late == Late(dict, now)
             ready == {s \in Due(dict, now) \ late : Fire(dict, s) \notin fires}
  <1>0. \A q \in late : spec[q].policy = "skip"
    BY DEF Late
  <1>1. CASE \E s \in ready, skipped \in SUBSET late :
               /\ mem' = Skip(dict, skipped, now)
               /\ submitted' = fires \cup {Fire(dict, s)}
               /\ Becomes(h, [Idle EXCEPT !.pc = "submitting", !.op = "tick", !.now = now,
                                          !.fire = Fire(dict, s)])
    <2>1. PICK s \in ready, skipped \in SUBSET late :
               /\ mem' = Skip(dict, skipped, now)
               /\ submitted' = fires \cup {Fire(dict, s)}
               /\ Becomes(h, [Idle EXCEPT !.pc = "submitting", !.op = "tick", !.now = now,
                                          !.fire = Fire(dict, s)])
      BY <1>1
    <2>2. Taken(h, dict, fires, now)
      BY <2>1, <1>0, SkipIs DEF Taken
    <2>3. s \in Schedules /\ s \in Due(dict, now) /\ s \notin skipped
      BY <2>1, FireIs, DictIs
    <2>4. mem'[s] = dict[s]
      BY <2>1, <2>3, SkipIs, FireIs
    <2>5. Submits(h, dict, fires, now, s)
      BY <2>1, <2>3, <2>4 DEF Submits, Becomes
    <2> QED BY <2>2, <2>3, <2>5
  <1>2. CASE /\ mem' = Skip(dict, late, now)
             /\ submitted' = fires
             /\ Becomes(h, IF Known(dict) = {} THEN Idle
                           ELSE [Idle EXCEPT !.pc = "persisting", !.op = "tick", !.now = now,
                                             !.seen = Skip(dict, late, now)])
    <2>1. Taken(h, dict, fires, now)
      BY <1>2, <1>0, SkipIs DEF Taken
    <2>2. Finishes(h, fires, now)
      BY <1>2 DEF Finishes, Becomes
    <2> QED BY <2>1, <2>2
  <1> QED BY <1>1, <1>2 DEF TakeDue

(***************************************************************************)
(* Types.                                                                  *)
(***************************************************************************)
Changes(h, r) == handler' = [handler EXCEPT ![h] = r]

LEMMA HandlersTyped ==
    ASSUME TypeOK, NEW h \in Requests, NEW r \in Handlers, Changes(h, r)
    PROVE  /\ handler' \in [Requests -> Handlers]
           /\ handler'[h] = r
           /\ \A g \in Requests \ {h} : handler'[g] = handler[g]
  BY DEF TypeOK, Changes

LEMMA HandlerIs ==
    ASSUME TypeOK, NEW h \in Requests
    PROVE  /\ handler[h] \in Handlers
           /\ handler[h].now \in 0..MaxTime /\ handler[h].seen \in Dicts
           /\ handler[h].id \in Schedules \cup {"none"}
           /\ handler[h].fire \in Fires \cup {NoFire}
  BY DEF TypeOK, Handlers

LEMMA HandlerWith ==
    ASSUME NEW r \in Handlers
    PROVE  /\ \A d \in Dicts : [r EXCEPT !.seen = d] \in Handlers
           /\ [r EXCEPT !.pc = "accepted"] \in Handlers
           /\ \A d \in Dicts, t \in 0..MaxTime :
                [Idle EXCEPT !.pc = "persisting", !.op = "tick", !.now = t, !.seen = d]
                  \in Handlers
           /\ \A f \in Fires, t \in 0..MaxTime :
                [Idle EXCEPT !.pc = "submitting", !.op = "tick", !.now = t, !.fire = f]
                  \in Handlers
           /\ \A d \in Dicts, t \in 0..MaxTime, op \in {"list", "tick", "delete"},
                s \in Schedules \cup {"none"} :
                [Idle EXCEPT !.pc = "read", !.op = op, !.id = s, !.now = t, !.seen = d]
                  \in Handlers
           /\ \A d \in Dicts : [Idle EXCEPT !.pc = "created", !.seen = d] \in Handlers
           /\ \A s \in Schedules : [Idle EXCEPT !.pc = "deleting", !.id = s] \in Handlers
  <1>1. 0 \in 0..MaxTime /\ Empty \in Dicts
    BY EmptyIsDict, SchedulerAssumption
  <1>2. \A d \in Dicts : [r EXCEPT !.seen = d] \in Handlers
    BY DEF Handlers
  <1>3. [r EXCEPT !.pc = "accepted"] \in Handlers
    BY DEF Handlers
  <1>4. \A d \in Dicts, t \in 0..MaxTime :
          [Idle EXCEPT !.pc = "persisting", !.op = "tick", !.now = t, !.seen = d] \in Handlers
    BY DEF Handlers, Idle
  <1>5. \A f \in Fires, t \in 0..MaxTime :
          [Idle EXCEPT !.pc = "submitting", !.op = "tick", !.now = t, !.fire = f] \in Handlers
    BY <1>1 DEF Handlers, Idle
  <1>6. \A d \in Dicts, t \in 0..MaxTime, op \in {"list", "tick", "delete"},
          s \in Schedules \cup {"none"} :
          [Idle EXCEPT !.pc = "read", !.op = op, !.id = s, !.now = t, !.seen = d] \in Handlers
    BY DEF Handlers, Idle
  <1>7. \A d \in Dicts : [Idle EXCEPT !.pc = "created", !.seen = d] \in Handlers
    BY <1>1 DEF Handlers, Idle
  <1>8. \A s \in Schedules : [Idle EXCEPT !.pc = "deleting", !.id = s] \in Handlers
    BY <1>1 DEF Handlers, Idle
  <1> QED BY <1>2, <1>3, <1>4, <1>5, <1>6, <1>7, <1>8

\* A tick that has looked for the next schedule leaves memory, marks and its
\* handler typed.
LEMMA TakeDueTyped ==
    ASSUME TypeOK, NEW h \in Requests, NEW dict \in Dicts, NEW now \in 0..MaxTime,
           TakeDue(h, dict, submitted, now)
    PROVE  mem' \in Dicts /\ submitted' \subseteq Fires /\ handler' \in [Requests -> Handlers]
  <1>0. submitted \subseteq Fires
    BY DEF TypeOK
  <1>1. Taken(h, dict, submitted, now)
    BY TakeDueIs, Zenon
  <1>2. (\E s \in Schedules : Submits(h, dict, submitted, now, s)) \/ Finishes(h, submitted, now)
    BY TakeDueIs, Zenon
  <1>3. mem' \in Dicts
    BY <1>1 DEF Taken
  <1>4. CASE \E s \in Schedules : Submits(h, dict, submitted, now, s)
    <2>1. PICK s \in Schedules : Submits(h, dict, submitted, now, s)
      BY <1>4
    <2>2. Fire(dict, s) \in Fires
      BY <2>1, FireIs DEF Submits
    <2>3. [Idle EXCEPT !.pc = "submitting", !.op = "tick", !.now = now,
                       !.fire = Fire(dict, s)] \in Handlers
      BY <2>2, HandlerWith, BlankHandler
    <2>4. handler' \in [Requests -> Handlers]
      BY <2>1, <2>3, HandlersTyped DEF Submits, Changes
    <2> QED BY <1>0, <1>3, <2>1, <2>2, <2>4 DEF Submits
  <1>5. CASE Finishes(h, submitted, now)
    <2>1. [Idle EXCEPT !.pc = "persisting", !.op = "tick", !.now = now, !.seen = mem']
            \in Handlers
      BY <1>3, HandlerWith, BlankHandler
    <2>2. handler' \in [Requests -> Handlers]
      BY <1>5, <2>1, BlankHandler, HandlersTyped DEF Finishes, Changes
    <2> QED BY <1>0, <1>3, <1>5, <2>2 DEF Finishes
  <1> QED BY <1>2, <1>4, <1>5

\* What the tick of a handler sees once its submission was answered.
Resumed(h) ==
    LET s == handler[h].fire.schedule IN
    IF s \in Known(mem) THEN With(mem, s, NextAfter(s, handler[h].now)) ELSE mem

LEMMA ResumedIs ==
    ASSUME TypeOK, NEW h \in Requests
    PROVE  LET s == handler[h].fire.schedule
               d == Resumed(h)
           IN /\ d \in Dicts /\ Known(d) = Known(mem)
              /\ s \in Known(mem) => d[s] = NextAfter(s, handler[h].now)
              /\ \A q \in Known(mem) \ {s} : d[q] = mem[q]
  <1> DEFINE s == handler[h].fire.schedule
  <1>1. mem \in Dicts /\ handler[h].now \in 0..MaxTime
    BY HandlerIs DEF TypeOK
  <1>2. CASE s \in Known(mem)
    <2>1. s \in Schedules
      BY <1>1, <1>2, DictIs
    <2>2. NextAfter(s, handler[h].now) \in 0..MaxTime + 1
      BY <1>1, NextIs
    <2>3. Resumed(h) = With(mem, s, NextAfter(s, handler[h].now))
      BY <1>2 DEF Resumed
    <2>4. /\ Resumed(h) \in Dicts /\ Known(Resumed(h)) = Known(mem) \cup {s}
          /\ Resumed(h)[s] = NextAfter(s, handler[h].now)
          /\ \A q \in Known(mem) \ {s} : Resumed(h)[q] = mem[q]
      BY <1>1, <2>1, <2>2, <2>3, WithIs
    <2>5. Known(Resumed(h)) = Known(mem)
      BY <2>4, <1>2
    <2> QED BY <2>4, <2>5
  <1>3. CASE s \notin Known(mem)
    BY <1>1, <1>3 DEF Resumed
  <1> QED BY <1>2, <1>3

\* A handler deletes the document of a schedule that memory had.
DeletingNamed == \A h \in Requests : At(h, "deleting") => handler[h].id \in Schedules

TypedInv == TypeOK /\ DeletingNamed

LEMMA TypesInit == Init => TypedInv
  <1> SUFFICES ASSUME Init PROVE TypedInv
    OBVIOUS
  <1>0. DeletingNamed
    BY BlankHandler DEF Init, DeletingNamed, At
  <1>1. handler \in [Requests -> Handlers]
    BY BlankHandler DEF Init
  <1>2. runs \in [Fires -> 0..MaxTime]
    BY SchedulerAssumption DEF Init
  <1> QED BY <1>0, <1>1, <1>2, EmptyIsDict, SchedulerAssumption DEF Init, TypeOK, Times, TypedInv

LEMMA TypesStep == TypedInv /\ [Next]_vars => TypeOK'
  <1> SUFFICES ASSUME TypeOK, DeletingNamed, [Next]_vars PROVE TypeOK'
    BY DEF TypedInv
  <1>m. mem \in Dicts /\ docs \in Dicts
    BY DEF TypeOK
  <1>1. ASSUME NEW h \in Requests, NEW s \in Schedules, NEW r \in Specs, Create(h, s, r)
        PROVE  TypeOK'
    <2>1. r.first \in 0..MaxTime + 1
      BY SchedulerAssumption DEF Specs
    <2>2. mem' \in Dicts
      BY <1>1, <1>m, <2>1, WithIs DEF Create
    <2>3. With(Empty, s, r.first) \in Dicts
      BY <2>1, EmptyIsDict, WithIs
    <2>4. handler' \in [Requests -> Handlers]
      BY <1>1, <2>3, HandlerWith, BlankHandler, HandlersTyped DEF Create, Becomes, Changes
    <2> QED BY <1>1, <2>2, <2>4 DEF Create, TypeOK
  <1>2. ASSUME NEW h \in Requests, NEW s \in Schedules, Persist(h, s)
        PROVE  TypeOK'
    <2>1. handler[h].seen \in Dicts /\ s \in Known(handler[h].seen)
      BY <1>2, HandlerIs DEF Persist, Holds
    <2>2. docs' \in Dicts
      BY <1>2, <1>m, <2>1, WithIs, DictIs DEF Persist
    <2>3. Without(handler[h].seen, s) \in Dicts
      BY <2>1, WithoutIs
    <2>4. handler' \in [Requests -> Handlers]
      BY <1>2, <2>3, HandlerIs, HandlerWith, BlankHandler, HandlersTyped
         DEF Persist, Becomes, Changes
    <2> QED BY <1>2, <2>2, <2>4 DEF Persist, TypeOK
  <1>3. ASSUME NEW h \in Requests, NEW op \in {"list", "tick", "delete"},
               NEW s \in Schedules \cup {"none"},
               NEW now \in 0..MaxTime, Read(h, op, s, now)
        PROVE  TypeOK'
    <2>1. handler' \in [Requests -> Handlers]
      BY <1>3, <1>m, HandlerWith, BlankHandler, HandlersTyped DEF Read, Becomes, Changes
    <2> QED BY <1>3, <2>1 DEF Read, TypeOK
  <1>4. ASSUME NEW h \in Requests, ListSchedules(h) PROVE TypeOK'
    <2>1. mem' \in Dicts
      BY <1>4, <1>m, HandlerIs, RestoredIs DEF ListSchedules
    <2>2. handler' \in [Requests -> Handlers]
      BY <1>4, BlankHandler, HandlersTyped DEF ListSchedules, Ends, Becomes, Changes
    <2> QED BY <1>4, <2>1, <2>2 DEF ListSchedules, TypeOK
  <1>5. ASSUME NEW h \in Requests, TickSchedules(h) PROVE TypeOK'
    <2>1. Restored(handler[h].seen) \in Dicts /\ handler[h].now \in 0..MaxTime
      BY <1>m, HandlerIs, RestoredIs
    <2>2. TakeDue(h, Restored(handler[h].seen), submitted, handler[h].now)
      BY <1>5 DEF TickSchedules
    <2>3. mem' \in Dicts /\ submitted' \subseteq Fires /\ handler' \in [Requests -> Handlers]
      BY <2>1, <2>2, TakeDueTyped
    <2> QED BY <1>5, <2>3 DEF TickSchedules, TypeOK
  <1>6. ASSUME NEW h \in Requests, DeleteSchedule(h) PROVE TypeOK'
    <2>1. Restored(handler[h].seen) \in Dicts
      BY <1>m, HandlerIs, RestoredIs
    <2>2. mem' \in Dicts
      BY <1>6, <2>1, WithoutIs DEF DeleteSchedule
    <2>3. CASE handler[h].id \in Known(Restored(handler[h].seen))
      <3>1. handler[h].id \in Schedules
        BY <2>1, <2>3, DictIs
      <3>2. handler' \in [Requests -> Handlers]
        BY <1>6, <2>3, <3>1, HandlerWith, BlankHandler, HandlersTyped
           DEF DeleteSchedule, Becomes, Changes
      <3>3. submitted' \subseteq submitted /\ dropped' \subseteq dropped /\ overtaken' \subseteq Schedules
        BY <1>6, <2>3, <3>1 DEF DeleteSchedule, TypeOK
      <3> QED BY <1>6, <2>2, <3>2, <3>3 DEF DeleteSchedule, TypeOK
    <2>4. CASE handler[h].id \notin Known(Restored(handler[h].seen))
      <3>1. handler' \in [Requests -> Handlers]
        BY <1>6, <2>4, BlankHandler, HandlersTyped DEF DeleteSchedule, Ends, Becomes, Changes
      <3> QED BY <1>6, <2>2, <2>4, <3>1 DEF DeleteSchedule, TypeOK
    <2> QED BY <2>3, <2>4
  <1>7. ASSUME NEW h \in Requests, Submit(h) PROVE TypeOK'
    <2>1. handler' \in [Requests -> Handlers]
      BY <1>7, HandlerIs, HandlerWith, HandlersTyped DEF Submit, Becomes, Changes
    <2>2. runs' \in [Fires -> 0..MaxTime]
      BY <1>7, HandlerIs DEF Submit, TypeOK
    <2> QED BY <1>7, <2>1, <2>2 DEF Submit, TypeOK
  <1>8. ASSUME NEW h \in Requests, SubmitFails(h) \/ SubmitCancelled(h) PROVE TypeOK'
    <2>1. handler' \in [Requests -> Handlers]
      BY <1>8, BlankHandler, HandlersTyped DEF SubmitFails, SubmitCancelled, Ends, Becomes, Changes
    <2>2. submitted' \subseteq Fires /\ dropped' \subseteq Fires
      BY <1>8 DEF SubmitFails, SubmitCancelled, TypeOK
    <2> QED BY <1>8, <2>1, <2>2 DEF SubmitFails, SubmitCancelled, TypeOK
  <1>9. ASSUME NEW h \in Requests, Submitted(h) PROVE TypeOK'
    <2>1. Resumed(h) \in Dicts /\ handler[h].now \in 0..MaxTime
      BY ResumedIs, HandlerIs
    <2>2. TakeDue(h, Resumed(h), submitted, handler[h].now)
      BY <1>9 DEF Submitted, Resumed
    <2>3. mem' \in Dicts /\ submitted' \subseteq Fires /\ handler' \in [Requests -> Handlers]
      BY <2>1, <2>2, TakeDueTyped
    <2> QED BY <1>9, <2>3 DEF Submitted, TypeOK
  <1>10. ASSUME NEW h \in Requests, DeleteDocument(h) PROVE TypeOK'
    <2>0. handler[h].id \in Schedules
      BY <1>10 DEF DeleteDocument, DeletingNamed
    <2>1. docs' \in Dicts
      BY <1>10, <1>m, WithoutIs DEF DeleteDocument
    <2>2. handler' \in [Requests -> Handlers]
      BY <1>10, BlankHandler, HandlersTyped DEF DeleteDocument, Ends, Becomes, Changes
    <2>3. gone' \subseteq Schedules /\ revived' \subseteq Schedules
      BY <1>10, <2>0 DEF DeleteDocument, TypeOK
    <2> QED BY <1>10, <2>1, <2>2, <2>3 DEF DeleteDocument, TypeOK
  <1>11. ASSUME NEW h \in Requests, DatabaseFails(h) PROVE TypeOK'
    <2>1. handler' \in [Requests -> Handlers]
      BY <1>11, BlankHandler, HandlersTyped DEF DatabaseFails, Ends, Becomes, Changes
    <2> QED BY <1>11, <2>1 DEF DatabaseFails, TypeOK
  <1>12. CASE Pass
    BY <1>12, SchedulerAssumption DEF Pass, TypeOK, Times
  <1>13. CASE Restart
    <2>1. handler' \in [Requests -> Handlers]
      BY <1>13, BlankHandler DEF Restart
    <2> QED BY <1>13, <2>1, EmptyIsDict, SchedulerAssumption DEF Restart, TypeOK
  <1>14. CASE UNCHANGED vars
    BY <1>14 DEF vars, TypeOK
  <1> QED BY <1>1, <1>2, <1>3, <1>4, <1>5, <1>6, <1>7, <1>8, <1>9, <1>10, <1>11, <1>12,
             <1>13, <1>14, TimesAre DEF Next

LEMMA DeletingNamedStep == TypedInv /\ [Next]_vars => DeletingNamed'
  <1> SUFFICES ASSUME TypeOK, DeletingNamed, [Next]_vars PROVE DeletingNamed'
    BY DEF TypedInv
  <1>1. ASSUME NEW h \in Requests, NEW r, Changes(h, r), r.pc = "deleting" => r.id \in Schedules
        PROVE  DeletingNamed'
    BY <1>1 DEF Changes, DeletingNamed, At, TypeOK
  <1>2. ASSUME NEW h \in Requests, NEW s \in Schedules, NEW r \in Specs, Create(h, s, r)
        PROVE  DeletingNamed'
    BY <1>1, <1>2 DEF Create, Becomes, Changes, Idle
  <1>3. ASSUME NEW h \in Requests, NEW s \in Schedules, Persist(h, s)
        PROVE  DeletingNamed'
    <2> DEFINE rest == Without(handler[h].seen, s)
               r == IF Known(rest) = {} THEN Idle ELSE [handler[h] EXCEPT !.seen = rest]
    <2>1. r.pc # "deleting"
      BY <1>3, HandlerIs DEF Persist, At, Idle, Handlers
    <2>2. Changes(h, r)
      BY <1>3 DEF Persist, Becomes, Changes
    <2> QED BY <1>1, <2>1, <2>2
  <1>4. ASSUME NEW h \in Requests, NEW op \in {"list", "tick", "delete"},
               NEW s \in Schedules \cup {"none"},
               NEW now \in 0..MaxTime, Read(h, op, s, now)
        PROVE  DeletingNamed'
    BY <1>1, <1>4 DEF Read, Becomes, Changes, Idle
  <1>5. ASSUME NEW h \in Requests,
               ListSchedules(h) \/ SubmitFails(h) \/ SubmitCancelled(h) \/ DeleteDocument(h)
                 \/ DatabaseFails(h)
        PROVE  DeletingNamed'
    BY <1>1, <1>5, BlankHandler
       DEF ListSchedules, SubmitFails, SubmitCancelled, DeleteDocument, DatabaseFails, Ends, Becomes, Changes
  <1>6. ASSUME NEW h \in Requests, NEW dict \in Dicts, NEW now \in 0..MaxTime,
               TakeDue(h, dict, submitted, now)
        PROVE  DeletingNamed'
    <2>1. (\E s \in Schedules : Submits(h, dict, submitted, now, s)) \/ Finishes(h, submitted, now)
      BY <1>6, TakeDueIs, Zenon
    <2> QED BY <1>1, <2>1, BlankHandler DEF Submits, Finishes, Changes, Idle
  <1>7. ASSUME NEW h \in Requests, TickSchedules(h) PROVE DeletingNamed'
    <2>1. Restored(handler[h].seen) \in Dicts /\ handler[h].now \in 0..MaxTime
      BY HandlerIs, RestoredIs DEF TypeOK
    <2> QED BY <1>6, <1>7, <2>1 DEF TickSchedules
  <1>8. ASSUME NEW h \in Requests, Submitted(h) PROVE DeletingNamed'
    <2>1. Resumed(h) \in Dicts /\ handler[h].now \in 0..MaxTime
      BY ResumedIs, HandlerIs
    <2> QED BY <1>6, <1>8, <2>1 DEF Submitted, Resumed
  <1>9. ASSUME NEW h \in Requests, DeleteSchedule(h) PROVE DeletingNamed'
    <2>1. Restored(handler[h].seen) \in Dicts
      BY HandlerIs, RestoredIs DEF TypeOK
    <2>2. CASE handler[h].id \in Known(Restored(handler[h].seen))
      BY <1>1, <1>9, <2>1, <2>2, DictIs DEF DeleteSchedule, Becomes, Changes, Idle
    <2>3. CASE handler[h].id \notin Known(Restored(handler[h].seen))
      BY <1>1, <1>9, <2>3, BlankHandler DEF DeleteSchedule, Ends, Becomes, Changes
    <2> QED BY <2>2, <2>3
  <1>10. ASSUME NEW h \in Requests, Submit(h) PROVE DeletingNamed'
    <2>1. [handler[h] EXCEPT !.pc = "accepted"].pc = "accepted"
      BY HandlerIs DEF Handlers
    <2> QED BY <1>1, <1>10, <2>1 DEF Submit, Becomes, Changes
  <1>11. CASE Restart
    BY <1>11, BlankHandler DEF Restart, DeletingNamed, At
  <1>12. CASE Pass \/ UNCHANGED vars
    BY <1>12 DEF Pass, vars, DeletingNamed, At
  <1> QED BY <1>2, <1>3, <1>4, <1>5, <1>7, <1>8, <1>9, <1>10, <1>11, <1>12, TimesAre DEF Next

\* Every reachable state is well typed: what a handler holds is a listing, and
\* no tick leaves a schedule beyond the moment after its own.
THEOREM SchedulerTypes == Spec => []TypeOK
  <1>1. TypedInv /\ [Next]_vars => TypedInv'
    BY TypesStep, DeletingNamedStep DEF TypedInv
  <1>2. TypedInv => TypeOK
    BY DEF TypedInv
  <1> QED BY <1>1, <1>2, TypesInit, PTL DEF Spec

(***************************************************************************)
(* What is known was created.                                              *)
(***************************************************************************)
LEMMA IdleApart == \A s : Apart(Idle, s)
  BY BlankHandler DEF Apart

LEMMA BornInit == Init => BornInv
  BY IdleApart, EmptyIsDict DEF Init, BornInv

\* A step of one handler that learns of nothing but what was created.
LEMMA BornKept ==
    ASSUME TypeOK, BornInv, NEW h \in Requests, NEW r, Changes(h, r), spec' = spec,
           \A s \in Schedules : spec[s] = Unborn =>
              /\ s \notin Known(mem') \cup Known(docs') \cup gone'
              /\ Apart(r, s)
    PROVE  BornInv'
  <1> SUFFICES ASSUME NEW s \in Schedules, spec[s] = Unborn, NEW g \in Requests
               PROVE  s \notin Known(mem') \cup Known(docs') \cup gone' /\ Apart(handler'[g], s)
    BY DEF BornInv, Apart, Known
  <1>1. handler'[g] = r \/ handler'[g] = handler[g]
    BY DEF Changes, TypeOK
  <1> QED BY <1>1 DEF BornInv

LEMMA BornTick ==
    ASSUME TypeOK, BornInv, NEW h \in Requests, NEW dict \in Dicts, NEW now \in 0..MaxTime,
           Known(dict) \subseteq Known(mem) \cup Known(handler[h].seen),
           TakeDue(h, dict, submitted, now), UNCHANGED <<spec, docs, gone>>
    PROVE  BornInv'
  <1>1. Taken(h, dict, submitted, now)
    BY TakeDueIs, Zenon
  <1>2. (\E s \in Schedules : Submits(h, dict, submitted, now, s)) \/ Finishes(h, submitted, now)
    BY TakeDueIs, Zenon
  <1>3. \A s \in Schedules : spec[s] = Unborn => s \notin Known(dict)
    BY DEF BornInv, Apart
  <1>4. Known(mem') = Known(dict)
    BY <1>1 DEF Taken
  <1>5. CASE \E s \in Schedules : Submits(h, dict, submitted, now, s)
    <2>1. PICK s \in Schedules : Submits(h, dict, submitted, now, s)
      BY <1>5
    <2> DEFINE r == [Idle EXCEPT !.pc = "submitting", !.op = "tick", !.now = now,
                                 !.fire = Fire(dict, s)]
    <2>2. Known(r.seen) = {} /\ r.fire.schedule = s /\ r.pc = "submitting"
      BY EmptyIsDict DEF Idle, Fire
    <2>3. s \in Known(dict)
      BY <2>1, FireIs DEF Submits
    <2>4. \A q \in Schedules : spec[q] = Unborn => Apart(r, q)
      BY <1>3, <2>2, <2>3 DEF Apart
    <2>5. Changes(h, r)
      BY <2>1 DEF Submits, Changes
    <2> HIDE DEF r
    <2> QED BY <1>3, <1>4, <2>4, <2>5, BornKept DEF BornInv
  <1>6. CASE Finishes(h, submitted, now)
    <2> DEFINE r == [Idle EXCEPT !.pc = "persisting", !.op = "tick", !.now = now, !.seen = mem']
    <2>1. r.seen = mem' /\ r.fire = NoFire /\ r.pc = "persisting"
      BY DEF Idle
    <2>2. \A q \in Schedules : spec[q] = Unborn => Apart(r, q)
      BY <1>3, <1>4, <2>1, BlankHandler DEF Apart
    <2>3. Changes(h, r) \/ Changes(h, Idle)
      BY <1>6 DEF Finishes, Changes
    <2> HIDE DEF r
    <2> QED BY <1>3, <1>4, <2>2, <2>3, IdleApart, BornKept DEF BornInv
  <1> QED BY <1>2, <1>5, <1>6

LEMMA BornStep == TypedInv /\ BornInv /\ [Next]_vars => BornInv'
  <1> SUFFICES ASSUME TypeOK, DeletingNamed, BornInv, [Next]_vars PROVE BornInv'
    BY DEF TypedInv
  <1>m. mem \in Dicts /\ docs \in Dicts
    BY DEF TypeOK
  <1>1. ASSUME NEW h \in Requests, NEW q \in Schedules, NEW d \in Specs, Create(h, q, d)
        PROVE  BornInv'
    <2> DEFINE r == [Idle EXCEPT !.pc = "created", !.seen = With(Empty, q, d.first)]
    <2>1. d.first \in 0..MaxTime + 1
      BY SchedulerAssumption DEF Specs
    <2>2. Known(mem') = Known(mem) \cup {q}
      BY <1>1, <1>m, <2>1, WithIs DEF Create
    <2>3. Known(With(Empty, q, d.first)) = {q}
      BY <2>1, EmptyIsDict, WithIs
    <2>4. r.seen = With(Empty, q, d.first) /\ r.fire = NoFire /\ r.pc = "created"
      BY DEF Idle
    <2>5. d # Unborn
      BY DEF Specs, Unborn
    <2>6. \A s \in Schedules : spec'[s] = Unborn => s # q /\ spec[s] = Unborn
      BY <1>1, <2>5 DEF Create, TypeOK
    <2>7. \A g \in Requests : handler'[g] = r \/ handler'[g] = handler[g]
      BY <1>1 DEF Create, Becomes, TypeOK
    <2>8. \A s \in Schedules : s # q => Apart(r, s)
      BY <2>3, <2>4, BlankHandler DEF Apart
    <2> HIDE DEF r
    <2>9. SUFFICES ASSUME NEW s \in Schedules, spec'[s] = Unborn, NEW g \in Requests
                   PROVE  /\ s \notin Known(mem') \cup Known(docs') \cup gone'
                          /\ Apart(handler'[g], s)
      BY DEF BornInv, Apart, Known
    <2>10. s # q /\ spec[s] = Unborn
      BY <2>6, <2>9
    <2>11. s \notin Known(mem') \cup Known(docs') \cup gone'
      BY <1>1, <2>2, <2>10 DEF Create, BornInv
    <2>12. Apart(handler'[g], s)
      BY <2>7, <2>8, <2>10 DEF BornInv
    <2> QED BY <2>11, <2>12
  <1>2. ASSUME NEW h \in Requests, NEW q \in Schedules, Persist(h, q)
        PROVE  BornInv'
    <2> DEFINE rest == Without(handler[h].seen, q)
               r == IF Known(rest) = {} THEN Idle ELSE [handler[h] EXCEPT !.seen = rest]
    <2>1. handler[h].seen \in Dicts /\ q \in Known(handler[h].seen)
      BY <1>2, HandlerIs DEF Persist, Holds
    <2>2. Known(docs') = Known(docs) \cup {q}
      BY <1>2, <1>m, <2>1, WithIs, DictIs DEF Persist
    <2>3. Known(rest) \subseteq Known(handler[h].seen)
      BY <2>1, WithoutIs
    <2>4. r = Idle \/ (r.seen = rest /\ r.fire = handler[h].fire /\ r.pc # "deleting")
      BY <1>2, HandlerIs DEF Persist, At, Handlers
    <2>5. \A s \in Schedules : spec[s] = Unborn => Apart(r, s)
      BY <2>3, <2>4, IdleApart DEF Apart, BornInv
    <2>6. Changes(h, r)
      BY <1>2 DEF Persist, Becomes, Changes
    <2>7. \A s \in Schedules : spec[s] = Unborn => s # q
      BY <2>1 DEF BornInv, Apart
    <2> HIDE DEF r
    <2> QED BY <1>2, <2>2, <2>5, <2>6, <2>7, BornKept DEF Persist, BornInv
  <1>3. ASSUME NEW h \in Requests, NEW op \in {"list", "tick", "delete"},
               NEW i \in Schedules \cup {"none"},
               NEW now \in 0..MaxTime, Read(h, op, i, now)
        PROVE  BornInv'
    <2> DEFINE r == [Idle EXCEPT !.pc = "read", !.op = op, !.id = i, !.now = now, !.seen = docs]
    <2>1. r.seen = docs /\ r.fire = NoFire /\ r.pc = "read"
      BY DEF Idle
    <2>2. \A s \in Schedules : spec[s] = Unborn => Apart(r, s)
      BY <2>1, BlankHandler DEF Apart, BornInv
    <2>3. Changes(h, r)
      BY <1>3 DEF Read, Becomes, Changes
    <2> HIDE DEF r
    <2> QED BY <1>3, <2>2, <2>3, BornKept DEF Read, BornInv
  <1>4. ASSUME NEW h \in Requests, ListSchedules(h) PROVE BornInv'
    <2>1. Known(mem') = Known(mem) \cup Known(handler[h].seen)
      BY <1>4, <1>m, HandlerIs, RestoredIs DEF ListSchedules
    <2>2. Changes(h, Idle)
      BY <1>4 DEF ListSchedules, Ends, Becomes, Changes
    <2>3. \A s \in Schedules : spec[s] = Unborn => s \notin Known(mem')
      BY <2>1 DEF BornInv, Apart
    <2> QED BY <1>4, <2>2, <2>3, IdleApart, BornKept DEF ListSchedules, BornInv
  <1>5. ASSUME NEW h \in Requests, TickSchedules(h) PROVE BornInv'
    <2>1. /\ Restored(handler[h].seen) \in Dicts /\ handler[h].now \in 0..MaxTime
          /\ Known(Restored(handler[h].seen)) = Known(mem) \cup Known(handler[h].seen)
      BY <1>m, HandlerIs, RestoredIs
    <2>2. TakeDue(h, Restored(handler[h].seen), submitted, handler[h].now)
      BY <1>5 DEF TickSchedules
    <2> QED BY <1>5, <2>1, <2>2, BornTick DEF TickSchedules
  <1>6. ASSUME NEW h \in Requests, DeleteSchedule(h) PROVE BornInv'
    <2>1. /\ Restored(handler[h].seen) \in Dicts
          /\ Known(Restored(handler[h].seen)) = Known(mem) \cup Known(handler[h].seen)
      BY <1>m, HandlerIs, RestoredIs
    <2>2. Known(mem') \subseteq Known(mem) \cup Known(handler[h].seen)
      BY <1>6, <2>1, WithoutIs DEF DeleteSchedule
    <2>3. \A s \in Schedules : spec[s] = Unborn => s \notin Known(mem) \cup Known(handler[h].seen)
      BY DEF BornInv, Apart
    <2>4. CASE handler[h].id \in Known(Restored(handler[h].seen))
      <3> DEFINE r == [Idle EXCEPT !.pc = "deleting", !.id = handler[h].id]
      <3>1. r.seen = Empty /\ r.fire = NoFire /\ r.id = handler[h].id
        BY DEF Idle
      <3>2. \A s \in Schedules : spec[s] = Unborn => Apart(r, s)
        BY <2>1, <2>3, <2>4, <3>1, EmptyIsDict, BlankHandler DEF Apart
      <3>3. Changes(h, r)
        BY <1>6, <2>4 DEF DeleteSchedule, Becomes, Changes
      <3> HIDE DEF r
      <3> QED BY <1>6, <2>2, <2>3, <3>2, <3>3, BornKept DEF DeleteSchedule, BornInv
    <2>5. CASE handler[h].id \notin Known(Restored(handler[h].seen))
      <3>1. Changes(h, Idle)
        BY <1>6, <2>5 DEF DeleteSchedule, Ends, Becomes, Changes
      <3> QED BY <1>6, <2>2, <2>3, <3>1, IdleApart, BornKept DEF DeleteSchedule, BornInv
    <2> QED BY <2>4, <2>5
  <1>7. ASSUME NEW h \in Requests, Submit(h) PROVE BornInv'
    <2> DEFINE r == [handler[h] EXCEPT !.pc = "accepted"]
    <2>1. r.seen = handler[h].seen /\ r.fire = handler[h].fire /\ r.pc = "accepted"
      BY HandlerIs DEF Handlers
    <2>2. \A s \in Schedules : spec[s] = Unborn => Apart(r, s)
      BY <2>1 DEF BornInv, Apart
    <2>3. Changes(h, r)
      BY <1>7 DEF Submit, Becomes, Changes
    <2> HIDE DEF r
    <2> QED BY <1>7, <2>2, <2>3, BornKept DEF Submit, BornInv
  <1>8. ASSUME NEW h \in Requests, SubmitFails(h) \/ SubmitCancelled(h) \/ DatabaseFails(h)
        PROVE  BornInv'
    <2>1. Changes(h, Idle)
      BY <1>8 DEF SubmitFails, SubmitCancelled, DatabaseFails, Ends, Becomes, Changes
    <2> QED BY <1>8, <2>1, IdleApart, BornKept DEF SubmitFails, SubmitCancelled, DatabaseFails, BornInv
  <1>9. ASSUME NEW h \in Requests, Submitted(h) PROVE BornInv'
    <2>1. Resumed(h) \in Dicts /\ Known(Resumed(h)) = Known(mem) /\ handler[h].now \in 0..MaxTime
      BY ResumedIs, HandlerIs
    <2>2. TakeDue(h, Resumed(h), submitted, handler[h].now)
      BY <1>9 DEF Submitted, Resumed
    <2> QED BY <1>9, <2>1, <2>2, BornTick DEF Submitted
  <1>10. ASSUME NEW h \in Requests, DeleteDocument(h) PROVE BornInv'
    <2>1. Known(docs') \subseteq Known(docs)
      BY <1>10, <1>m, WithoutIs DEF DeleteDocument
    <2>2. Changes(h, Idle)
      BY <1>10 DEF DeleteDocument, Ends, Becomes, Changes
    <2>3. \A s \in Schedules : spec[s] = Unborn => s \notin gone'
      BY <1>10 DEF DeleteDocument, BornInv, Apart, At
    <2> QED BY <1>10, <2>1, <2>2, <2>3, IdleApart, BornKept DEF DeleteDocument, BornInv
  <1>11. CASE Pass \/ UNCHANGED vars
    BY <1>11 DEF Pass, vars, BornInv
  <1>12. CASE Restart
    <2>1. \A g \in Requests : handler'[g] = Idle
      BY <1>12 DEF Restart
    <2>2. \A s \in Schedules : spec[s] = Unborn =>
             s \notin Known(mem') \cup Known(docs') \cup gone'
      BY <1>12, EmptyIsDict DEF Restart, BornInv
    <2>3. spec' = spec
      BY <1>12 DEF Restart
    <2> QED BY <2>1, <2>2, <2>3, IdleApart DEF BornInv
  <1> QED BY <1>1, <1>2, <1>3, <1>4, <1>5, <1>6, <1>7, <1>8, <1>9, <1>10, <1>11, <1>12, TimesAre DEF Next

(***************************************************************************)
(* What was deleted stays deleted.                                         *)
(***************************************************************************)
\* No handler has a copy of a schedule that was deleted for good.
GoneInv ==
    \A s \in gone \ revived :
        /\ s \notin Known(mem) \cup Known(docs)
        /\ \A h \in Requests : ~Holds(h, s)

LEMMA GoneKept ==
    ASSUME TypeOK, GoneInv, NEW h \in Requests, NEW r, Changes(h, r),
           gone' = gone, revived' = revived,
           \A s \in gone \ revived : s \notin Known(mem') \cup Known(docs') \cup Known(r.seen)
    PROVE  GoneInv'
  <1> SUFFICES ASSUME NEW s \in gone \ revived, NEW g \in Requests
               PROVE  s \notin Known(mem') \cup Known(docs') \cup Known(handler'[g].seen)
    BY DEF GoneInv, Holds, Known
  <1>1. handler'[g] = r \/ handler'[g] = handler[g]
    BY DEF Changes, TypeOK
  <1> QED BY <1>1 DEF GoneInv, Holds

LEMMA GoneTick ==
    ASSUME TypeOK, GoneInv, NEW h \in Requests, NEW dict \in Dicts, NEW now \in 0..MaxTime,
           Known(dict) \subseteq Known(mem) \cup Known(handler[h].seen),
           TakeDue(h, dict, submitted, now), UNCHANGED <<docs, gone, revived>>
    PROVE  GoneInv'
  <1>1. Taken(h, dict, submitted, now)
    BY TakeDueIs, Zenon
  <1>2. (\E s \in Schedules : Submits(h, dict, submitted, now, s)) \/ Finishes(h, submitted, now)
    BY TakeDueIs, Zenon
  <1>3. Known(mem') = Known(dict)
    BY <1>1 DEF Taken
  <1>4. \A s \in gone \ revived : s \notin Known(mem')
    BY <1>3 DEF GoneInv, Holds
  <1>5. PICK r : Changes(h, r) /\ (Known(r.seen) = {} \/ r.seen = mem')
    <2>1. CASE \E s \in Schedules : Submits(h, dict, submitted, now, s)
      <3>1. PICK s \in Schedules : Submits(h, dict, submitted, now, s)
        BY <2>1
      <3> DEFINE r == [Idle EXCEPT !.pc = "submitting", !.op = "tick", !.now = now,
                                   !.fire = Fire(dict, s)]
      <3>2. r.seen = Empty
        BY DEF Idle
      <3>3. Changes(h, r)
        BY <3>1 DEF Submits, Changes
      <3> HIDE DEF r
      <3> QED BY <3>2, <3>3, EmptyIsDict
    <2>2. CASE Finishes(h, submitted, now)
      <3>1. [Idle EXCEPT !.pc = "persisting", !.op = "tick", !.now = now, !.seen = mem'].seen = mem'
        BY DEF Idle
      <3> QED BY <2>2, <3>1, BlankHandler DEF Finishes, Changes
    <2> QED BY <1>2, <2>1, <2>2
  <1> QED BY <1>4, <1>5, GoneKept DEF GoneInv

LEMMA GoneInit == Init => GoneInv
  BY DEF Init, GoneInv

LEMMA GoneStep == TypedInv /\ BornInv /\ GoneInv /\ [Next]_vars => GoneInv'
  <1> SUFFICES ASSUME TypeOK, DeletingNamed, BornInv, GoneInv, [Next]_vars PROVE GoneInv'
    BY DEF TypedInv
  <1>m. mem \in Dicts /\ docs \in Dicts
    BY DEF TypeOK
  <1>1. ASSUME NEW h \in Requests, NEW q \in Schedules, NEW d \in Specs, Create(h, q, d)
        PROVE  GoneInv'
    <2> DEFINE r == [Idle EXCEPT !.pc = "created", !.seen = With(Empty, q, d.first)]
    <2>1. d.first \in 0..MaxTime + 1
      BY SchedulerAssumption DEF Specs
    <2>2. Known(mem') = Known(mem) \cup {q}
      BY <1>1, <1>m, <2>1, WithIs DEF Create
    <2>3. Known(With(Empty, q, d.first)) = {q}
      BY <2>1, EmptyIsDict, WithIs
    <2>4. r.seen = With(Empty, q, d.first)
      BY DEF Idle
    <2>5. q \notin gone
      BY <1>1 DEF Create, BornInv
    <2>6. Changes(h, r)
      BY <1>1 DEF Create, Becomes, Changes
    <2> HIDE DEF r
    <2> QED BY <1>1, <2>2, <2>3, <2>4, <2>5, <2>6, GoneKept DEF Create, GoneInv
  <1>2. ASSUME NEW h \in Requests, NEW q \in Schedules, Persist(h, q)
        PROVE  GoneInv'
    <2> DEFINE rest == Without(handler[h].seen, q)
               r == IF Known(rest) = {} THEN Idle ELSE [handler[h] EXCEPT !.seen = rest]
    <2>1. handler[h].seen \in Dicts /\ q \in Known(handler[h].seen)
      BY <1>2, HandlerIs DEF Persist, Holds
    <2>2. Known(docs') = Known(docs) \cup {q}
      BY <1>2, <1>m, <2>1, WithIs, DictIs DEF Persist
    <2>3. Known(rest) \subseteq Known(handler[h].seen)
      BY <2>1, WithoutIs
    <2>4. Known(r.seen) \subseteq Known(handler[h].seen)
      BY <2>3, HandlerIs, BlankHandler DEF Handlers
    <2>5. Changes(h, r)
      BY <1>2 DEF Persist, Becomes, Changes
    <2> HIDE DEF r
    <2> QED BY <1>2, <2>1, <2>2, <2>4, <2>5, GoneKept DEF Persist, GoneInv, Holds
  <1>3. ASSUME NEW h \in Requests, NEW op \in {"list", "tick", "delete"},
               NEW i \in Schedules \cup {"none"},
               NEW now \in 0..MaxTime, Read(h, op, i, now)
        PROVE  GoneInv'
    <2> DEFINE r == [Idle EXCEPT !.pc = "read", !.op = op, !.id = i, !.now = now, !.seen = docs]
    <2>1. r.seen = docs
      BY DEF Idle
    <2>2. Changes(h, r)
      BY <1>3 DEF Read, Becomes, Changes
    <2> HIDE DEF r
    <2> QED BY <1>3, <2>1, <2>2, GoneKept DEF Read, GoneInv
  <1>4. ASSUME NEW h \in Requests, ListSchedules(h) PROVE GoneInv'
    <2>1. Known(mem') = Known(mem) \cup Known(handler[h].seen)
      BY <1>4, <1>m, HandlerIs, RestoredIs DEF ListSchedules
    <2>2. Changes(h, Idle)
      BY <1>4 DEF ListSchedules, Ends, Becomes, Changes
    <2> QED BY <1>4, <2>1, <2>2, BlankHandler, GoneKept DEF ListSchedules, GoneInv, Holds
  <1>5. ASSUME NEW h \in Requests, TickSchedules(h) PROVE GoneInv'
    <2>1. /\ Restored(handler[h].seen) \in Dicts /\ handler[h].now \in 0..MaxTime
          /\ Known(Restored(handler[h].seen)) = Known(mem) \cup Known(handler[h].seen)
      BY <1>m, HandlerIs, RestoredIs
    <2>2. TakeDue(h, Restored(handler[h].seen), submitted, handler[h].now)
      BY <1>5 DEF TickSchedules
    <2> QED BY <1>5, <2>1, <2>2, GoneTick DEF TickSchedules
  <1>6. ASSUME NEW h \in Requests, DeleteSchedule(h) PROVE GoneInv'
    <2>1. /\ Restored(handler[h].seen) \in Dicts
          /\ Known(Restored(handler[h].seen)) = Known(mem) \cup Known(handler[h].seen)
      BY <1>m, HandlerIs, RestoredIs
    <2>2. Known(mem') \subseteq Known(mem) \cup Known(handler[h].seen)
      BY <1>6, <2>1, WithoutIs DEF DeleteSchedule
    <2>3. PICK r : Changes(h, r) /\ Known(r.seen) = {}
      <3>1. [Idle EXCEPT !.pc = "deleting", !.id = handler[h].id].seen = Empty
        BY DEF Idle
      <3> QED BY <1>6, <3>1, EmptyIsDict, BlankHandler DEF DeleteSchedule, Ends, Becomes, Changes
    <2> QED BY <1>6, <2>2, <2>3, GoneKept DEF DeleteSchedule, GoneInv, Holds
  <1>7. ASSUME NEW h \in Requests, Submit(h) PROVE GoneInv'
    <2> DEFINE r == [handler[h] EXCEPT !.pc = "accepted"]
    <2>1. r.seen = handler[h].seen
      BY HandlerIs DEF Handlers
    <2>2. Changes(h, r)
      BY <1>7 DEF Submit, Becomes, Changes
    <2> HIDE DEF r
    <2> QED BY <1>7, <2>1, <2>2, GoneKept DEF Submit, GoneInv, Holds
  <1>8. ASSUME NEW h \in Requests, SubmitFails(h) \/ SubmitCancelled(h) \/ DatabaseFails(h)
        PROVE  GoneInv'
    <2>1. Changes(h, Idle)
      BY <1>8 DEF SubmitFails, SubmitCancelled, DatabaseFails, Ends, Becomes, Changes
    <2> QED BY <1>8, <2>1, BlankHandler, GoneKept DEF SubmitFails, SubmitCancelled, DatabaseFails, GoneInv
  <1>9. ASSUME NEW h \in Requests, Submitted(h) PROVE GoneInv'
    <2>1. Resumed(h) \in Dicts /\ Known(Resumed(h)) = Known(mem) /\ handler[h].now \in 0..MaxTime
      BY ResumedIs, HandlerIs
    <2>2. TakeDue(h, Resumed(h), submitted, handler[h].now)
      BY <1>9 DEF Submitted, Resumed
    <2> QED BY <1>9, <2>1, <2>2, GoneTick DEF Submitted
  <1>10. ASSUME NEW h \in Requests, DeleteDocument(h) PROVE GoneInv'
    <2> DEFINE q == handler[h].id
    <2>1. Known(docs') = Known(docs) \ {q}
      BY <1>10, <1>m, WithoutIs DEF DeleteDocument
    <2>2. SUFFICES ASSUME NEW s \in gone' \ revived', NEW g \in Requests
                   PROVE  s \notin Known(mem') \cup Known(docs') \cup Known(handler'[g].seen)
      BY DEF GoneInv, Holds, Known
    <2>3. handler'[g] = Idle \/ handler'[g] = handler[g]
      BY <1>10 DEF DeleteDocument, Ends, Becomes, TypeOK
    <2>4. mem' = mem
      BY <1>10 DEF DeleteDocument
    <2>5. CASE s = q
      <3>1. s \notin Known(mem) /\ \A k \in Requests : ~Holds(k, s)
        BY <1>10, <2>2, <2>5 DEF DeleteDocument
      <3> QED BY <2>1, <2>3, <2>4, <2>5, <3>1, BlankHandler DEF Holds
    <2>6. CASE s # q
      <3>1. s \in gone \ revived
        BY <1>10, <2>2, <2>6 DEF DeleteDocument
      <3> QED BY <2>1, <2>3, <2>4, <3>1, BlankHandler DEF GoneInv, Holds
    <2> QED BY <2>5, <2>6
  <1>11. CASE Pass \/ UNCHANGED vars
    BY <1>11 DEF Pass, vars, GoneInv, Holds
  <1>12. CASE Restart
    <2>1. \A g \in Requests : handler'[g] = Idle
      BY <1>12 DEF Restart
    <2> QED BY <1>12, <2>1, EmptyIsDict, BlankHandler DEF Restart, GoneInv, Holds
  <1> QED BY <1>1, <1>2, <1>3, <1>4, <1>5, <1>6, <1>7, <1>8, <1>9, <1>10, <1>11, <1>12, TimesAre DEF Next

LEMMA TypedStep == TypedInv /\ [Next]_vars => TypedInv'
  BY TypesStep, DeletingNamedStep DEF TypedInv

\* However listings, ticks, creations and deletions overlap, a schedule whose
\* deletion was answered returns only from a copy another handler held then.
THEOREM DeletionsStand == Spec => []DeletedStaysGone
  <1>1. Init => TypedInv /\ BornInv /\ GoneInv
    BY TypesInit, BornInit, GoneInit
  <1>2. (TypedInv /\ BornInv /\ GoneInv) /\ [Next]_vars => (TypedInv /\ BornInv /\ GoneInv)'
    BY TypedStep, BornStep, GoneStep
  <1>3. TypedInv /\ BornInv /\ GoneInv => DeletedStaysGone
    BY DEF GoneInv, DeletedStaysGone
  <1> QED BY <1>1, <1>2, <1>3, PTL DEF Spec

(***************************************************************************)
(* A submission that is under way.                                         *)
(***************************************************************************)
\* A handler carries a fire while it submits it, one of its past.
Carries(r) ==
    /\ r.pc \in {"submitting", "accepted"} <=> r.fire \in Fires
    /\ r.fire \in Fires => r.fire.at <= r.now

CarryInv == \A h \in Requests : Carries(handler[h])

LEMMA IdleCarries == Carries(Idle)
  BY BlankHandler DEF Carries

LEMMA CarryKept ==
    ASSUME TypeOK, CarryInv, NEW h \in Requests, NEW r, Changes(h, r), Carries(r)
    PROVE  CarryInv'
  BY DEF TypeOK, CarryInv, Changes

LEMMA CarryTick ==
    ASSUME TypeOK, CarryInv, NEW h \in Requests, NEW dict \in Dicts, NEW now \in 0..MaxTime,
           TakeDue(h, dict, submitted, now)
    PROVE  CarryInv'
  <1>1. (\E s \in Schedules : Submits(h, dict, submitted, now, s)) \/ Finishes(h, submitted, now)
    BY TakeDueIs, Zenon
  <1>2. CASE \E s \in Schedules : Submits(h, dict, submitted, now, s)
    <2>1. PICK s \in Schedules : Submits(h, dict, submitted, now, s)
      BY <1>2
    <2> DEFINE r == [Idle EXCEPT !.pc = "submitting", !.op = "tick", !.now = now,
                                 !.fire = Fire(dict, s)]
    <2>2. Fire(dict, s) \in Fires /\ Fire(dict, s).at <= now
      BY <2>1, FireIs DEF Submits
    <2>3. r.pc = "submitting" /\ r.fire = Fire(dict, s) /\ r.now = now
      BY DEF Idle
    <2>4. Carries(r)
      BY <2>2, <2>3 DEF Carries
    <2>5. Changes(h, r)
      BY <2>1 DEF Submits, Changes
    <2> HIDE DEF r
    <2> QED BY <2>4, <2>5, CarryKept
  <1>3. CASE Finishes(h, submitted, now)
    <2> DEFINE r == [Idle EXCEPT !.pc = "persisting", !.op = "tick", !.now = now, !.seen = mem']
    <2>1. r.fire = NoFire /\ r.pc = "persisting"
      BY DEF Idle
    <2>2. Carries(r)
      BY <2>1, BlankHandler DEF Carries
    <2>3. Changes(h, r) \/ Changes(h, Idle)
      BY <1>3 DEF Finishes, Changes
    <2> HIDE DEF r
    <2> QED BY <2>2, <2>3, IdleCarries, CarryKept
  <1> QED BY <1>1, <1>2, <1>3

LEMMA CarryInit == Init => CarryInv
  BY IdleCarries DEF Init, CarryInv

LEMMA CarryStep == TypeOK /\ CarryInv /\ [Next]_vars => CarryInv'
  <1> SUFFICES ASSUME TypeOK, CarryInv, [Next]_vars PROVE CarryInv'
    OBVIOUS
  <1>m. mem \in Dicts /\ docs \in Dicts
    BY DEF TypeOK
  <1>1. ASSUME NEW h \in Requests, NEW q \in Schedules, NEW d \in Specs, Create(h, q, d)
        PROVE  CarryInv'
    <2> DEFINE r == [Idle EXCEPT !.pc = "created", !.seen = With(Empty, q, d.first)]
    <2>1. r.pc = "created" /\ r.fire = NoFire
      BY DEF Idle
    <2>2. Carries(r)
      BY <2>1, BlankHandler DEF Carries
    <2>3. Changes(h, r)
      BY <1>1 DEF Create, Becomes, Changes
    <2> HIDE DEF r
    <2> QED BY <2>2, <2>3, CarryKept
  <1>2. ASSUME NEW h \in Requests, NEW q \in Schedules, Persist(h, q)
        PROVE  CarryInv'
    <2> DEFINE rest == Without(handler[h].seen, q)
               r == IF Known(rest) = {} THEN Idle ELSE [handler[h] EXCEPT !.seen = rest]
    <2>1. r = Idle \/ (r.pc = handler[h].pc /\ r.fire = handler[h].fire /\ r.now = handler[h].now)
      BY HandlerIs DEF Handlers
    <2>2. Carries(r)
      BY <2>1, IdleCarries DEF CarryInv, Carries
    <2>3. Changes(h, r)
      BY <1>2 DEF Persist, Becomes, Changes
    <2> HIDE DEF r
    <2> QED BY <2>2, <2>3, CarryKept
  <1>3. ASSUME NEW h \in Requests, NEW op \in {"list", "tick", "delete"},
               NEW i \in Schedules \cup {"none"},
               NEW now \in 0..MaxTime, Read(h, op, i, now)
        PROVE  CarryInv'
    <2> DEFINE r == [Idle EXCEPT !.pc = "read", !.op = op, !.id = i, !.now = now, !.seen = docs]
    <2>1. r.pc = "read" /\ r.fire = NoFire
      BY DEF Idle
    <2>2. Carries(r)
      BY <2>1, BlankHandler DEF Carries
    <2>3. Changes(h, r)
      BY <1>3 DEF Read, Becomes, Changes
    <2> HIDE DEF r
    <2> QED BY <2>2, <2>3, CarryKept
  <1>4. ASSUME NEW h \in Requests,
               ListSchedules(h) \/ SubmitFails(h) \/ SubmitCancelled(h) \/ DeleteDocument(h)
                 \/ DatabaseFails(h)
        PROVE  CarryInv'
    <2>1. Changes(h, Idle)
      BY <1>4 DEF ListSchedules, SubmitFails, SubmitCancelled, DeleteDocument, DatabaseFails, Ends, Becomes, Changes
    <2> QED BY <2>1, IdleCarries, CarryKept
  <1>5. ASSUME NEW h \in Requests, TickSchedules(h) PROVE CarryInv'
    <2>1. Restored(handler[h].seen) \in Dicts /\ handler[h].now \in 0..MaxTime
      BY <1>m, HandlerIs, RestoredIs
    <2> QED BY <1>5, <2>1, CarryTick DEF TickSchedules
  <1>6. ASSUME NEW h \in Requests, Submitted(h) PROVE CarryInv'
    <2>1. Resumed(h) \in Dicts /\ handler[h].now \in 0..MaxTime
      BY ResumedIs, HandlerIs
    <2>2. TakeDue(h, Resumed(h), submitted, handler[h].now)
      BY <1>6 DEF Submitted, Resumed
    <2> QED BY <2>1, <2>2, CarryTick
  <1>7. ASSUME NEW h \in Requests, DeleteSchedule(h) PROVE CarryInv'
    <2> DEFINE r == [Idle EXCEPT !.pc = "deleting", !.id = handler[h].id]
    <2>1. r.pc = "deleting" /\ r.fire = NoFire
      BY DEF Idle
    <2>2. Carries(r)
      BY <2>1, BlankHandler DEF Carries
    <2>3. Changes(h, r) \/ Changes(h, Idle)
      BY <1>7 DEF DeleteSchedule, Ends, Becomes, Changes
    <2> HIDE DEF r
    <2> QED BY <2>2, <2>3, IdleCarries, CarryKept
  <1>8. ASSUME NEW h \in Requests, Submit(h) PROVE CarryInv'
    <2> DEFINE r == [handler[h] EXCEPT !.pc = "accepted"]
    <2>1. r.pc = "accepted" /\ r.fire = handler[h].fire /\ r.now = handler[h].now
      BY HandlerIs DEF Handlers
    <2>2. Carries(r)
      BY <1>8, <2>1 DEF Submit, At, CarryInv, Carries
    <2>3. Changes(h, r)
      BY <1>8 DEF Submit, Becomes, Changes
    <2> HIDE DEF r
    <2> QED BY <2>2, <2>3, CarryKept
  <1>9. CASE Restart
    BY <1>9, IdleCarries DEF Restart, CarryInv
  <1>10. CASE Pass \/ UNCHANGED vars
    BY <1>10 DEF Pass, vars, CarryInv
  <1> QED BY <1>1, <1>2, <1>3, <1>4, <1>5, <1>6, <1>7, <1>8, <1>9, <1>10, TimesAre DEF Next

(***************************************************************************)
(* No moment is passed without a run.  The operators take the records of   *)
(* runs as parameters, so that they speak of both states of a step.        *)
(***************************************************************************)
ServedBy(R, s, g) ==
    \E f \in Fires : f.schedule = s /\ f.at <= g /\ R[f] >= g

MomentsOf(x, n) == IF x.kind = "cron" THEN x.first..n - 1 ELSE {g \in {x.first} : n = 0}

\* A schedule x may be set to n: what it was to fire before is served.
EntryServed(x, R, s, n) ==
    /\ x \in Specs
    /\ x.kind = "once" => n \in {0, x.first}
    /\ x.policy = "fire_once" => \A g \in MomentsOf(x, n) : ServedBy(R, s, g)

DictServed(sp, R, d) == \A s \in Known(d) : EntryServed(sp[s], R, s, d[s])

CarryServed(sp, R, r) ==
    r.fire \in Fires =>
        /\ EntryServed(sp[r.fire.schedule], R, r.fire.schedule, r.fire.at)
        /\ r.pc = "accepted" => R[r.fire] >= r.now

FiresInv ==
    /\ DictServed(spec, runs, mem)
    /\ DictServed(spec, runs, docs)
    /\ \A h \in Requests :
         /\ DictServed(spec, runs, handler[h].seen)
         /\ CarryServed(spec, runs, handler[h])

LEMMA EntryGrows ==
    ASSUME NEW x, NEW R \in [Fires -> Nat], NEW Q \in [Fires -> Nat],
           \A f \in Fires : Q[f] >= R[f],
           NEW s, NEW n \in Nat, EntryServed(x, R, s, n)
    PROVE  EntryServed(x, Q, s, n)
  <1>1. \A g \in Int : ServedBy(R, s, g) => ServedBy(Q, s, g)
    BY DEF ServedBy
  <1>2. x \in Specs => MomentsOf(x, n) \subseteq Int
    BY SchedulerAssumption DEF MomentsOf, Specs
  <1> QED BY <1>1, <1>2 DEF EntryServed

LEMMA EntryCreated ==
    ASSUME NEW x \in Specs, NEW R, NEW s
    PROVE  EntryServed(x, R, s, x.first)
  <1>1. MomentsOf(x, x.first) = {}
    BY SchedulerAssumption DEF MomentsOf, Specs
  <1> QED BY <1>1 DEF EntryServed

NextOf(x, t) == IF x.kind = "cron" THEN t + 1 ELSE 0

LEMMA EntrySkipped ==
    ASSUME NEW x, NEW R, NEW s, NEW n, NEW t \in 0..MaxTime,
           EntryServed(x, R, s, n), x.policy = "skip"
    PROVE  EntryServed(x, R, s, NextOf(x, t))
  BY DEF EntryServed, NextOf, Specs

\* The run of its fire serves the moments up to the tick that submitted it.
LEMMA EntryAdvanced ==
    ASSUME NEW x, NEW R \in [Fires -> Nat], NEW f \in Fires,
           NEW t \in 0..MaxTime, f.at <= t, R[f] >= t,
           EntryServed(x, R, f.schedule, f.at)
    PROVE  EntryServed(x, R, f.schedule, NextOf(x, t))
  <1>1. x \in Specs /\ x.first \in 1..MaxTime + 1 /\ f.at \in 1..MaxTime
    BY DEF EntryServed, Specs, Fires, Times
  <1>2. \A g \in Nat : f.at <= g /\ g <= t => ServedBy(R, f.schedule, g)
    BY <1>1 DEF ServedBy
  <1>3. CASE x.kind = "cron"
    <2>1. SUFFICES ASSUME x.policy = "fire_once", NEW g \in x.first..t
                   PROVE  ServedBy(R, f.schedule, g)
      BY <1>1, <1>3, SchedulerAssumption DEF EntryServed, MomentsOf, NextOf
    <2>2. CASE g < f.at
      <3>1. g \in MomentsOf(x, f.at)
        BY <1>1, <1>3, <2>1, <2>2, SchedulerAssumption DEF MomentsOf
      <3> QED BY <2>1, <3>1 DEF EntryServed
    <2>3. CASE g >= f.at
      BY <1>1, <1>2, <2>1, <2>3, SchedulerAssumption
    <2> QED BY <1>1, <2>1, <2>2, <2>3, SchedulerAssumption
  <1>4. CASE x.kind = "once"
    <2>1. x.first = f.at
      BY <1>1, <1>4, SchedulerAssumption DEF EntryServed
    <2>2. ServedBy(R, f.schedule, x.first)
      BY <1>1, <1>2, <2>1, SchedulerAssumption
    <2> QED BY <1>1, <1>4, <2>2 DEF EntryServed, MomentsOf, NextOf
  <1> QED BY <1>1, <1>3, <1>4 DEF Specs

LEMMA RecordsTyped ==
    ASSUME TypeOK
    PROVE  runs \in [Fires -> Nat]
  BY SchedulerAssumption DEF TypeOK

\* No step takes back a run, and none changes a schedule that was created.
LEMMA RecordsGrow ==
    ASSUME TypedInv, [Next]_vars
    PROVE  /\ runs' \in [Fires -> Nat]
           /\ \A f \in Fires : runs'[f] >= runs[f]
           /\ \A s \in Schedules : spec[s] \in Specs => spec'[s] = spec[s]
  <1>0. TypeOK /\ TypeOK'
    BY TypesStep DEF TypedInv
  <1>1. runs' \in [Fires -> Nat]
    BY <1>0, SchedulerAssumption DEF TypeOK
  <1>2. runs \in [Fires -> Nat] /\ clock \in Nat
    BY <1>0, RecordsTyped, SchedulerAssumption DEF TypeOK, Times
  <1>3. ASSUME NEW h \in Requests, Submit(h)
        PROVE  /\ \A f \in Fires : runs'[f] >= runs[f]
               /\ spec' = spec
    <2>1. handler[h].now \in Nat
      BY <1>0, HandlerIs, SchedulerAssumption
    <2> QED BY <1>2, <1>3, <2>1 DEF Submit
  <1>4. ASSUME NEW h \in Requests, NEW s \in Schedules, NEW r \in Specs, Create(h, s, r)
        PROVE  /\ runs' = runs 
               /\ \A q \in Schedules : spec[q] \in Specs => spec'[q] = spec[q]
    BY <1>0, <1>4 DEF Create, TypeOK, Specs, Unborn
  <1>5. CASE UNCHANGED <<spec, runs>>
    BY <1>1, <1>2, <1>5
  <1>6. (\E h \in Requests : Submit(h) \/ \E s \in Schedules, r \in Specs : Create(h, s, r))
          \/ UNCHANGED <<spec, runs>>
    BY DEF Next, vars, Persist, Read, ListSchedules, TickSchedules, DeleteSchedule, SubmitFails,
           SubmitCancelled, Submitted, DeleteDocument, DatabaseFails, Pass, Restart
  <1> QED BY <1>1, <1>2, <1>3, <1>4, <1>5, <1>6

\* What is served before a step is served after it.
LEMMA OldServed ==
    ASSUME TypedInv, FiresInv, [Next]_vars
    PROVE  /\ DictServed(spec', runs', mem)
           /\ DictServed(spec', runs', docs)
           /\ \A h \in Requests :
                /\ DictServed(spec', runs', handler[h].seen)
                /\ CarryServed(spec', runs', handler[h])
  <1>0. TypeOK /\ mem \in Dicts /\ docs \in Dicts
    BY DEF TypedInv, TypeOK
  <1>1. /\ runs \in [Fires -> Nat]
        /\ runs' \in [Fires -> Nat]
        /\ \A f \in Fires : runs'[f] >= runs[f]
        /\ \A s \in Schedules : spec[s] \in Specs => spec'[s] = spec[s]
    BY <1>0, RecordsTyped, RecordsGrow
  <1>2. ASSUME NEW s \in Schedules, NEW n \in Nat, EntryServed(spec[s], runs, s, n)
        PROVE  EntryServed(spec'[s], runs', s, n)
    <2>1. spec'[s] = spec[s]
      BY <1>1, <1>2 DEF EntryServed
    <2>2. EntryServed(spec[s], runs', s, n)
      BY <1>1, <1>2, EntryGrows
    <2> QED BY <2>1, <2>2
  <1>3. ASSUME NEW d \in Dicts, DictServed(spec, runs, d)
        PROVE  DictServed(spec', runs', d)
    <2> SUFFICES ASSUME NEW s \in Known(d) PROVE EntryServed(spec'[s], runs', s, d[s])
      BY DEF DictServed
    <2>1. s \in Schedules /\ d[s] \in Nat
      BY DictIs, SchedulerAssumption
    <2> QED BY <1>2, <1>3, <2>1 DEF DictServed
  <1>4. ASSUME NEW h \in Requests
        PROVE  CarryServed(spec', runs', handler[h])
    <2> DEFINE f == handler[h].fire
    <2> SUFFICES ASSUME f \in Fires
                 PROVE  /\ EntryServed(spec'[f.schedule], runs', f.schedule, f.at)
                        /\ handler[h].pc = "accepted" =>
                             runs'[f] >= handler[h].now
      BY DEF CarryServed
    <2>1. f.schedule \in Schedules /\ f.at \in Nat
      BY SchedulerAssumption DEF Fires, Times
    <2>2. EntryServed(spec[f.schedule], runs, f.schedule, f.at)
      BY DEF FiresInv, CarryServed
    <2>3. EntryServed(spec'[f.schedule], runs', f.schedule, f.at)
      BY <1>2, <2>1, <2>2
    <2>4. handler[h].now \in Nat
      BY <1>0, HandlerIs, SchedulerAssumption
    <2>5. handler[h].pc = "accepted" =>
             runs[f] >= handler[h].now
      BY DEF FiresInv, CarryServed
    <2>6. runs[f] \in Nat /\ runs'[f] \in Nat /\ runs'[f] >= runs[f]
      BY <1>1
    <2> QED BY <2>3, <2>4, <2>5, <2>6
  <1>5. \A h \in Requests : handler[h].seen \in Dicts
    BY <1>0, HandlerIs
  <1>6. ASSUME NEW h \in Requests PROVE DictServed(spec', runs', handler[h].seen)
    BY <1>3, <1>5 DEF FiresInv
  <1>7. DictServed(spec', runs', mem) /\ DictServed(spec', runs', docs)
    BY <1>0, <1>3 DEF FiresInv
  <1> QED BY <1>4, <1>6, <1>7

LEMMA NothingServed == \A sp, R : DictServed(sp, R, Empty) /\ CarryServed(sp, R, Idle)
                                      /\ DictServed(sp, R, Idle.seen)
  BY EmptyIsDict, BlankHandler DEF DictServed, CarryServed

\* A step of one handler after which its copy and memory are served.
LEMMA FiresKept ==
    ASSUME TypedInv, FiresInv, [Next]_vars, NEW h \in Requests, NEW r, Changes(h, r),
           DictServed(spec', runs', mem'), DictServed(spec', runs', docs'),
           DictServed(spec', runs', r.seen), CarryServed(spec', runs', r)
    PROVE  FiresInv'
  <1>1. ASSUME NEW g \in Requests
        PROVE  /\ DictServed(spec', runs', handler'[g].seen)
               /\ CarryServed(spec', runs', handler'[g])
    <2>1. handler'[g] = r \/ handler'[g] = handler[g]
      BY DEF Changes, TypedInv, TypeOK
    <2>2. DictServed(spec', runs', handler[g].seen)
          /\ CarryServed(spec', runs', handler[g])
      BY OldServed
    <2> QED BY <2>1, <2>2
  <1> QED BY <1>1 DEF FiresInv

LEMMA FiresTick ==
    ASSUME TypedInv, FiresInv, [Next]_vars, NEW h \in Requests, NEW dict \in Dicts,
           NEW now \in 0..MaxTime, DictServed(spec, runs, dict),
           TakeDue(h, dict, submitted, now), UNCHANGED <<spec, runs, docs>>
    PROVE  FiresInv'
  <1>1. Taken(h, dict, submitted, now)
    BY TakeDueIs, Zenon
  <1>2. (\E s \in Schedules : Submits(h, dict, submitted, now, s)) \/ Finishes(h, submitted, now)
    BY TakeDueIs, Zenon
  <1>3. ASSUME NEW s \in Known(mem') PROVE EntryServed(spec[s], runs, s, mem'[s])
    <2>1. s \in Known(dict) /\ EntryServed(spec[s], runs, s, dict[s])
      BY <1>1 DEF Taken, DictServed
    <2>2. CASE mem'[s] = dict[s]
      BY <2>1, <2>2
    <2>3. CASE spec[s].policy = "skip" /\ mem'[s] = NextAfter(s, now)
      <3>1. EntryServed(spec[s], runs, s, NextOf(spec[s], now))
        BY <2>1, <2>3, EntrySkipped
      <3> QED BY <2>3, <3>1 DEF NextOf, NextAfter
    <2> QED BY <1>1, <2>1, <2>2, <2>3 DEF Taken
  <1>4. DictServed(spec', runs', mem')
    BY <1>3 DEF DictServed
  <1>5. DictServed(spec', runs', docs')
    BY DEF FiresInv
  <1>6. CASE \E s \in Schedules : Submits(h, dict, submitted, now, s)
    <2>1. PICK s \in Schedules : Submits(h, dict, submitted, now, s)
      BY <1>6
    <2> DEFINE f == Fire(dict, s)
               r == [Idle EXCEPT !.pc = "submitting", !.op = "tick", !.now = now, !.fire = f]
    <2>2. f.schedule = s /\ f.at = dict[s] /\ s \in Known(dict)
      BY <2>1, FireIs DEF Submits
    <2>3. r.seen = Empty /\ r.fire = f /\ r.pc = "submitting"
      BY DEF Idle
    <2>4. EntryServed(spec[s], runs, s, dict[s])
      BY <2>2 DEF DictServed
    <2>5. CarryServed(spec', runs', r)
      BY <2>2, <2>3, <2>4 DEF CarryServed
    <2>6. Changes(h, r)
      BY <2>1 DEF Submits, Changes
    <2> HIDE DEF r
    <2> QED BY <1>4, <1>5, <2>3, <2>5, <2>6, NothingServed, FiresKept
  <1>7. CASE Finishes(h, submitted, now)
    <2> DEFINE r == [Idle EXCEPT !.pc = "persisting", !.op = "tick", !.now = now, !.seen = mem']
    <2>1. r.seen = mem' /\ r.fire = NoFire
      BY DEF Idle
    <2>2. CarryServed(spec', runs', r)
      BY <2>1, BlankHandler DEF CarryServed
    <2>3. Changes(h, r) \/ Changes(h, Idle)
      BY <1>7 DEF Finishes, Changes
    <2> HIDE DEF r
    <2> QED BY <1>4, <1>5, <2>1, <2>2, <2>3, NothingServed, FiresKept
  <1> QED BY <1>2, <1>6, <1>7

LEMMA RestoredServed ==
    ASSUME TypeOK, FiresInv, NEW h \in Requests
    PROVE  /\ Restored(handler[h].seen) \in Dicts
           /\ DictServed(spec, runs, Restored(handler[h].seen))
  BY HandlerIs, RestoredIs DEF TypeOK, FiresInv, DictServed

LEMMA ResumedServed ==
    ASSUME TypeOK, CarryInv, FiresInv, NEW h \in Requests, At(h, "accepted")
    PROVE  Resumed(h) \in Dicts /\ DictServed(spec, runs, Resumed(h))
  <1> DEFINE f == handler[h].fire
             now == handler[h].now
  <1>1. /\ Resumed(h) \in Dicts /\ Known(Resumed(h)) = Known(mem)
        /\ f.schedule \in Known(mem) => Resumed(h)[f.schedule] = NextAfter(f.schedule, now)
        /\ \A q \in Known(mem) \ {f.schedule} : Resumed(h)[q] = mem[q]
    BY ResumedIs
  <1>2. f \in Fires /\ f.at <= now /\ now \in 0..MaxTime
    BY HandlerIs DEF CarryInv, Carries, At
  <1>3. /\ EntryServed(spec[f.schedule], runs, f.schedule, f.at)
        /\ runs[f] >= now
    BY <1>2 DEF FiresInv, CarryServed, At
  <1>4. EntryServed(spec[f.schedule], runs, f.schedule, NextOf(spec[f.schedule], now))
    BY <1>2, <1>3, RecordsTyped, EntryAdvanced
  <1>5. NextOf(spec[f.schedule], now) = NextAfter(f.schedule, now)
    BY DEF NextOf, NextAfter
  <1>6. ASSUME NEW q \in Known(mem) PROVE EntryServed(spec[q], runs, q, Resumed(h)[q])
    BY <1>1, <1>4, <1>5 DEF FiresInv, DictServed
  <1> QED BY <1>1, <1>6 DEF DictServed

LEMMA FiresInit == Init => FiresInv
  BY NothingServed DEF Init, FiresInv

LEMMA FiresStep == TypedInv /\ CarryInv /\ FiresInv /\ [Next]_vars => FiresInv'
  <1> SUFFICES ASSUME TypedInv, CarryInv, FiresInv, [Next]_vars PROVE FiresInv'
    OBVIOUS
  <1>m. TypeOK /\ mem \in Dicts /\ docs \in Dicts
    BY DEF TypedInv, TypeOK
  <1>o. /\ DictServed(spec', runs', mem)
        /\ DictServed(spec', runs', docs)
        /\ \A h \in Requests :
             /\ DictServed(spec', runs', handler[h].seen)
             /\ CarryServed(spec', runs', handler[h])
    BY OldServed
  <1>1. ASSUME NEW h \in Requests, NEW q \in Schedules, NEW d \in Specs, Create(h, q, d)
        PROVE  FiresInv'
    <2> DEFINE r == [Idle EXCEPT !.pc = "created", !.seen = With(Empty, q, d.first)]
    <2>1. d.first \in 0..MaxTime + 1
      BY SchedulerAssumption DEF Specs
    <2>2. spec'[q] = d /\ docs' = docs /\ mem' = With(mem, q, d.first)
      BY <1>1, <1>m DEF Create, TypeOK
    <2>3. EntryServed(spec'[q], runs', q, d.first)
      BY <2>2, EntryCreated
    <2>4. /\ Known(mem') = Known(mem) \cup {q} /\ mem'[q] = d.first
          /\ \A s \in Known(mem) \ {q} : mem'[s] = mem[s]
      BY <1>m, <2>1, <2>2, WithIs
    <2>5. DictServed(spec', runs', mem')
      BY <1>o, <2>3, <2>4 DEF DictServed
    <2>6. Known(With(Empty, q, d.first)) = {q} /\ With(Empty, q, d.first)[q] = d.first
      BY <2>1, EmptyIsDict, WithIs
    <2>7. r.seen = With(Empty, q, d.first) /\ r.fire = NoFire
      BY DEF Idle
    <2>8. DictServed(spec', runs', r.seen)
      BY <2>3, <2>6, <2>7 DEF DictServed
    <2>9. CarryServed(spec', runs', r)
      BY <2>7, BlankHandler DEF CarryServed
    <2>10. Changes(h, r)
      BY <1>1 DEF Create, Becomes, Changes
    <2> HIDE DEF r
    <2> QED BY <1>o, <2>2, <2>5, <2>8, <2>9, <2>10, FiresKept
  <1>2. ASSUME NEW h \in Requests, NEW q \in Schedules, Persist(h, q)
        PROVE  FiresInv'
    <2> DEFINE seen == handler[h].seen
               rest == Without(seen, q)
               r == IF Known(rest) = {} THEN Idle ELSE [handler[h] EXCEPT !.seen = rest]
    <2>1. seen \in Dicts /\ q \in Known(seen)
      BY <1>2, <1>m, HandlerIs DEF Persist, Holds
    <2>2. q \in Schedules /\ seen[q] \in 0..MaxTime + 1 /\ docs' = With(docs, q, seen[q])
      BY <1>2, <2>1, DictIs DEF Persist
    <2>3. /\ Known(docs') = Known(docs) \cup {q} /\ docs'[q] = seen[q]
          /\ \A s \in Known(docs) \ {q} : docs'[s] = docs[s]
      BY <1>m, <2>2, WithIs
    <2>4. DictServed(spec', runs', docs')
      BY <1>o, <2>1, <2>3 DEF DictServed
    <2>5. Known(rest) = Known(seen) \ {q} /\ \A s \in Known(seen) \ {q} : rest[s] = seen[s]
      BY <2>1, WithoutIs
    <2>6. DictServed(spec', runs', rest)
      BY <1>o, <2>5 DEF DictServed
    <2>7. r = Idle \/ (r.seen = rest /\ r.fire = handler[h].fire /\ r.pc = handler[h].pc
                         /\ r.now = handler[h].now)
      BY <1>m, HandlerIs DEF Handlers
    <2>8. DictServed(spec', runs', r.seen)
      BY <2>6, <2>7, NothingServed
    <2>9. CarryServed(spec', runs', r)
      <3>1. CASE r = Idle
        BY <3>1, NothingServed
      <3>2. CASE r.fire = handler[h].fire /\ r.pc = handler[h].pc /\ r.now = handler[h].now
        BY <1>o, <3>2 DEF CarryServed
      <3> QED BY <2>7, <3>1, <3>2
    <2>10. Changes(h, r)
      BY <1>2 DEF Persist, Becomes, Changes
    <2>11. mem' = mem
      BY <1>2 DEF Persist
    <2> HIDE DEF r
    <2> QED BY <1>o, <2>4, <2>8, <2>9, <2>10, <2>11, FiresKept
  <1>3. ASSUME NEW h \in Requests, NEW op \in {"list", "tick", "delete"},
               NEW i \in Schedules \cup {"none"},
               NEW now \in 0..MaxTime, Read(h, op, i, now)
        PROVE  FiresInv'
    <2> DEFINE r == [Idle EXCEPT !.pc = "read", !.op = op, !.id = i, !.now = now, !.seen = docs]
    <2>1. r.seen = docs /\ r.fire = NoFire
      BY DEF Idle
    <2>2. CarryServed(spec', runs', r)
      BY <2>1, BlankHandler DEF CarryServed
    <2>3. Changes(h, r) /\ mem' = mem /\ docs' = docs
      BY <1>3 DEF Read, Becomes, Changes
    <2> HIDE DEF r
    <2> QED BY <1>o, <2>1, <2>2, <2>3, FiresKept
  <1>4. ASSUME NEW h \in Requests, ListSchedules(h) PROVE FiresInv'
    <2>1. Changes(h, Idle) /\ docs' = docs /\ mem' = Restored(handler[h].seen)
      BY <1>4 DEF ListSchedules, Ends, Becomes, Changes
    <2>2. UNCHANGED <<spec, runs>>
      BY <1>4 DEF ListSchedules
    <2>3. DictServed(spec', runs', mem')
      BY <1>m, <2>1, <2>2, RestoredServed
    <2> QED BY <1>o, <2>1, <2>3, NothingServed, FiresKept
  <1>5. ASSUME NEW h \in Requests, SubmitFails(h) \/ SubmitCancelled(h) \/ DatabaseFails(h)
        PROVE  FiresInv'
    <2>1. Changes(h, Idle) /\ mem' = mem /\ docs' = docs
      BY <1>5 DEF SubmitFails, SubmitCancelled, DatabaseFails, Ends, Becomes, Changes
    <2> QED BY <1>o, <2>1, NothingServed, FiresKept
  <1>6. ASSUME NEW h \in Requests, DeleteDocument(h) PROVE FiresInv'
    <2>1. Changes(h, Idle) /\ mem' = mem /\ docs' = Without(docs, handler[h].id)
      BY <1>6 DEF DeleteDocument, Ends, Becomes, Changes
    <2>2. DictServed(spec', runs', docs')
      BY <1>m, <1>o, <2>1, WithoutIs DEF DictServed
    <2> QED BY <1>o, <2>1, <2>2, NothingServed, FiresKept
  <1>7. ASSUME NEW h \in Requests, TickSchedules(h) PROVE FiresInv'
    <2>1. handler[h].now \in 0..MaxTime
      BY <1>m, HandlerIs
    <2>2. /\ Restored(handler[h].seen) \in Dicts
          /\ DictServed(spec, runs, Restored(handler[h].seen))
      BY <1>m, RestoredServed
    <2> QED BY <1>7, <2>1, <2>2, FiresTick DEF TickSchedules
  <1>8. ASSUME NEW h \in Requests, Submitted(h) PROVE FiresInv'
    <2>1. handler[h].now \in 0..MaxTime
      BY <1>m, HandlerIs
    <2>2. Resumed(h) \in Dicts /\ DictServed(spec, runs, Resumed(h))
      BY <1>m, <1>8, ResumedServed DEF Submitted
    <2>3. TakeDue(h, Resumed(h), submitted, handler[h].now)
      BY <1>8 DEF Submitted, Resumed
    <2> QED BY <1>8, <2>1, <2>2, <2>3, FiresTick DEF Submitted
  <1>9. ASSUME NEW h \in Requests, DeleteSchedule(h) PROVE FiresInv'
    <2> DEFINE d == Restored(handler[h].seen)
               r == [Idle EXCEPT !.pc = "deleting", !.id = handler[h].id]
    <2>1. d \in Dicts /\ DictServed(spec, runs, d)
      BY <1>m, RestoredServed
    <2>2. mem' = Without(d, handler[h].id) /\ docs' = docs /\ UNCHANGED <<spec, runs>>
      BY <1>9 DEF DeleteSchedule
    <2> HIDE DEF d
    <2>3. DictServed(spec', runs', mem')
      BY <2>1, <2>2, WithoutIs DEF DictServed
    <2>4. r.seen = Empty /\ r.fire = NoFire
      BY DEF Idle
    <2>5. CarryServed(spec', runs', r)
      BY <2>4, BlankHandler DEF CarryServed
    <2>6. Changes(h, r) \/ Changes(h, Idle)
      BY <1>9 DEF DeleteSchedule, Ends, Becomes, Changes
    <2> HIDE DEF r
    <2> QED BY <1>o, <2>2, <2>3, <2>4, <2>5, <2>6, NothingServed, FiresKept
  <1>10. ASSUME NEW h \in Requests, Submit(h) PROVE FiresInv'
    <2> DEFINE f == handler[h].fire
               r == [handler[h] EXCEPT !.pc = "accepted"]
    <2>1. r.seen = handler[h].seen /\ r.fire = f /\ r.now = handler[h].now
      BY <1>m, HandlerIs DEF Handlers
    <2>2. f \in Fires
      BY <1>10 DEF Submit, At, CarryInv, Carries
    <2>3. handler[h].now \in Nat /\ runs[f] \in Nat
      BY <1>m, <2>2, HandlerIs, RecordsTyped, SchedulerAssumption
    <2>4. runs'[f] >= handler[h].now
      BY <1>10, <1>m, <2>2, <2>3 DEF Submit, TypeOK
    <2>5. EntryServed(spec'[f.schedule], runs', f.schedule, f.at)
      BY <1>o, <2>2 DEF CarryServed
    <2>6. CarryServed(spec', runs', r)
      BY <2>1, <2>3, <2>4, <2>5 DEF CarryServed
    <2>7. Changes(h, r) /\ mem' = mem /\ docs' = docs
      BY <1>10 DEF Submit, Becomes, Changes
    <2> HIDE DEF r
    <2> QED BY <1>o, <2>1, <2>6, <2>7, FiresKept
  <1>11. CASE Pass \/ UNCHANGED vars
    BY <1>o, <1>11 DEF Pass, vars, FiresInv
  <1>12. CASE Restart
    BY <1>o, <1>12, NothingServed DEF Restart, FiresInv
  <1> QED BY <1>1, <1>2, <1>3, <1>4, <1>5, <1>6, <1>7, <1>8, <1>9, <1>10, <1>11, <1>12, TimesAre DEF Next

\* Whatever ticks overlap, fail, are cancelled or lost with the process, and
\* whatever their clients say the time is, a schedule that fires late moves past
\* no moment but by a run of a tick to which the moment had come, in memory, in
\* its document or in a copy on its way there.
THEOREM MomentsServed == Spec => []FiresServed
  <1> DEFINE Inv == TypedInv /\ CarryInv /\ FiresInv
  <1>1. Init => Inv
    BY TypesInit, CarryInit, FiresInit
  <1>2. Inv /\ [Next]_vars => Inv'
    BY TypedStep, CarryStep, FiresStep DEF TypedInv
  <1>3. Inv => FiresServed
    <2> SUFFICES ASSUME FiresInv, NEW d \in {mem, docs} \cup {handler[h].seen : h \in Requests},
                        NEW s \in Known(d), spec[s].policy = "fire_once",
                        NEW g \in Moments(s, d[s])
                 PROVE  Served(s, g)
      BY DEF FiresServed
    <2>1. DictServed(spec, runs, d)
      BY DEF FiresInv
    <2>2. g \in MomentsOf(spec[s], d[s])
      BY DEF Moments, MomentsOf
    <2>3. ServedBy(runs, s, g)
      BY <2>1, <2>2 DEF DictServed, EntryServed
    <2> QED BY <2>3 DEF ServedBy, Served
  <1> QED BY <1>1, <1>2, <1>3, PTL DEF Spec

(***************************************************************************)
(* No schedule waits for a submission that is not under way.               *)
(***************************************************************************)
Watched(s) == spec[s].policy = "fire_once" /\ s \notin overtaken

\* A marked fire is one the schedule has moved past, or stands at while a
\* handler submits it.
Marked(s) ==
    \A f \in submitted : f.schedule = s =>
        /\ s \in Known(mem)
        /\ \/ mem[s] = 0
           \/ f.at < mem[s]
           \/ mem[s] = f.at /\ (f \in dropped \/ \E h \in Requests : handler[h].fire = f)

\* A fire that is being submitted is marked, the schedule stands at it, and one
\* handler submits it.
UnderWay(s) ==
    \A h \in Requests : handler[h].fire \in Fires /\ handler[h].fire.schedule = s =>
        /\ handler[h].fire \in submitted
        /\ s \in Known(mem) /\ mem[s] = handler[h].fire.at
        /\ \A g \in Requests \ {h} : handler[g].fire # handler[h].fire

MarksBorn == \A f \in submitted : spec[f.schedule] # Unborn

HeldInv ==
    /\ MarksBorn
    /\ \A s \in Schedules : Watched(s) => Marked(s) /\ UnderWay(s)

LEMMA HeldInit == Init => HeldInv
  BY BlankHandler DEF Init, HeldInv, MarksBorn, Marked, UnderWay

LEMMA FirePart ==
    ASSUME NEW f \in Fires
    PROVE  /\ f.schedule \in Schedules /\ f.at \in 1..MaxTime
           /\ \A e \in Fires : e.schedule = f.schedule /\ e.at = f.at => e = f
  BY DEF Fires, Times

\* A step of one handler that neither begins nor ends a submission, and moves no
\* schedule; others may become known.
LEMMA HeldQuiet ==
    ASSUME TypeOK, BornInv, HeldInv, NEW h \in Requests, NEW r, Changes(h, r),
           r.fire = handler[h].fire \/ (r.fire \notin Fires /\ handler[h].fire \notin Fires),
           submitted' = submitted, dropped' = dropped, overtaken' = overtaken,
           \A s \in Schedules : spec'[s] = spec[s] \/ (spec[s] = Unborn /\ spec'[s] # Unborn),
           \A s \in Known(mem) : s \in Known(mem') /\ mem'[s] = mem[s]
    PROVE  HeldInv'
  <1>0. submitted \subseteq Fires
    BY DEF TypeOK
  <1>1. \A g \in Requests : \/ handler'[g].fire = handler[g].fire
                            \/ handler'[g].fire \notin Fires /\ handler[g].fire \notin Fires
    BY DEF Changes, TypeOK
  <1>2. MarksBorn'
    BY <1>0, FirePart DEF HeldInv, MarksBorn
  <1>3. ASSUME NEW s \in Schedules, Watched(s)' PROVE Marked(s)' /\ UnderWay(s)'
    <2>1. CASE spec[s] = Unborn
      <3>1. \A f \in submitted : f.schedule # s
        BY <2>1 DEF HeldInv, MarksBorn
      <3>2. \A g \in Requests : handler[g].fire \in Fires => handler[g].fire.schedule # s
        BY <2>1 DEF BornInv, Apart
      <3> QED BY <1>1, <3>1, <3>2 DEF Marked, UnderWay
    <2>2. CASE spec[s] # Unborn
      <3>1. Watched(s)
        BY <1>3, <2>2 DEF Watched
      <3>2. Marked(s) /\ UnderWay(s)
        BY <3>1 DEF HeldInv
      <3>3. Marked(s)'
        BY <1>0, <1>1, <3>2 DEF Marked
      <3>4. UnderWay(s)'
        BY <1>1, <3>2 DEF UnderWay
      <3> QED BY <3>3, <3>4
    <2> QED BY <2>1, <2>2
  <1> QED BY <1>2, <1>3 DEF HeldInv

LEMMA HeldStill ==
    ASSUME TypeOK, BornInv, HeldInv, NEW h \in Requests, NEW r, Changes(h, r),
           r.fire = handler[h].fire \/ (r.fire \notin Fires /\ handler[h].fire \notin Fires),
           UNCHANGED <<submitted, dropped, overtaken, spec, mem>>
    PROVE  HeldInv'
  <1>1. \A s \in Schedules : spec'[s] = spec[s] \/ (spec[s] = Unborn /\ spec'[s] # Unborn)
    OBVIOUS
  <1>2. \A s \in Known(mem) : s \in Known(mem') /\ mem'[s] = mem[s]
    OBVIOUS
  <1> QED BY <1>1, <1>2, HeldQuiet

\* What the tick of h sees of a schedule: its own submission, if it had one, is
\* over.
Settled(h, dict, s) ==
    /\ \A f \in submitted : f.schedule = s =>
         /\ s \in Known(dict)
         /\ \/ dict[s] = 0
            \/ f.at < dict[s]
            \/ dict[s] = f.at /\ (f \in dropped \/ \E g \in Requests \ {h} : handler[g].fire = f)
    /\ \A g \in Requests \ {h} : handler[g].fire \in Fires /\ handler[g].fire.schedule = s =>
         /\ handler[g].fire \in submitted
         /\ s \in Known(dict) /\ dict[s] = handler[g].fire.at
         /\ \A k \in Requests \ {g, h} : handler[k].fire # handler[g].fire

LEMMA HeldTick ==
    ASSUME TypeOK, BornInv, HeldInv, NEW h \in Requests, NEW dict \in Dicts, NEW now \in 0..MaxTime,
           Known(dict) \subseteq Known(mem) \cup Known(handler[h].seen),
           \A s \in Schedules : Watched(s) => Settled(h, dict, s),
           TakeDue(h, dict, submitted, now), UNCHANGED <<spec, dropped, overtaken>>
    PROVE  HeldInv'
  <1>0. submitted \subseteq Fires
    BY DEF TypeOK
  <1>1. Taken(h, dict, submitted, now)
    BY TakeDueIs, Zenon
  <1>2. (\E s \in Schedules : Submits(h, dict, submitted, now, s)) \/ Finishes(h, submitted, now)
    BY TakeDueIs, Zenon
  <1>3. \A s \in Schedules : spec[s] = Unborn => s \notin Known(dict)
    BY DEF BornInv, Apart
  <1>4. \A s \in Schedules : Watched(s)' => Watched(s) /\ Settled(h, dict, s)
    BY DEF Watched
  <1>5. \A s \in Schedules : Watched(s) /\ s \in Known(dict) => s \in Known(mem') /\ mem'[s] = dict[s]
    BY <1>1 DEF Taken, Watched
  <1>6. CASE \E s \in Schedules : Submits(h, dict, submitted, now, s)
    <2>1. PICK q \in Schedules : Submits(h, dict, submitted, now, q)
      BY <1>6
    <2> DEFINE r == [Idle EXCEPT !.pc = "submitting", !.op = "tick", !.now = now,
                                 !.fire = Fire(dict, q)]
               F == Fire(dict, q)
    <2>2. F \in Fires /\ F.schedule = q /\ F.at = dict[q] /\ q \in Known(dict)
      BY <2>1, FireIs DEF Submits
    <2>3. r.fire = F
      BY DEF Idle
    <2>4. Changes(h, r)
      BY <2>1 DEF Submits, Changes
    <2>5. handler'[h].fire = F /\ \A g \in Requests \ {h} : handler'[g] = handler[g]
      BY <2>3, <2>4 DEF Changes, TypeOK
    <2>6. submitted' = submitted \cup {F} /\ F \notin submitted
      BY <2>1 DEF Submits
    <2> HIDE DEF r, F
    <2>7. MarksBorn'
      BY <1>3, <2>2, <2>6 DEF HeldInv, MarksBorn
    <2>8. ASSUME NEW s \in Schedules, Watched(s)' PROVE Marked(s)'
      <3>1. Watched(s) /\ Settled(h, dict, s)
        BY <1>4, <2>8
      <3>2. SUFFICES ASSUME NEW f \in submitted', f.schedule = s
                     PROVE  /\ s \in Known(mem')
                            /\ \/ mem'[s] = 0
                               \/ f.at < mem'[s]
                               \/ mem'[s] = f.at /\ (f \in dropped' \/ \E g \in Requests : handler'[g].fire = f)
        BY DEF Marked, Known
      <3>3. CASE f \in submitted
        <4>1. /\ s \in Known(dict)
              /\ \/ dict[s] = 0
                 \/ f.at < dict[s]
                 \/ dict[s] = f.at /\ (f \in dropped \/ \E g \in Requests \ {h} : handler[g].fire = f)
          BY <3>1, <3>2, <3>3 DEF Settled
        <4>2. s \in Known(mem') /\ mem'[s] = dict[s]
          BY <1>5, <3>1, <4>1
        <4>3. (\E g \in Requests \ {h} : handler[g].fire = f) => \E g \in Requests : handler'[g].fire = f
          BY <2>5
        <4> QED BY <4>1, <4>2, <4>3
      <3>4. CASE f = F
        BY <1>5, <2>2, <2>5, <3>1, <3>2, <3>4
      <3> QED BY <2>6, <3>2, <3>3, <3>4
    <2>9. ASSUME NEW s \in Schedules, Watched(s)' PROVE UnderWay(s)'
      <3>1. Watched(s) /\ Settled(h, dict, s)
        BY <1>4, <2>9
      <3>2. SUFFICES ASSUME NEW g \in Requests, handler'[g].fire \in Fires,
                            handler'[g].fire.schedule = s
                     PROVE  /\ handler'[g].fire \in submitted'
                            /\ s \in Known(mem') /\ mem'[s] = handler'[g].fire.at
                            /\ \A k \in Requests \ {g} : handler'[k].fire # handler'[g].fire
        BY DEF UnderWay, Known
      <3>3. \A k \in Requests \ {h} : handler[k].fire \in Fires /\ handler[k].fire.schedule = s
                                        => handler[k].fire \in submitted
        BY <3>1 DEF Settled
      <3>4. CASE g = h
        <4>1. s = q
          BY <2>2, <2>5, <3>2, <3>4
        <4>2. \A k \in Requests \ {h} : handler[k].fire # F
          BY <2>2, <2>6, <3>3, <4>1
        <4>3. s \in Known(mem') /\ mem'[s] = F.at
          BY <1>5, <2>2, <3>1, <4>1
        <4> QED BY <2>5, <2>6, <3>4, <4>2, <4>3
      <3>5. CASE g # h
        <4>1. handler'[g] = handler[g]
          BY <2>5, <3>5
        <4>2. /\ handler[g].fire \in submitted
              /\ s \in Known(dict) /\ dict[s] = handler[g].fire.at
              /\ \A k \in Requests \ {g, h} : handler[k].fire # handler[g].fire
          BY <3>1, <3>2, <3>5, <4>1 DEF Settled
        <4>3. s \in Known(mem') /\ mem'[s] = handler[g].fire.at
          BY <1>5, <3>1, <4>2
        <4>4. \A k \in Requests \ {g} : handler'[k].fire # handler[g].fire
          BY <2>5, <2>6, <4>2
        <4> QED BY <2>6, <4>1, <4>2, <4>3, <4>4
      <3> QED BY <3>4, <3>5
    <2> QED BY <2>7, <2>8, <2>9 DEF HeldInv
  <1>7. CASE Finishes(h, submitted, now)
    <2> DEFINE r == [Idle EXCEPT !.pc = "persisting", !.op = "tick", !.now = now, !.seen = mem']
    <2>1. r.fire = NoFire
      BY DEF Idle
    <2>2. Changes(h, r) \/ Changes(h, Idle)
      BY <1>7 DEF Finishes, Changes
    <2> HIDE DEF r
    <2>3. handler'[h].fire \notin Fires /\ \A g \in Requests \ {h} : handler'[g] = handler[g]
      BY <2>1, <2>2, BlankHandler DEF Changes, TypeOK
    <2>4. submitted' = submitted
      BY <1>7 DEF Finishes
    <2>5. MarksBorn'
      BY <2>4 DEF HeldInv, MarksBorn
    <2>6. ASSUME NEW s \in Schedules, Watched(s)' PROVE Marked(s)'
      <3>1. Watched(s) /\ Settled(h, dict, s)
        BY <1>4, <2>6
      <3> QED BY <1>5, <2>3, <2>4, <3>1 DEF Settled, Marked
    <2>7. ASSUME NEW s \in Schedules, Watched(s)' PROVE UnderWay(s)'
      <3>1. Watched(s) /\ Settled(h, dict, s)
        BY <1>4, <2>7
      <3>2. SUFFICES ASSUME NEW g \in Requests, handler'[g].fire \in Fires,
                            handler'[g].fire.schedule = s
                     PROVE  /\ handler'[g].fire \in submitted'
                            /\ s \in Known(mem') /\ mem'[s] = handler'[g].fire.at
                            /\ \A k \in Requests \ {g} : handler'[k].fire # handler'[g].fire
        BY DEF UnderWay, Known
      <3>3. g # h /\ handler'[g] = handler[g]
        BY <2>3, <3>2
      <3>4. /\ handler[g].fire \in submitted
            /\ s \in Known(dict) /\ dict[s] = handler[g].fire.at
            /\ \A k \in Requests \ {g, h} : handler[k].fire # handler[g].fire
        BY <3>1, <3>2, <3>3 DEF Settled
      <3>5. \A k \in Requests \ {g} : handler'[k].fire # handler[g].fire
        BY <2>3, <3>2, <3>3, <3>4
      <3> QED BY <1>5, <2>4, <3>1, <3>3, <3>4, <3>5
    <2> QED BY <2>5, <2>6, <2>7 DEF HeldInv
  <1> QED BY <1>2, <1>6, <1>7

\* The submission of h is over, with an answer.
LEMMA ResumedSettled ==
    ASSUME TypeOK, CarryInv, HeldInv, NEW h \in Requests, At(h, "accepted"),
           NEW s \in Schedules, Watched(s)
    PROVE  Settled(h, Resumed(h), s)
  <1> DEFINE F == handler[h].fire
             d == Resumed(h)
             now == handler[h].now
  <1>1. F \in Fires /\ F.at <= now /\ now \in 0..MaxTime /\ F.at \in 1..MaxTime
    BY HandlerIs, FirePart DEF CarryInv, Carries, At
  <1>2. mem \in Dicts /\ submitted \subseteq Fires
    BY DEF TypeOK
  <1>3. Marked(s) /\ UnderWay(s)
    BY DEF HeldInv
  <1>4. /\ Known(d) = Known(mem)
        /\ F.schedule \in Known(mem) => d[F.schedule] = NextAfter(F.schedule, now)
        /\ \A q \in Known(mem) \ {F.schedule} : d[q] = mem[q]
    BY ResumedIs
  <1> SUFFICES Settled(h, d, s)
    OBVIOUS
  <1> HIDE DEF d
  <1>5. CASE F.schedule = s
    <2>1. s \in Known(mem) /\ mem[s] = F.at /\ \A g \in Requests \ {h} : handler[g].fire # F
      BY <1>1, <1>3, <1>5 DEF UnderWay
    <2>2. d[s] = 0 \/ d[s] = now + 1
      BY <1>1, <1>4, <1>5, <2>1, NextIs
    <2>3. ASSUME NEW f \in submitted, f.schedule = s PROVE d[s] = 0 \/ f.at < d[s]
      <3>1. f.at \in 1..MaxTime
        BY <1>2, <2>3, FirePart
      <3>2. mem[s] = 0 \/ f.at < mem[s] \/ mem[s] = f.at
        BY <1>3, <2>3 DEF Marked
      <3> QED BY <1>1, <2>1, <2>2, <3>1, <3>2
    <2>4. ASSUME NEW g \in Requests \ {h}, handler[g].fire \in Fires, handler[g].fire.schedule = s
          PROVE  FALSE
      <3>1. mem[s] = handler[g].fire.at
        BY <1>3, <2>4 DEF UnderWay
      <3>2. handler[g].fire = F
        BY <1>1, <1>5, <2>1, <2>4, <3>1, FirePart
      <3> QED BY <2>1, <3>2
    <2> QED BY <1>4, <2>1, <2>3, <2>4 DEF Settled
  <1>6. CASE F.schedule # s
    <2>1. \A f \in submitted : f.schedule = s /\ s \in Known(mem) => d[s] = mem[s]
      BY <1>4, <1>6
    <2>2. ASSUME NEW f \in submitted, f.schedule = s
          PROVE  /\ s \in Known(d)
                 /\ \/ d[s] = 0
                    \/ f.at < d[s]
                    \/ d[s] = f.at /\ (f \in dropped \/ \E g \in Requests \ {h} : handler[g].fire = f)
      <3>1. f # F
        BY <1>6, <2>2
      <3> QED BY <1>3, <1>4, <2>1, <2>2, <3>1 DEF Marked
    <2>3. ASSUME NEW g \in Requests \ {h}, handler[g].fire \in Fires, handler[g].fire.schedule = s
          PROVE  /\ handler[g].fire \in submitted
                 /\ s \in Known(d) /\ d[s] = handler[g].fire.at
                 /\ \A k \in Requests \ {g, h} : handler[k].fire # handler[g].fire
      BY <1>3, <1>4, <1>6, <2>3 DEF UnderWay
    <2> QED BY <2>2, <2>3 DEF Settled
  <1> QED BY <1>5, <1>6

LEMMA HeldStep == TypedInv /\ BornInv /\ CarryInv /\ HeldInv /\ [Next]_vars => HeldInv'
  <1> SUFFICES ASSUME TypeOK, BornInv, CarryInv, HeldInv, [Next]_vars PROVE HeldInv'
    BY DEF TypedInv
  <1>m. mem \in Dicts /\ docs \in Dicts /\ submitted \subseteq Fires
    BY DEF TypeOK
  <1>c. \A h \in Requests :
          handler[h].pc \notin {"submitting", "accepted"} => handler[h].fire \notin Fires
    BY DEF CarryInv, Carries
  <1>n. NoFire \notin Fires /\ Idle.fire = NoFire
    BY BlankHandler
  <1>1. ASSUME NEW h \in Requests, NEW q \in Schedules, NEW d \in Specs, Create(h, q, d)
        PROVE  HeldInv'
    <2> DEFINE r == [Idle EXCEPT !.pc = "created", !.seen = With(Empty, q, d.first)]
    <2>1. d.first \in 0..MaxTime + 1 /\ d # Unborn
      BY SchedulerAssumption DEF Specs, Unborn
    <2>2. \A s \in Known(mem) : s \in Known(mem') /\ mem'[s] = mem[s]
      <3>1. q \notin Known(mem)
        BY <1>1 DEF Create, BornInv
      <3> QED BY <1>1, <1>m, <2>1, <3>1, WithIs DEF Create
    <2>3. \A s \in Schedules : spec'[s] = spec[s] \/ (spec[s] = Unborn /\ spec'[s] # Unborn)
      <3>1. spec' = [spec EXCEPT ![q] = d] /\ spec[q] = Unborn
        BY <1>1 DEF Create
      <3>2. spec \in [Schedules -> Specs \cup {Unborn}]
        BY DEF TypeOK
      <3>3. \A s \in Schedules : spec'[s] = IF s = q THEN d ELSE spec[s]
        BY <3>1, <3>2
      <3> QED BY <2>1, <3>1, <3>3
    <2>4. r.fire = NoFire
      BY DEF Idle
    <2>5. Changes(h, r)
      BY <1>1 DEF Create, Becomes, Changes
    <2>6. handler[h].fire \notin Fires
      BY <1>1, <1>c DEF Create, At
    <2> HIDE DEF r
    <2> QED BY <1>1, <1>n, <2>2, <2>3, <2>4, <2>5, <2>6, HeldQuiet DEF Create
  <1>2. ASSUME NEW h \in Requests, NEW q \in Schedules, Persist(h, q)
        PROVE  HeldInv'
    <2> DEFINE rest == Without(handler[h].seen, q)
               r == IF Known(rest) = {} THEN Idle ELSE [handler[h] EXCEPT !.seen = rest]
    <2>1. r = Idle \/ r.fire = handler[h].fire
      BY HandlerIs DEF Handlers
    <2>2. handler[h].fire \notin Fires
      BY <1>2, <1>c DEF Persist, At
    <2>3. Changes(h, r)
      BY <1>2 DEF Persist, Becomes, Changes
    <2> HIDE DEF r
    <2> QED BY <1>2, <1>n, <2>1, <2>2, <2>3, HeldStill DEF Persist
  <1>3. ASSUME NEW h \in Requests, NEW op \in {"list", "tick", "delete"},
               NEW i \in Schedules \cup {"none"},
               NEW now \in 0..MaxTime, Read(h, op, i, now)
        PROVE  HeldInv'
    <2> DEFINE r == [Idle EXCEPT !.pc = "read", !.op = op, !.id = i, !.now = now, !.seen = docs]
    <2>1. r.fire = NoFire
      BY DEF Idle
    <2>2. handler[h].fire \notin Fires
      BY <1>3, <1>c DEF Read, At
    <2>3. Changes(h, r)
      BY <1>3 DEF Read, Becomes, Changes
    <2> HIDE DEF r
    <2> QED BY <1>3, <1>n, <2>1, <2>2, <2>3, HeldStill DEF Read
  <1>4. ASSUME NEW h \in Requests, ListSchedules(h) \/ DeleteDocument(h) \/ DatabaseFails(h)
        PROVE  HeldInv'
    <2>1. Changes(h, Idle)
      BY <1>4 DEF ListSchedules, DeleteDocument, DatabaseFails, Ends, Becomes, Changes
    <2>2. handler[h].fire \notin Fires
      BY <1>4, <1>c DEF ListSchedules, DeleteDocument, DatabaseFails, At
    <2>3. \A s \in Known(mem) : s \in Known(mem') /\ mem'[s] = mem[s]
      <3>1. CASE ListSchedules(h)
        BY <1>m, <3>1, HandlerIs, RestoredIs DEF ListSchedules
      <3>2. CASE DeleteDocument(h) \/ DatabaseFails(h)
        BY <3>2 DEF DeleteDocument, DatabaseFails
      <3> QED BY <1>4, <3>1, <3>2
    <2>4. submitted' = submitted /\ dropped' = dropped /\ overtaken' = overtaken /\ spec' = spec
      BY <1>4 DEF ListSchedules, DeleteDocument, DatabaseFails
    <2>5. \A s \in Schedules : spec'[s] = spec[s] \/ (spec[s] = Unborn /\ spec'[s] # Unborn)
      BY <2>4
    <2> QED BY <1>n, <2>1, <2>2, <2>3, <2>4, <2>5, HeldQuiet
  <1>5. ASSUME NEW h \in Requests, TickSchedules(h) PROVE HeldInv'
    <2> DEFINE d == Restored(handler[h].seen)
    <2>1. /\ d \in Dicts /\ handler[h].now \in 0..MaxTime
          /\ Known(d) = Known(mem) \cup Known(handler[h].seen)
          /\ \A q \in Known(mem) : d[q] = mem[q]
      BY <1>m, HandlerIs, RestoredIs
    <2>2. TakeDue(h, d, submitted, handler[h].now) /\ UNCHANGED <<spec, dropped, overtaken>>
      BY <1>5 DEF TickSchedules
    <2>3. handler[h].fire \notin Fires
      BY <1>5, <1>c DEF TickSchedules, At
    <2> HIDE DEF d
    <2>4. ASSUME NEW s \in Schedules, Watched(s) PROVE Settled(h, d, s)
      <3>1. Marked(s) /\ UnderWay(s)
        BY <2>4 DEF HeldInv
      <3> QED BY <1>m, <2>1, <2>3, <3>1 DEF Marked, UnderWay, Settled
    <2> QED BY <2>1, <2>2, <2>4, HeldTick
  <1>6. ASSUME NEW h \in Requests, Submitted(h) PROVE HeldInv'
    <2>1. Resumed(h) \in Dicts /\ Known(Resumed(h)) = Known(mem) /\ handler[h].now \in 0..MaxTime
      BY ResumedIs, HandlerIs
    <2>2. /\ TakeDue(h, Resumed(h), submitted, handler[h].now)
          /\ At(h, "accepted") /\ UNCHANGED <<spec, dropped, overtaken>>
      BY <1>6 DEF Submitted, Resumed
    <2>3. \A s \in Schedules : Watched(s) => Settled(h, Resumed(h), s)
      BY <2>2, ResumedSettled
    <2> QED BY <2>1, <2>2, <2>3, HeldTick
  <1>7. ASSUME NEW h \in Requests, DeleteSchedule(h) PROVE HeldInv'
    <2> DEFINE q == handler[h].id
               d == Restored(handler[h].seen)
               r == [Idle EXCEPT !.pc = "deleting", !.id = q]
    <2>1. d \in Dicts /\ Known(mem) \subseteq Known(d) /\ \A s \in Known(mem) : d[s] = mem[s]
      BY <1>m, HandlerIs, RestoredIs
    <2>2. \A s \in Known(mem) \ {q} : s \in Known(mem') /\ mem'[s] = mem[s]
      BY <1>7, <2>1, WithoutIs DEF DeleteSchedule
    <2>3. handler[h].fire \notin Fires
      BY <1>7, <1>c DEF DeleteSchedule, At
    <2>4. CASE q \notin Known(d)
      <3>1. Changes(h, Idle) /\ UNCHANGED <<submitted, dropped, overtaken, spec>>
        BY <1>7, <2>4 DEF DeleteSchedule, Ends, Becomes, Changes
      <3>2. \A s \in Known(mem) : s \in Known(mem') /\ mem'[s] = mem[s]
        BY <2>1, <2>2, <2>4
      <3>3. \A s \in Schedules : spec'[s] = spec[s] \/ (spec[s] = Unborn /\ spec'[s] # Unborn)
        BY <3>1
      <3> QED BY <1>n, <2>3, <3>1, <3>2, <3>3, HeldQuiet
    <2>5. CASE q \in Known(d)
      <3>1. /\ Changes(h, r) /\ submitted' = {f \in submitted : f.schedule # q} /\ spec' = spec
            /\ dropped' = {f \in dropped : f.schedule # q}
            /\ overtaken' = IF \E g \in Requests : handler[g].fire.schedule = q
                            THEN overtaken \cup {q} ELSE overtaken
        BY <1>7, <2>5 DEF DeleteSchedule, Becomes, Changes
      <3>2. r.fire = NoFire
        BY DEF Idle
      <3> HIDE DEF r, d, q
      <3>3. \A g \in Requests : \/ handler'[g].fire = handler[g].fire
                                \/ handler'[g].fire \notin Fires /\ handler[g].fire \notin Fires
        BY <1>n, <2>3, <3>1, <3>2 DEF Changes, TypeOK
      <3>4. MarksBorn'
        BY <3>1 DEF HeldInv, MarksBorn
      <3>5. ASSUME NEW s \in Schedules, Watched(s)' PROVE Marked(s)' /\ UnderWay(s)'
        <4>1. CASE s = q
          <5>1. \A g \in Requests : handler[g].fire.schedule # s
            BY <3>1, <3>5, <4>1 DEF Watched
          <5>2. \A f \in submitted' : f.schedule # s
            BY <3>1, <4>1
          <5> QED BY <3>3, <5>1, <5>2 DEF Marked, UnderWay
        <4>2. CASE s # q
          <5>1. Watched(s)
            BY <3>1, <3>5 DEF Watched
          <5>2. Marked(s) /\ UnderWay(s)
            BY <5>1 DEF HeldInv
          <5>3. \A f \in submitted : f.schedule = s => f \in submitted'
            BY <3>1, <4>2
          <5>4. Marked(s)'
            BY <1>m, <2>2, <3>1, <3>3, <4>2, <5>2 DEF Marked
          <5>5. UnderWay(s)'
            BY <2>2, <3>3, <4>2, <5>2, <5>3 DEF UnderWay
          <5> QED BY <5>4, <5>5
        <4> QED BY <4>1, <4>2
      <3> QED BY <3>4, <3>5 DEF HeldInv
    <2> QED BY <2>4, <2>5
  <1>8. ASSUME NEW h \in Requests, Submit(h) PROVE HeldInv'
    <2> DEFINE r == [handler[h] EXCEPT !.pc = "accepted"]
    <2>1. r.fire = handler[h].fire
      BY HandlerIs DEF Handlers
    <2>2. Changes(h, r)
      BY <1>8 DEF Submit, Becomes, Changes
    <2> HIDE DEF r
    <2> QED BY <1>8, <2>1, <2>2, HeldStill DEF Submit
  <1>9. ASSUME NEW h \in Requests, SubmitFails(h) PROVE HeldInv'
    <2> DEFINE F == handler[h].fire
    <2>1. F \in Fires
      BY <1>9 DEF SubmitFails, At, CarryInv, Carries
    <2>2. /\ Changes(h, Idle) /\ submitted' = submitted \ {F}
          /\ mem' = mem /\ spec' = spec /\ overtaken' = overtaken /\ dropped' = dropped
      BY <1>9 DEF SubmitFails, Ends, Becomes, Changes
    <2>3. handler'[h].fire \notin Fires /\ \A g \in Requests \ {h} : handler'[g] = handler[g]
      BY <1>n, <2>2 DEF Changes, TypeOK
    <2>4. MarksBorn'
      BY <2>2 DEF HeldInv, MarksBorn
    <2>5. ASSUME NEW s \in Schedules, Watched(s)' PROVE Marked(s)' /\ UnderWay(s)'
      <3>1. Marked(s) /\ UnderWay(s)
        BY <2>2, <2>5 DEF HeldInv, Watched
      <3>2. Marked(s)'
        BY <1>m, <2>2, <2>3, <3>1 DEF Marked
      <3>3. ASSUME NEW g \in Requests, handler'[g].fire \in Fires, handler'[g].fire.schedule = s
            PROVE  /\ handler'[g].fire \in submitted'
                   /\ s \in Known(mem') /\ mem'[s] = handler'[g].fire.at
                   /\ \A k \in Requests \ {g} : handler'[k].fire # handler'[g].fire
        <4>1. g # h /\ handler'[g] = handler[g]
          BY <2>3, <3>3
        <4>2. /\ handler[g].fire \in submitted
              /\ s \in Known(mem) /\ mem[s] = handler[g].fire.at
              /\ \A k \in Requests \ {g} : handler[k].fire # handler[g].fire
          BY <3>1, <3>3, <4>1 DEF UnderWay
        <4>3. handler[g].fire # F
          BY <4>1, <4>2
        <4>4. \A k \in Requests \ {g} : handler'[k].fire # handler[g].fire
          BY <2>3, <3>3, <4>1, <4>2
        <4> QED BY <2>2, <4>1, <4>2, <4>3, <4>4
      <3>4. UnderWay(s)'
        BY <3>3 DEF UnderWay, Known
      <3> QED BY <3>2, <3>4
    <2> QED BY <2>4, <2>5 DEF HeldInv
  <1>10. ASSUME NEW h \in Requests, SubmitCancelled(h) PROVE HeldInv'
    <2> DEFINE F == handler[h].fire
    <2>1. F \in Fires
      BY <1>10 DEF SubmitCancelled, At, CarryInv, Carries
    <2>2. /\ Changes(h, Idle) /\ UNCHANGED <<submitted, mem, spec, overtaken>>
          /\ dropped' = dropped \cup ({F} \cap submitted)
      BY <1>10 DEF SubmitCancelled, Ends, Becomes, Changes
    <2>3. handler'[h].fire \notin Fires /\ \A g \in Requests \ {h} : handler'[g] = handler[g]
      BY <1>n, <2>2 DEF Changes, TypeOK
    <2>4. MarksBorn'
      BY <2>2 DEF HeldInv, MarksBorn
    <2>5. ASSUME NEW s \in Schedules, Watched(s)' PROVE Marked(s)' /\ UnderWay(s)'
      <3>1. Marked(s) /\ UnderWay(s)
        BY <2>2, <2>5 DEF HeldInv, Watched
      <3>2. \A f \in submitted : f \in dropped \/ (\E g \in Requests : handler[g].fire = f)
              => f \in dropped' \/ \E g \in Requests : handler'[g].fire = f
        BY <2>2, <2>3
      <3>3. Marked(s)'
        BY <1>m, <2>2, <3>1, <3>2 DEF Marked
      <3>4. UnderWay(s)'
        BY <2>2, <2>3, <3>1 DEF UnderWay
      <3> QED BY <3>3, <3>4
    <2> QED BY <2>4, <2>5 DEF HeldInv
  <1>11. CASE Restart
    <2>1. submitted' = {} /\ \A g \in Requests : handler'[g].fire = NoFire
      BY <1>11, <1>n DEF Restart
    <2> QED BY <1>n, <2>1 DEF HeldInv, MarksBorn, Marked, UnderWay
  <1>12. CASE Pass \/ UNCHANGED vars
    BY <1>12 DEF Pass, vars, HeldInv, MarksBorn, Watched, Marked, UnderWay, Known
  <1> QED BY <1>1, <1>2, <1>3, <1>4, <1>5, <1>6, <1>7, <1>8, <1>9, <1>10, <1>11, <1>12, TimesAre DEF Next

\* No failed, ended or overlapping submission leaves a schedule waiting at a
\* marked fire that nobody submits: only one that was cancelled does.
THEOREM MarksAreHeld == Spec => []HeldFires
  <1>1. Init => TypedInv /\ BornInv /\ CarryInv /\ HeldInv
    BY TypesInit, BornInit, CarryInit, HeldInit
  <1>2. (TypedInv /\ BornInv /\ CarryInv /\ HeldInv) /\ [Next]_vars
          => (TypedInv /\ BornInv /\ CarryInv /\ HeldInv)'
    BY TypedStep, BornStep, CarryStep, HeldStep DEF TypedInv
  <1>3. TypedInv /\ HeldInv => HeldFires
    <2> SUFFICES ASSUME TypeOK, HeldInv, NEW s \in Known(mem) \ overtaken,
                        spec[s].policy = "fire_once", Fire(mem, s) \in submitted \ dropped
                 PROVE  \E h \in Requests : handler[h].fire = Fire(mem, s)
      BY DEF TypedInv, HeldFires
    <2>1. s \in Schedules /\ Fire(mem, s) \in Fires
      BY DictIs DEF TypeOK
    <2>2. Fire(mem, s).schedule = s /\ Fire(mem, s).at = mem[s] /\ mem[s] \in 1..MaxTime
      BY <2>1, FirePart DEF Fire
    <2>3. Marked(s)
      BY <2>1 DEF HeldInv, Watched
    <2> QED BY <2>2, <2>3 DEF Marked
  <1> QED BY <1>1, <1>2, <1>3, PTL DEF Spec
=============================================================================
