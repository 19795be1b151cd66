--------------------------- MODULE DispatchProofs ---------------------------
(***************************************************************************)
(* What a restart from a checkpoint keeps to, for every plan, any number   *)
(* of retries, rounds and restarts.                                        *)
(***************************************************************************)
EXTENDS DispatchRuntime, TLAPS

States == {"none", "prepared", "running"} \cup Succeeded
ToolStates == {"none", "prepared", "running", "succeeded", "uncertain"}
Phases == {"running", "completed"} \cup Exhausted

\* A ledger as a coordinator keeps it: only a reviewed step is tried again,
\* and only a step with tools is answered by a tool call.
Books ==
    {l \in Ledgers :
       /\ \A s \in Steps : l.retry[s] > 0 => s \in Reviewed
       /\ \A k \in ModelKeys : l.model[k] = "tool" => k[1] \in Tools}

Kinds == {"event", "checkpoint", "failed", "completed"}
BookItems == [kind : Kinds, led : Books]

\* A task stays within the rounds and retries that its calls have keys for.
Proper(s, t) ==
    /\ t.att > 0 => s \in Reviewed
    /\ t.idx <= Rounds
    /\ t.pc \in {"tool", "tooling"} => t.idx < Rounds /\ s \in Tools
    /\ t.pc \in {"review", "reviewing", "revise"} => s \in Reviewed
    /\ t.pc = "revise" => t.att < Retries
    /\ t.pc \notin {"revise", "done", "failed"} => t.got <= t.try

\* What was answered stays answered, and a tool that succeeded is not open again.
Follows(old, new) ==
    /\ \A k \in ModelKeys : old.model[k] \in Succeeded => new.model[k] \in Succeeded
    /\ \A k \in ToolKeys : old.tool[k] \in {"succeeded", "uncertain"}
                             => new.tool[k] \in {"succeeded", "uncertain"}

\* A coordinator that runs was restored from a checkpoint with no call in doubt,
\* and its ledger has gone on from there.
Tied(r) ==
    r.pc = "run" =>
      /\ r.base.phase = "running"
      /\ \A k \in ModelKeys : r.base.model[k] # "running"
      /\ \A k \in ToolKeys : /\ r.base.tool[k] # "uncertain"
                             /\ r.base.tool[k] = "running" => Safe(k)
      /\ Follows(r.base, r.led)

\* RestoredOutcomesStand, of one coordinator.
Stand(r) ==
    /\ \A k \in r.asked : r.base.model[k] \in {"none", "prepared"}
    /\ \A k \in r.ran : \/ r.base.tool[k] \in {"none", "prepared"}
                        \/ r.base.tool[k] = "running" /\ Safe(k)
    /\ r.base.phase # "running" => r.asked = {} /\ r.ran = {}

CoordInv(r) ==
    /\ r \in Coordinators
    /\ r.led \in Books
    /\ r.queue \in Seq(BookItems)
    /\ \A s \in Steps : Proper(s, r.task[s])
    /\ Tied(r)
    /\ Stand(r)

DispatchInv ==
    /\ TypeOK
    /\ durable \in Books
    /\ \A i \in Instances : CoordInv(rt[i])

(***************************************************************************)
(* Ledgers.                                                                *)
(***************************************************************************)
LEMMA Bounds ==
  /\ Retries \in Nat /\ Rounds \in Nat /\ MaxStarts \in Nat
  /\ Tools \subseteq Steps
BY DispatchAssumption

LEMMA BlankBook == Blank \in Books
<1>1. /\ [k \in ModelKeys |-> "none"] \in [ModelKeys -> States]
      /\ [k \in ToolKeys |-> "none"] \in [ToolKeys -> ToolStates]
      /\ [s \in Steps |-> 0] \in [Steps -> Attempts]
  BY Bounds DEF States, ToolStates, Attempts
<1>2. Blank \in Ledgers
  BY <1>1 DEF Blank, Ledgers, States, ToolStates
<1>3. QED
  BY <1>2 DEF Blank, Books

\* One more state in the model ledger.
LEMMA SetModel ==
  ASSUME NEW l \in Books, NEW k, NEW v \in States, v = "tool" => k[1] \in Tools
  PROVE  [l EXCEPT !.model[k] = v] \in Books
<1> DEFINE m == [l EXCEPT !.model[k] = v]
<1>1. l \in Ledgers /\ l.model \in [ModelKeys -> States]
  BY DEF Books, Ledgers, States
<1>2. /\ m.model \in [ModelKeys -> States]
      /\ \A j \in ModelKeys : m.model[j] = IF j = k THEN v ELSE l.model[j]
      /\ m.retry = l.retry
  BY <1>1 DEF Ledgers
<1>3. m \in Ledgers
  BY <1>1, <1>2 DEF Ledgers, States
<1>4. QED
  BY <1>2, <1>3 DEF Books

LEMMA SetTool ==
  ASSUME NEW l \in Books, NEW k, NEW v \in ToolStates
  PROVE  [l EXCEPT !.tool[k] = v] \in Books
<1> DEFINE m == [l EXCEPT !.tool[k] = v]
<1>1. l \in Ledgers /\ l.tool \in [ToolKeys -> ToolStates]
  BY DEF Books, Ledgers, ToolStates
<1>2. /\ m.tool \in [ToolKeys -> ToolStates]
      /\ m.retry = l.retry /\ m.model = l.model
  BY <1>1 DEF Ledgers
<1>3. m \in Ledgers
  BY <1>1, <1>2 DEF Ledgers, ToolStates
<1>4. QED
  BY <1>2, <1>3 DEF Books

LEMMA SetCompact ==
  ASSUME NEW l \in Books, NEW c \in SUBSET ModelKeys
  PROVE  /\ [l EXCEPT !.compact = c] \in Books
         /\ Follows(l, [l EXCEPT !.compact = c])
BY DEF Books, Ledgers, Follows

LEMMA SetRetry ==
  ASSUME NEW l \in Books, NEW s \in Steps, NEW n \in Attempts, n > 0 => s \in Reviewed
  PROVE  /\ [l EXCEPT !.retry[s] = n] \in Books
         /\ Follows(l, [l EXCEPT !.retry[s] = n])
<1> DEFINE m == [l EXCEPT !.retry[s] = n]
<1>1. l \in Ledgers /\ l.retry \in [Steps -> Attempts]
  BY DEF Books, Ledgers
<1>2. /\ m.retry \in [Steps -> Attempts]
      /\ \A p \in Steps : m.retry[p] = IF p = s THEN n ELSE l.retry[p]
      /\ m.tool = l.tool /\ m.model = l.model
  BY <1>1 DEF Ledgers
<1>3. m \in Ledgers
  BY <1>1, <1>2 DEF Ledgers
<1>4. QED
  BY <1>2, <1>3 DEF Books, Follows

LEMMA SetProgress ==
  ASSUME NEW l \in Books, NEW d \in SUBSET Steps, NEW f \in Phases, NEW b \in BOOLEAN
  PROVE  /\ [l EXCEPT !.done = d, !.phase = f, !.torn = b] \in Books
         /\ Follows(l, [l EXCEPT !.done = d, !.phase = f, !.torn = b])
<1> DEFINE m == [l EXCEPT !.done = d, !.phase = f, !.torn = b]
<1>1. l \in Ledgers
  BY DEF Books
<1>2. m \in Ledgers /\ m.tool = l.tool /\ m.model = l.model /\ m.retry = l.retry
  BY <1>1 DEF Ledgers, Phases
<1> HIDE DEF m
<1>3. m \in Books /\ Follows(l, m)
  BY <1>2 DEF Books, Follows
<1>4. QED
  BY <1>3 DEF m

LEMMA FollowsModel ==
  ASSUME NEW l \in Books, NEW k, NEW v \in States,
         l.model[k] \in {"none", "prepared"} \/ v \in Succeeded
  PROVE  Follows(l, [l EXCEPT !.model[k] = v])
BY DEF Books, Ledgers, Follows, Succeeded, Answers, Verdicts

LEMMA FollowsTool ==
  ASSUME NEW l \in Books, NEW k, NEW v \in ToolStates,
         l.tool[k] \in {"none", "prepared", "running"} \/ v \in {"succeeded", "uncertain"}
  PROVE  Follows(l, [l EXCEPT !.tool[k] = v])
BY DEF Books, Ledgers, Follows

LEMMA FollowsFollows ==
  ASSUME NEW a, NEW b, NEW c, Follows(a, b), Follows(b, c)
  PROVE  Follows(a, c)
BY DEF Follows

LEMMA FollowsItself == ASSUME NEW a PROVE Follows(a, a)
BY DEF Follows

LEMMA AccountedBook ==
  ASSUME NEW l \in Books, NEW k, NEW v \in Succeeded, NEW usage \in BOOLEAN,
         v = "tool" => k[1] \in Tools
  PROVE  Accounted(l, k, v, usage) \in Books /\ Follows(l, Accounted(l, k, v, usage))
<1> DEFINE m == [l EXCEPT !.model[k] = v]
           a == Accounted(l, k, v, usage)
<1>1. m \in Books /\ Follows(l, m)
  BY SetModel, FollowsModel DEF States
<1>2. PICK n \in Nat, f \in Phases : a = [m EXCEPT !.spent = n, !.phase = f]
  <2>1. l.spent \in Nat /\ l.phase \in Phases
    BY DEF Books, Ledgers, Phases
  <2>2. PICK n \in Nat : n = IF usage THEN l.spent + 1 ELSE l.spent
    BY <2>1
  <2>3. PICK f \in Phases :
          f = IF l.phase # "running" THEN l.phase
              ELSE IF ~usage THEN "unaccounted"
              ELSE IF n > plan.budget THEN "budget_exhausted" ELSE "running"
    BY <2>1 DEF Phases, Exhausted
  <2>4. a = [l EXCEPT !.model[k] = v, !.spent = n, !.phase = f]
    BY <2>2, <2>3 DEF Accounted
  <2>5. QED
    BY <2>4
<1>3. m \in Ledgers
  BY <1>1 DEF Books
<1>4. a \in Ledgers /\ a.model = m.model /\ a.tool = m.tool /\ a.retry = m.retry
  BY <1>2, <1>3 DEF Ledgers, Phases
<1> HIDE DEF m, a
<1>5. a \in Books /\ Follows(l, a)
  BY <1>1, <1>4 DEF Books, Follows
<1>6. QED
  BY <1>5 DEF a

LEMMA FallbackBook ==
  ASSUME NEW l \in Books, NEW s \in Steps, NEW t
  PROVE  Fallback(l, s, t) \in Books /\ Follows(l, Fallback(l, s, t))
<1>1. PICK k : \E b \in BOOLEAN :
        Fallback(l, s, t) = [l EXCEPT !.model[k] = "text", !.torn = b]
  <2> DEFINE open == {k \in ModelKeys : /\ k[1] = s /\ k[2] = t.att /\ k[3] = "step"
                                         /\ l.model[k] \in {"prepared", "running"}}
             key == IF open = {} THEN <<s, t.att, "step", 0>>
                    ELSE CHOOSE k \in open : \A j \in open : k[4] <= j[4]
             torn == l.torn \/ Answered(l, s, t.att, "step") # {}
  <2>1. torn \in BOOLEAN
    OBVIOUS
  <2>2. Fallback(l, s, t) = [l EXCEPT !.model[key] = "text", !.torn = torn]
    BY DEF Fallback
  <2> HIDE DEF key, torn
  <2>3. \E b \in BOOLEAN : Fallback(l, s, t) = [l EXCEPT !.model[key] = "text", !.torn = b]
    BY <2>1, <2>2, Zenon
  <2>4. QED
    BY <2>3, Zenon
<1>b. PICK b \in BOOLEAN : Fallback(l, s, t) = [l EXCEPT !.model[k] = "text", !.torn = b]
  BY <1>1
<1> DEFINE m == [l EXCEPT !.model[k] = "text"]
           a == [l EXCEPT !.model[k] = "text", !.torn = b]
<1>2. m \in Books /\ Follows(l, m)
  BY SetModel, FollowsModel DEF States, Succeeded, Answers
<1>3. m \in Ledgers /\ l \in Ledgers
  BY <1>2 DEF Books
<1>4. a = [m EXCEPT !.torn = b]
  OBVIOUS
<1> HIDE DEF m, a
<1>5. a \in Ledgers /\ a.model = m.model /\ a.tool = m.tool /\ a.retry = m.retry
  BY <1>3, <1>4 DEF Ledgers
<1>6. a \in Books /\ Follows(l, a)
  BY <1>2, <1>5 DEF Books, Follows
<1>7. QED
  BY <1>b, <1>6 DEF a

(***************************************************************************)
(* Tasks and queues.                                                       *)
(***************************************************************************)
LEMMA KeyTypes ==
  ASSUME NEW s \in Steps, NEW t \in Tasks, Proper(s, t)
  PROVE  /\ StepKey(s, t) \in ModelKeys /\ StepKey(s, t)[1] = s
         /\ s \in Tools => ToolKey(s, t) \in ToolKeys /\ ToolKey(s, t)[1] = s
<1>1. t.att \in Attempts /\ t.idx \in 0..Rounds /\ Rounds \in Nat /\ Retries \in Nat
  BY Bounds DEF Tasks, Proper
<1>2. t.idx \in 0..(Rounds + Retries)
  BY <1>1
<1>3. StepKey(s, t) \in ModelKeys
  BY <1>1, <1>2 DEF StepKey, ModelKeys, Proper
<1>4. s \in Tools => ToolKey(s, t) \in ToolKeys
  BY <1>1 DEF ToolKey, ToolKeys, Proper
<1>5. QED
  BY <1>3, <1>4 DEF StepKey, ToolKey

LEMMA NoTaskProper ==
  ASSUME NEW s \in Steps
  PROVE  NoTask \in Tasks /\ Proper(s, NoTask)
BY Bounds DEF NoTask, Tasks, Proper, Attempts

LEMMA ItemTypes ==
  /\ Event \in BookItems
  /\ \A led \in Books : Checkpoint(led) \in BookItems
  /\ Final("failed") \in BookItems /\ Final("completed") \in BookItems
BY BlankBook DEF Event, Checkpoint, Final, BookItems, Kinds

LEMMA QueueTypes ==
  ASSUME NEW q \in Seq(BookItems), NEW p \in Seq(BookItems)
  PROVE  q \o p \in Seq(BookItems) /\ Append(q, Event) \in Seq(BookItems)
BY ItemTypes

LEMMA PieceTypes ==
  /\ <<>> \in Seq(BookItems) /\ <<Event>> \in Seq(BookItems)
  /\ <<Final("failed")>> \in Seq(BookItems) /\ <<Final("completed")>> \in Seq(BookItems)
  /\ \A led \in Books : /\ <<Checkpoint(led)>> \in Seq(BookItems)
                         /\ <<Event, Checkpoint(led)>> \in Seq(BookItems)
  /\ \A led, next \in Books :
       /\ <<Checkpoint(led), Checkpoint(next)>> \in Seq(BookItems)
       /\ <<Checkpoint(led), Event, Checkpoint(next)>> \in Seq(BookItems)
BY ItemTypes

LEMMA BookItemTypes == BookItems \subseteq Items /\ Seq(BookItems) \subseteq Seq(Items)
<1>1. BookItems \subseteq Items
  BY DEF BookItems, Items, Kinds, Books
<1>2. ASSUME NEW q \in Seq(BookItems)  PROVE q \in Seq(Items)
  BY <1>1
<1>3. QED
  BY <1>1, <1>2

(***************************************************************************)
(* Coordinators.                                                           *)
(***************************************************************************)
\* A coordinator's step keeps the invariant if it keeps that coordinator's.
LEMMA CoordinatedKept ==
  ASSUME DispatchInv, NEW i \in Instances, NEW r, CoordInv(r),
         rt' = [rt EXCEPT ![i] = r], UnchangedRun
  PROVE  DispatchInv'
<1>1. rt \in [Instances -> Coordinators] /\ r \in Coordinators
  BY DEF DispatchInv, TypeOK, CoordInv
<1>2. TypeOK'
  BY <1>1 DEF DispatchInv, TypeOK, UnchangedRun
<1>3. \A j \in Instances : rt'[j] = IF j = i THEN r ELSE rt[j]
  BY <1>1
<1>4. \A j \in Instances : CoordInv(rt'[j])
  BY <1>3 DEF DispatchInv
<1>5. QED
  BY <1>2, <1>4 DEF DispatchInv, UnchangedRun

\* One step of one task: the ledger goes on, and a call that is made is one
\* whose outcome the ledger does not know.
LEMMA TaskStep ==
  ASSUME NEW r, CoordInv(r), r.pc = "run", NEW s \in Steps,
         NEW t \in Tasks, Proper(s, t),
         NEW led \in Books, Follows(r.led, led), NEW q \in Seq(BookItems),
         NEW asks \in SUBSET ModelKeys, NEW runs \in SUBSET ToolKeys,
         \A k \in asks : r.led.model[k] \in {"none", "prepared"},
         \A k \in runs : \/ r.led.tool[k] \in {"none", "prepared"}
                         \/ r.led.tool[k] = "running" /\ Safe(k)
  PROVE  CoordInv([r EXCEPT !.task = [@ EXCEPT ![s] = t], !.led = led, !.queue = q,
                            !.asked = @ \cup asks, !.ran = @ \cup runs])
<1> DEFINE n == [r EXCEPT !.task = [@ EXCEPT ![s] = t], !.led = led, !.queue = q,
                          !.asked = @ \cup asks, !.ran = @ \cup runs]
<1>1. r \in Coordinators /\ led \in Ledgers /\ q \in Seq(Items)
  BY BookItemTypes DEF CoordInv, Books
<1>2. /\ n.pc = "run" /\ n.base = r.base /\ n.led = led /\ n.queue = q
      /\ n.task = [r.task EXCEPT ![s] = t]
      /\ n.asked = r.asked \cup asks /\ n.ran = r.ran \cup runs
  BY <1>1 DEF Coordinators
<1>3. n \in Coordinators
  BY <1>1 DEF Coordinators
<1> HIDE DEF n
<1>4. \A p \in Steps : Proper(p, n.task[p])
  BY <1>1, <1>2 DEF CoordInv, Coordinators
<1>5. Tied(n)
  BY <1>2, FollowsFollows DEF CoordInv, Tied
<1>6. Stand(n)
  <2>1. Tied(r) /\ Stand(r) /\ r.base \in Ledgers
    BY <1>1 DEF CoordInv, Coordinators
  <2>2. ASSUME NEW k \in asks  PROVE r.base.model[k] \in {"none", "prepared"}
    <3>1. /\ r.base.model[k] # "running" /\ r.base.model[k] \notin Succeeded
          /\ r.base.model[k] \in States
      BY <2>1, <2>2 DEF Tied, Follows, Succeeded, Answers, Verdicts, Ledgers, States
    <3>2. QED
      BY <3>1 DEF States
  <2>3. ASSUME NEW k \in runs
        PROVE  \/ r.base.tool[k] \in {"none", "prepared"}
               \/ r.base.tool[k] = "running" /\ Safe(k)
    BY <2>1, <2>3 DEF Tied, Follows, Ledgers
  <2>4. n.base.phase = "running"
    BY <1>2, <2>1 DEF Tied
  <2>5. QED
    BY <1>2, <2>1, <2>2, <2>3, <2>4 DEF Stand
<1>7. CoordInv(n)
  BY <1>2, <1>3, <1>4, <1>5, <1>6 DEF CoordInv
<1>8. QED
  BY <1>7 DEF n

LEMMA Recorded ==
  ASSUME DispatchInv, NEW i \in Instances, rt[i].pc = "run", NEW s \in Steps,
         NEW t \in Tasks, Proper(s, t),
         NEW led \in Books, Follows(rt[i].led, led), NEW q \in Seq(BookItems),
         rt' = [rt EXCEPT ![i] = [rt[i] EXCEPT !.task[s] = t, !.led = led, !.queue = q]],
         UnchangedRun
  PROVE  DispatchInv'
<1> DEFINE r == rt[i]
           n == [r EXCEPT !.task = [@ EXCEPT ![s] = t], !.led = led, !.queue = q,
                          !.asked = @ \cup {}, !.ran = @ \cup {}]
<1>1. CoordInv(r) /\ r \in Coordinators
  BY DEF DispatchInv, CoordInv
<1>2. CoordInv(n)
  <2> HIDE DEF r
  <2>1. {} \in SUBSET ModelKeys /\ {} \in SUBSET ToolKeys
    OBVIOUS
  <2>2. r.pc = "run" /\ Follows(r.led, led)
    BY DEF r
  <2>3. QED
    BY <1>1, <2>1, <2>2, TaskStep
<1>3. [r EXCEPT !.task[s] = t, !.led = led, !.queue = q] = n
  <2> HIDE DEF r
  <2>1. QED
    BY <1>1 DEF Coordinators
<1>4. rt' = [rt EXCEPT ![i] = n]
  BY <1>3
<1> HIDE DEF n
<1>5. QED
  BY <1>2, <1>4, CoordinatedKept

LEMMA Noted ==
  ASSUME DispatchInv, NEW i \in Instances, rt[i].pc = "run", NEW s \in Steps,
         NEW t \in Tasks, Proper(s, t), Note(i, s, t), UnchangedRun
  PROVE  DispatchInv'
<1>1. /\ rt[i] \in Coordinators /\ rt[i].led \in Books /\ rt[i].queue \in Seq(BookItems)
  BY DEF DispatchInv, CoordInv
<1>2. Append(rt[i].queue, Event) \in Seq(BookItems)
  BY <1>1, PieceTypes, QueueTypes
<1>3. rt' = [rt EXCEPT ![i] = [rt[i] EXCEPT !.task[s] = t, !.led = rt[i].led,
                                            !.queue = Append(rt[i].queue, Event)]]
  <2>1. [rt[i] EXCEPT !.task[s] = t, !.queue = Append(@, Event)]
          = [rt[i] EXCEPT !.task[s] = t, !.led = rt[i].led, !.queue = Append(rt[i].queue, Event)]
    BY <1>1 DEF Coordinators
  <2>2. rt' = [rt EXCEPT ![i] = [rt[i] EXCEPT !.task[s] = t, !.queue = Append(@, Event)]]
    BY <1>1 DEF Note, DispatchInv, TypeOK, Coordinators
  <2>3. QED
    BY <2>1, <2>2
<1>4. QED
  BY <1>1, <1>2, <1>3, FollowsItself, Recorded

LEMMA RecordKept ==
  ASSUME DispatchInv, NEW i \in Instances, rt[i].pc = "run", NEW s \in Steps,
         NEW t \in Tasks, Proper(s, t), NEW led \in Books, Follows(rt[i].led, led),
         NEW before \in Seq(BookItems), NEW after \in Seq(BookItems),
         Record(i, s, t, led, before, after), UnchangedRun
  PROVE  DispatchInv'
<1>1. rt[i].led \in Books /\ rt[i].queue \in Seq(BookItems)
  BY DEF DispatchInv, CoordInv
<1>2. PICK l \in Books : /\ l = IF Spending(rt[i].led) THEN led ELSE rt[i].led
                         /\ Follows(rt[i].led, l)
  BY <1>1, FollowsItself
<1>3. PICK w \in Seq(BookItems) :
        w = IF Spending(rt[i].led) THEN <<Checkpoint(led)>> ELSE <<>>
  BY <1>1, PieceTypes, QueueTypes
<1>4. PICK q \in Seq(BookItems) : q = rt[i].queue \o before \o w \o after
  BY <1>1, PieceTypes, QueueTypes
<1>5. rt' = [rt EXCEPT ![i] = [rt[i] EXCEPT !.task[s] = t, !.led = l, !.queue = q]]
  BY <1>2, <1>3, <1>4 DEF Record
<1>6. QED
  BY <1>2, <1>5, Recorded

LEMMA CommitKept ==
  ASSUME DispatchInv, NEW i \in Instances, rt[i].pc = "run", NEW s \in Steps,
         NEW t \in Tasks, Proper(s, t), NEW led \in Books, Follows(rt[i].led, led),
         Commit(i, s, t, led), UnchangedRun
  PROVE  DispatchInv'
<1>1. rt[i].queue \in Seq(BookItems) /\ rt \in [Instances -> Coordinators]
  BY DEF DispatchInv, CoordInv, TypeOK
<1>2. rt[i].queue \o <<Event, Checkpoint(led)>> \in Seq(BookItems)
  BY <1>1, PieceTypes, QueueTypes
<1>3. rt' = [rt EXCEPT ![i] = [rt[i] EXCEPT !.task[s] = t, !.led = led,
                                 !.queue = rt[i].queue \o <<Event, Checkpoint(led)>>]]
  BY <1>1 DEF Commit, Coordinators
<1>4. QED
  BY <1>2, <1>3, Recorded

LEMMA FailWithKept ==
  ASSUME DispatchInv, NEW i \in Instances, rt[i].pc = "run", NEW s \in Steps,
         NEW t \in Tasks, t.att > 0 => s \in Reviewed, t.idx <= Rounds,
         NEW led \in Books, Follows(rt[i].led, led),
         FailWith(i, s, t, led), UnchangedRun
  PROVE  DispatchInv'
<1>1. rt[i].led \in Books /\ rt[i].queue \in Seq(BookItems)
  BY DEF DispatchInv, CoordInv
<1>2. PICK f \in Books : f = Fallback(led, s, t) /\ Follows(rt[i].led, f)
  BY FallbackBook, FollowsFollows
<1>3. PICK w \in Seq(BookItems) :
        w = IF led = rt[i].led THEN <<>> ELSE <<Event, Checkpoint(led)>>
  BY PieceTypes, QueueTypes
<1>4. ASSUME NEW c \in {"done", "failed"}
      PROVE  [t EXCEPT !.pc = c] \in Tasks /\ Proper(s, [t EXCEPT !.pc = c])
  BY DEF Tasks, Proper
<1>5. CASE s \in Optional
  <2>1. PICK c \in {"done", "failed"} : c = IF Spending(led) THEN "done" ELSE "failed"
    OBVIOUS
  <2>2. PICK q \in Seq(BookItems) : q = rt[i].queue \o w \o <<Event, Checkpoint(f)>>
    BY <1>1, PieceTypes, QueueTypes
  <2>3. rt' = [rt EXCEPT ![i] = [rt[i] EXCEPT !.task[s] = [t EXCEPT !.pc = c],
                                              !.led = f, !.queue = q]]
    BY <1>2, <1>3, <1>5, <2>1, <2>2 DEF FailWith
  <2>4. QED
    BY <1>2, <1>4, <2>3, Recorded
<1>6. CASE s \notin Optional
  <2>1. PICK q \in Seq(BookItems) : q = rt[i].queue \o w \o <<Event>>
    BY <1>1, <1>3, PieceTypes, QueueTypes
  <2>2. rt' = [rt EXCEPT ![i] = [rt[i] EXCEPT !.task[s] = [t EXCEPT !.pc = "failed"],
                                              !.led = led, !.queue = q]]
    BY <1>3, <1>6, <2>1 DEF FailWith
  <2>3. QED
    BY <1>4, <2>2, Recorded
<1>7. QED
  BY <1>5, <1>6

LEMMA Called ==
  ASSUME DispatchInv, NEW i \in Instances, rt[i].pc = "run", NEW s \in Steps, NEW c,
         [rt[i].task[s] EXCEPT !.pc = c] \in Tasks, Proper(s, [rt[i].task[s] EXCEPT !.pc = c]),
         NEW led \in Books, Follows(rt[i].led, led), NEW q \in Seq(BookItems),
         NEW asks \in SUBSET ModelKeys, NEW runs \in SUBSET ToolKeys,
         \A k \in asks : rt[i].led.model[k] \in {"none", "prepared"},
         \A k \in runs : \/ rt[i].led.tool[k] \in {"none", "prepared"}
                         \/ rt[i].led.tool[k] = "running" /\ Safe(k),
         rt' = [rt EXCEPT ![i] = [rt[i] EXCEPT !.task[s].pc = c, !.asked = @ \cup asks,
                                    !.ran = @ \cup runs, !.led = led, !.queue = q]],
         UnchangedRun
  PROVE  DispatchInv'
<1> DEFINE r == rt[i]
           t == [r.task[s] EXCEPT !.pc = c]
           n == [r EXCEPT !.task = [@ EXCEPT ![s] = t], !.led = led, !.queue = q,
                          !.asked = @ \cup asks, !.ran = @ \cup runs]
<1>1. CoordInv(r) /\ r \in Coordinators
  BY DEF DispatchInv, CoordInv
<1>2. CoordInv(n)
  <2>1. t \in Tasks /\ Proper(s, t) /\ r.pc = "run" /\ Follows(r.led, led)
    OBVIOUS
  <2>2. /\ \A k \in asks : r.led.model[k] \in {"none", "prepared"}
        /\ \A k \in runs : \/ r.led.tool[k] \in {"none", "prepared"}
                           \/ r.led.tool[k] = "running" /\ Safe(k)
    OBVIOUS
  <2> HIDE DEF r, t
  <2>3. QED
    BY <1>1, <2>1, <2>2, TaskStep
<1>3. [r EXCEPT !.task[s].pc = c, !.asked = @ \cup asks, !.ran = @ \cup runs,
                !.led = led, !.queue = q] = n
  <2> HIDE DEF r
  <2>1. QED
    BY <1>1 DEF Coordinators
<1>4. rt' = [rt EXCEPT ![i] = n]
  BY <1>3
<1> HIDE DEF n
<1>5. QED
  BY <1>2, <1>4, CoordinatedKept

\* The task that takes a step.
LEMMA AtStep ==
  ASSUME DispatchInv, NEW i \in Instances, NEW s \in Steps, NEW pc, At(i, s, pc)
  PROVE  /\ rt[i].pc = "run" /\ rt[i] \in Coordinators
         /\ rt[i].led \in Books /\ rt[i].queue \in Seq(BookItems)
         /\ rt[i].task[s] \in Tasks /\ Proper(s, rt[i].task[s])
         /\ rt[i].task[s].pc = pc
BY DEF DispatchInv, CoordInv, At, Runs, Coordinators

(***************************************************************************)
(* The calls to models.                                                    *)
(***************************************************************************)
LEMMA ModelCalled ==
  ASSUME DispatchInv, NEW i \in Instances, NEW s \in Steps, NEW pc, At(i, s, pc),
         NEW c, [rt[i].task[s] EXCEPT !.pc = c] \in Tasks,
         Proper(s, [rt[i].task[s] EXCEPT !.pc = c]),
         NEW k \in ModelKeys, rt[i].led.model[k] \in {"none", "prepared"},
         NEW prepared \in Books, NEW running \in Books, Follows(rt[i].led, running),
         CallModel(i, s, c, k, prepared, running),
         UnchangedRun
  PROVE  DispatchInv'
<1> DEFINE r == rt[i]
           asks == {k}
           runs == {}
<1>1. /\ r.pc = "run" /\ r \in Coordinators
      /\ r.led \in Books /\ r.queue \in Seq(BookItems)
  BY AtStep
<1>2. PICK led \in Books : /\ led = IF Spending(r.led) THEN running ELSE r.led
                           /\ Follows(r.led, led)
  BY <1>1, FollowsItself
<1>3. PICK w \in Seq(BookItems) :
         w = IF Spending(r.led) THEN <<Checkpoint(prepared), Checkpoint(running)>> ELSE <<>>
  BY PieceTypes
<1>4. PICK q \in Seq(BookItems) : q = r.queue \o <<Event>> \o w
  BY <1>1, <1>3, PieceTypes, QueueTypes
<1>5. rt' = [rt EXCEPT ![i] =
         [r EXCEPT !.task[s].pc = c, !.asked = @ \cup asks, !.ran = @ \cup runs,
                   !.led = led, !.queue = q]]
  <2>1. rt' = [rt EXCEPT ![i] = [r EXCEPT !.task[s].pc = c, !.asked = @ \cup asks,
                                          !.led = led, !.queue = q]]
    BY <1>2, <1>3, <1>4 DEF CallModel
  <2>2. [r EXCEPT !.task[s].pc = c, !.asked = @ \cup asks, !.led = led, !.queue = q]
        = [r EXCEPT !.task[s].pc = c, !.asked = @ \cup asks, !.ran = @ \cup runs,
                    !.led = led, !.queue = q]
    <3> HIDE DEF r
    <3>1. QED
      BY <1>1 DEF Coordinators
  <2>3. QED
    BY <2>1, <2>2
<1>6. /\ asks \in SUBSET ModelKeys /\ runs \in SUBSET ToolKeys
      /\ \A j \in asks : r.led.model[j] \in {"none", "prepared"}
      /\ \A j \in runs : FALSE
  OBVIOUS
<1>7. /\ [r.task[s] EXCEPT !.pc = c] \in Tasks
      /\ Proper(s, [r.task[s] EXCEPT !.pc = c])
      /\ UnchangedRun
  OBVIOUS
<1> HIDE DEF asks, runs
<1>8. QED
  BY <1>1, <1>2, <1>5, <1>6, <1>7, Called

LEMMA AskKept ==
  ASSUME DispatchInv, NEW i \in Instances, NEW s \in Steps, Ask(i, s)
  PROVE  DispatchInv'
<1> DEFINE r == rt[i]
           t == r.task[s]
           k == StepKey(s, t)
           comp == IF t.compact THEN r.led.compact \cup {k} ELSE r.led.compact
           marked == [r.led EXCEPT !.model[k] = "prepared"]
           prepared == [marked EXCEPT !.compact = comp]
           running == [prepared EXCEPT !.model[k] = "running"]
<1>1. At(i, s, "ask") /\ r.led.model[k] \in {"none", "prepared"} /\ UnchangedRun
  BY DEF Ask
<1>2. /\ t \in Tasks /\ Proper(s, t) /\ t.pc = "ask" /\ r.led \in Books
  BY <1>1, AtStep
<1>3. k \in ModelKeys /\ k[1] = s
  BY <1>2, KeyTypes
<1>4. comp \in SUBSET ModelKeys
  BY <1>2, <1>3 DEF Books, Ledgers
<1>5. marked \in Books /\ Follows(r.led, marked)
  BY <1>1, <1>2, SetModel, FollowsModel DEF States
<1>6. prepared \in Books /\ Follows(r.led, prepared) /\ prepared.model[k] = "prepared"
  <2>1. prepared \in Books /\ Follows(marked, prepared)
    <3> HIDE DEF marked, comp
    <3>1. QED
      BY <1>4, <1>5, SetCompact
  <2>2. prepared.model[k] = "prepared"
    BY <1>2, <1>3 DEF Books, Ledgers
  <2> HIDE DEF prepared
  <2>3. QED
    BY <1>5, <2>1, <2>2, FollowsFollows
<1>7. running \in Books /\ Follows(r.led, running)
  <2> HIDE DEF prepared, k
  <2>1. running \in Books /\ Follows(prepared, running)
    BY <1>6, SetModel, FollowsModel DEF States
  <2>2. QED
    BY <1>6, <2>1, FollowsFollows
<1>8. CallModel(i, s, "calling", k, prepared, running)
  BY DEF Ask
<1>9. [t EXCEPT !.pc = "calling"] \in Tasks /\ Proper(s, [t EXCEPT !.pc = "calling"])
  BY <1>2 DEF Tasks, Proper
<1> HIDE DEF k, running, prepared
<1>10. QED
  BY <1>1, <1>3, <1>6, <1>7, <1>8, <1>9, ModelCalled

LEMMA ReviewKept ==
  ASSUME DispatchInv, NEW i \in Instances, NEW s \in Steps, Review(i, s)
  PROVE  DispatchInv'
<1> DEFINE r == rt[i]
           t == r.task[s]
           k == ReviewKey(r.led, s, t)
           prepared == [r.led EXCEPT !.model[k] = "prepared"]
           running == [r.led EXCEPT !.model[k] = "running"]
<1>1. /\ At(i, s, "review") /\ k[4] = t.got /\ r.led.model[k] = "none" /\ UnchangedRun
  BY DEF Review
<1>2. /\ t \in Tasks /\ Proper(s, t) /\ t.pc = "review" /\ r.led \in Books
  BY <1>1, AtStep
<1>3. k \in ModelKeys
  <2>1. k = <<s, t.att, "review", t.got>>
    BY <1>1 DEF ReviewKey
  <2>2. /\ t.att \in Attempts /\ t.got \in 0..Retries
        /\ t.got \in 0..(Rounds + Retries) /\ s \in Reviewed
    BY <1>2, Bounds DEF Tasks, Proper
  <2>3. QED
    BY <2>1, <2>2 DEF ModelKeys
<1>4. /\ prepared \in Books /\ running \in Books /\ Follows(r.led, running)
  BY <1>1, <1>2, SetModel, FollowsModel DEF States
<1>5. CallModel(i, s, "reviewing", k, prepared, running)
  BY DEF Review
<1>6. [t EXCEPT !.pc = "reviewing"] \in Tasks /\ Proper(s, [t EXCEPT !.pc = "reviewing"])
  BY <1>2 DEF Tasks, Proper
<1> HIDE DEF k, running, prepared
<1>7. QED
  BY <1>1, <1>3, <1>4, <1>5, <1>6, ModelCalled

\* What becomes of a task between its calls.
LEMMA TaskTypes ==
  ASSUME NEW s \in Steps, NEW t \in Tasks, Proper(s, t),
         t.pc \notin {"revise", "done", "failed"}
  PROVE  /\ After(s, t) \in Tasks /\ Proper(s, After(s, t))
         /\ t.idx < Rounds => /\ NextRound(t) \in Tasks /\ Proper(s, NextRound(t))
                              /\ [NextRound(t) EXCEPT !.empty = TRUE] \in Tasks
                              /\ Proper(s, [NextRound(t) EXCEPT !.empty = TRUE])
         /\ t.idx < Rounds /\ s \in Tools => /\ [t EXCEPT !.pc = "tool"] \in Tasks
                                             /\ Proper(s, [t EXCEPT !.pc = "tool"])
         /\ [t EXCEPT !.pc = "failed"] \in Tasks /\ Proper(s, [t EXCEPT !.pc = "failed"])
         /\ t.att > 0 => s \in Reviewed
         /\ t.idx <= Rounds
<1>1. /\ t.att \in Attempts /\ t.idx \in 0..(Rounds + 1) /\ t.try \in 0..Retries
      /\ t.got \in 0..(Retries + 1) /\ Rounds \in Nat /\ Retries \in Nat
  BY Bounds DEF Tasks
<1>2. After(s, t) \in Tasks /\ Proper(s, After(s, t))
  <2>1. PICK c \in {"review", "done"} : /\ After(s, t) = [t EXCEPT !.pc = c]
                                        /\ c = "review" => s \in Reviewed
    BY DEF After
  <2>2. QED
    BY <1>1, <2>1 DEF Tasks, Proper
<1>3. ASSUME t.idx < Rounds
      PROVE  /\ NextRound(t) \in Tasks /\ Proper(s, NextRound(t))
             /\ [NextRound(t) EXCEPT !.empty = TRUE] \in Tasks
             /\ Proper(s, [NextRound(t) EXCEPT !.empty = TRUE])
  <2>1. PICK n \in 0..(Rounds + 1) : n = t.idx + 1 /\ n <= Rounds
    BY <1>1, <1>3
  <2>2. NextRound(t) = [t EXCEPT !.pc = "ask", !.idx = n]
    BY <2>1 DEF NextRound
  <2>3. NextRound(t) \in Tasks /\ Proper(s, NextRound(t)) /\ NextRound(t).pc = "ask"
    BY <1>1, <2>1, <2>2 DEF Tasks, Proper
  <2>4. \A u \in Tasks : /\ [u EXCEPT !.empty = TRUE] \in Tasks
                         /\ Proper(s, u) => Proper(s, [u EXCEPT !.empty = TRUE])
    BY DEF Tasks, Proper
  <2>5. QED
    BY <2>3, <2>4
<1>4. /\ t.idx < Rounds /\ s \in Tools => /\ [t EXCEPT !.pc = "tool"] \in Tasks
                                          /\ Proper(s, [t EXCEPT !.pc = "tool"])
      /\ [t EXCEPT !.pc = "failed"] \in Tasks /\ Proper(s, [t EXCEPT !.pc = "failed"])
      /\ t.att > 0 => s \in Reviewed
      /\ t.idx <= Rounds
  BY DEF Tasks, Proper
<1>5. QED
  BY <1>2, <1>3, <1>4

LEMMA FailKept ==
  ASSUME DispatchInv, NEW i \in Instances, NEW s \in Steps, NEW pc, At(i, s, pc),
         pc \notin {"revise", "done", "failed"}, Fail(i, s, rt[i].task[s]), UnchangedRun
  PROVE  DispatchInv'
<1>1. /\ rt[i].pc = "run" /\ rt[i].led \in Books
      /\ rt[i].task[s] \in Tasks /\ Proper(s, rt[i].task[s]) /\ rt[i].task[s].pc = pc
  BY AtStep
<1>2. FailWith(i, s, rt[i].task[s], rt[i].led) /\ Follows(rt[i].led, rt[i].led)
  BY FollowsItself DEF Fail
<1>3. (rt[i].task[s].att > 0 => s \in Reviewed) /\ rt[i].task[s].idx <= Rounds
  BY <1>1, TaskTypes
<1>4. QED
  BY <1>1, <1>2, <1>3, FailWithKept

LEMMA ReuseKept ==
  ASSUME DispatchInv, NEW i \in Instances, NEW s \in Steps, Reuse(i, s)
  PROVE  DispatchInv'
<1> DEFINE t == rt[i].task[s]
           k == StepKey(s, t)
<1>1. At(i, s, "ask") /\ UnchangedRun
  BY DEF Reuse
<1>2. /\ rt[i].pc = "run" /\ t \in Tasks /\ Proper(s, t) /\ t.pc = "ask"
      /\ rt[i].led \in Books
  BY <1>1, AtStep
<1>3. k \in ModelKeys /\ k[1] = s
  BY <1>2, KeyTypes
<1>4. \/ Note(i, s, After(s, t))
      \/ Fail(i, s, t)
      \/ /\ rt[i].led.model[k] = "tool" /\ t.idx < Rounds
         /\ Note(i, s, [t EXCEPT !.pc = "tool"])
  BY DEF Reuse
<1>5. rt[i].led.model[k] = "tool" => s \in Tools
  BY <1>2, <1>3 DEF Books
<1> HIDE DEF t, k
<1>6. CASE Note(i, s, After(s, t))
  BY <1>1, <1>2, <1>6, TaskTypes, Noted
<1>7. CASE Fail(i, s, t)
  BY <1>1, <1>7, FailKept DEF t
<1>8. CASE /\ rt[i].led.model[k] = "tool" /\ t.idx < Rounds
           /\ Note(i, s, [t EXCEPT !.pc = "tool"])
  BY <1>1, <1>2, <1>5, <1>8, TaskTypes, Noted
<1>9. QED
  BY <1>4, <1>6, <1>7, <1>8

LEMMA AnswerKept ==
  ASSUME DispatchInv, NEW i \in Instances, NEW s \in Steps, Answer(i, s)
  PROVE  DispatchInv'
<1> DEFINE t == rt[i].task[s]
           k == StepKey(s, t)
<1>1. At(i, s, "calling") /\ UnchangedRun
  BY DEF Answer
<1>2. /\ rt[i].pc = "run" /\ t \in Tasks /\ Proper(s, t) /\ t.pc = "calling"
      /\ rt[i].led \in Books
  BY <1>1, AtStep
<1>3. k \in ModelKeys /\ k[1] = s
  BY <1>2, KeyTypes
<1>4. PICK answer \in Answers, usage \in BOOLEAN :
        /\ answer = "tool" => s \in Tools
        /\ \/ FailWith(i, s, t, Accounted(rt[i].led, k, answer, usage))
           \/ /\ answer = "text"
              /\ Commit(i, s, After(s, t), Accounted(rt[i].led, k, answer, usage))
           \/ /\ answer = "tool" /\ t.idx # Rounds
              /\ Commit(i, s, [t EXCEPT !.pc = "tool"], Accounted(rt[i].led, k, answer, usage))
           \/ /\ answer = "empty" /\ t.idx # Rounds
              /\ Commit(i, s, [NextRound(t) EXCEPT !.empty = TRUE],
                        Accounted(rt[i].led, k, answer, usage))
  BY DEF Answer, Answers
<1> DEFINE led == Accounted(rt[i].led, k, answer, usage)
<1> HIDE DEF t, k
<1>5. led \in Books /\ Follows(rt[i].led, led)
  BY <1>2, <1>3, <1>4, AccountedBook DEF Succeeded
<1> HIDE DEF led
<1>6. t.idx # Rounds => t.idx < Rounds
  BY <1>2, Bounds DEF Proper, Tasks
<1>7. CASE FailWith(i, s, t, led)
  BY <1>1, <1>2, <1>5, <1>7, TaskTypes, FailWithKept
<1>8. CASE answer = "text" /\ Commit(i, s, After(s, t), led)
  BY <1>1, <1>2, <1>5, <1>8, TaskTypes, CommitKept
<1>9. CASE /\ answer = "tool" /\ t.idx # Rounds
           /\ Commit(i, s, [t EXCEPT !.pc = "tool"], led)
  BY <1>1, <1>2, <1>4, <1>5, <1>6, <1>9, TaskTypes, CommitKept
<1>10. CASE /\ answer = "empty" /\ t.idx # Rounds
            /\ Commit(i, s, [NextRound(t) EXCEPT !.empty = TRUE], led)
  BY <1>1, <1>2, <1>5, <1>6, <1>10, TaskTypes, CommitKept
<1>11. QED
  BY <1>4, <1>7, <1>8, <1>9, <1>10 DEF led

LEMMA TimeoutKept ==
  ASSUME DispatchInv, NEW i \in Instances, NEW s \in Steps, Timeout(i, s)
  PROVE  DispatchInv'
<1> DEFINE t == rt[i].task[s]
           again == [t EXCEPT !.pc = "ask", !.idx = 0, !.compact = TRUE, !.empty = FALSE]
           led == [rt[i].led EXCEPT !.tool[ToolKey(s, t)] = "uncertain"]
<1>1. PICK pc \in {"ask", "calling", "tooling"} : At(i, s, pc) /\ UnchangedRun
  BY DEF Timeout
<1>2. /\ rt[i].pc = "run" /\ t \in Tasks /\ Proper(s, t) /\ t.pc = pc
      /\ rt[i].led \in Books
  BY <1>1, AtStep
<1>3. PICK next \in {again, [t EXCEPT !.pc = "failed"]} :
        Record(i, s, next, led, <<>>, <<Event>>) \/ Note(i, s, next)
  BY DEF Timeout
<1>4. next \in Tasks /\ Proper(s, next)
  <2>1. again \in Tasks /\ Proper(s, again)
    <3> DEFINE u == [t EXCEPT !.pc = "ask", !.idx = 0]
    <3>1. u \in Tasks /\ Proper(s, u)
      <4>1. 0 \in 0..(Rounds + 1) /\ 0 <= Rounds
        BY Bounds
      <4>2. t.got <= t.try
        BY <1>1, <1>2 DEF Proper
      <4>3. u \in Tasks
        BY <1>2, <4>1 DEF Tasks
      <4>4. u.pc = "ask" /\ u.idx = 0 /\ u.att = t.att /\ u.got = t.got /\ u.try = t.try
        BY <1>2 DEF Tasks
      <4> HIDE DEF u
      <4>5. QED
        BY <1>2, <4>1, <4>2, <4>3, <4>4 DEF Proper
    <3>2. again = [u EXCEPT !.compact = TRUE, !.empty = FALSE]
      OBVIOUS
    <3> HIDE DEF u, again
    <3>3. QED
      BY <3>1, <3>2 DEF Tasks, Proper
  <2>2. QED
    BY <1>1, <1>2, <1>3, <2>1, TaskTypes
<1>5. led \in Books /\ Follows(rt[i].led, led)
  BY <1>2, SetTool, FollowsTool DEF ToolStates
<1> HIDE DEF t, led, again
<1>6. QED
  BY <1>1, <1>2, <1>3, <1>4, <1>5, PieceTypes, RecordKept, Noted

LEMMA ModelStepKept ==
  ASSUME DispatchInv, NEW i \in Instances, NEW s \in Steps, ModelStep(i, s)
  PROVE  DispatchInv'
<1>1. CASE Mismatch(i, s) \/ ModelFails(i, s)
  BY <1>1, FailKept DEF Mismatch, ModelFails
<1>2. QED
  BY <1>1, AskKept, ReuseKept, AnswerKept, TimeoutKept DEF ModelStep

(***************************************************************************)
(* The calls to tools.                                                     *)
(***************************************************************************)
LEMMA StartToolKept ==
  ASSUME DispatchInv, NEW i \in Instances, NEW s \in Steps, StartTool(i, s)
  PROVE  DispatchInv'
<1> DEFINE r == rt[i]
           t == r.task[s]
           k == ToolKey(s, t)
           prepared == [r.led EXCEPT !.tool[k] = "prepared"]
           running == [prepared EXCEPT !.tool[k] = "running"]
           asks == {}
           runs == {k}
<1>1. /\ At(i, s, "tool") /\ UnchangedRun
      /\ r.led.tool[k] \in {"none", "prepared"} \/ (r.led.tool[k] = "running" /\ Safe(k))
  BY DEF StartTool
<1>2. /\ r.pc = "run" /\ r \in Coordinators /\ t \in Tasks /\ Proper(s, t) /\ t.pc = "tool"
      /\ r.led \in Books /\ r.queue \in Seq(BookItems)
  BY <1>1, AtStep
<1>3. k \in ToolKeys
  BY <1>2, KeyTypes DEF Proper
<1>4. prepared \in Books /\ Follows(r.led, prepared) /\ prepared.tool[k] = "prepared"
  <2>1. prepared \in Books /\ Follows(r.led, prepared)
    BY <1>1, <1>2, SetTool, FollowsTool DEF ToolStates
  <2>2. prepared.tool[k] = "prepared"
    BY <1>2, <1>3 DEF Books, Ledgers
  <2>3. QED
    BY <2>1, <2>2
<1>5. running \in Books /\ Follows(r.led, running)
  <2> HIDE DEF prepared, k
  <2>1. running \in Books /\ Follows(prepared, running)
    BY <1>4, SetTool, FollowsTool DEF ToolStates
  <2>2. QED
    BY <1>4, <2>1, FollowsFollows
<1>6. rt' = [rt EXCEPT ![i] =
         [r EXCEPT !.task[s].pc = "tooling", !.ran = @ \cup {k},
                   !.led = IF Spending(@) THEN running ELSE @,
                   !.queue = @ \o (IF Spending(r.led)
                                   THEN <<Checkpoint(prepared), Event, Checkpoint(running)>>
                                   ELSE <<Event>>)]]
  BY DEF StartTool
<1>7. /\ [t EXCEPT !.pc = "tooling"] \in Tasks /\ Proper(s, [t EXCEPT !.pc = "tooling"])
  BY <1>2 DEF Tasks, Proper
<1> HIDE DEF k, prepared, running
<1>8. PICK led \in Books : /\ led = IF Spending(r.led) THEN running ELSE r.led
                           /\ Follows(r.led, led)
  BY <1>2, <1>5, FollowsItself
<1>9. PICK q \in Seq(BookItems) :
        q = r.queue \o (IF Spending(r.led)
                        THEN <<Checkpoint(prepared), Event, Checkpoint(running)>>
                        ELSE <<Event>>)
  BY <1>2, <1>4, <1>5, PieceTypes, QueueTypes
<1>10. rt' = [rt EXCEPT ![i] =
         [r EXCEPT !.task[s].pc = "tooling", !.asked = @ \cup asks, !.ran = @ \cup runs,
                   !.led = led, !.queue = q]]
  <2>1. rt' = [rt EXCEPT ![i] = [r EXCEPT !.task[s].pc = "tooling", !.ran = @ \cup runs,
                                          !.led = led, !.queue = q]]
    BY <1>6, <1>8, <1>9
  <2>2. [r EXCEPT !.task[s].pc = "tooling", !.ran = @ \cup runs, !.led = led, !.queue = q]
        = [r EXCEPT !.task[s].pc = "tooling", !.asked = @ \cup asks, !.ran = @ \cup runs,
                    !.led = led, !.queue = q]
    <3> HIDE DEF r
    <3>1. QED
      BY <1>2 DEF Coordinators
  <2>3. QED
    BY <2>1, <2>2
<1>11. /\ asks \in SUBSET ModelKeys /\ runs \in SUBSET ToolKeys
       /\ \A j \in asks : FALSE
       /\ \A j \in runs : \/ r.led.tool[j] \in {"none", "prepared"}
                          \/ r.led.tool[j] = "running" /\ Safe(j)
  BY <1>1, <1>3
<1> HIDE DEF asks, runs
<1>12. QED
  BY <1>1, <1>2, <1>7, <1>8, <1>10, <1>11, Called

LEMMA ToolStepKept ==
  ASSUME DispatchInv, NEW i \in Instances, NEW s \in Steps, ToolStep(i, s)
  PROVE  DispatchInv'
<1> DEFINE t == rt[i].task[s]
           ok == [rt[i].led EXCEPT !.tool[ToolKey(s, t)] = "succeeded"]
           bad == [rt[i].led EXCEPT !.tool[ToolKey(s, t)] = "uncertain"]
<1>1. CASE ReuseTool(i, s)
  <2>1. /\ At(i, s, "tool") /\ UnchangedRun
        /\ Note(i, s, NextRound(t)) \/ Fail(i, s, t)
    BY <1>1 DEF ReuseTool
  <2>2. rt[i].pc = "run" /\ t \in Tasks /\ Proper(s, t) /\ t.pc = "tool"
    BY <2>1, AtStep
  <2>3. CASE Fail(i, s, t)
    BY <2>1, <2>3, FailKept
  <2>4. CASE Note(i, s, NextRound(t))
    <3>1. t.idx < Rounds
      BY <2>2 DEF Proper
    <3> HIDE DEF t
    <3>2. QED
      BY <2>1, <2>2, <2>4, <3>1, TaskTypes, Noted
  <2>5. QED
    BY <2>1, <2>3, <2>4
<1>2. CASE ToolReturns(i, s) \/ ToolFails(i, s)
  <2>1. At(i, s, "tooling") /\ UnchangedRun
    BY <1>2 DEF ToolReturns, ToolFails
  <2>2. /\ rt[i].pc = "run" /\ t \in Tasks /\ Proper(s, t) /\ t.pc = "tooling"
        /\ rt[i].led \in Books
    BY <2>1, AtStep
  <2>3. /\ ok \in Books /\ Follows(rt[i].led, ok)
        /\ bad \in Books /\ Follows(rt[i].led, bad)
    BY <2>2, SetTool, FollowsTool DEF ToolStates
  <2>4. t.idx < Rounds
    BY <2>2 DEF Proper
  <2>5. \/ Record(i, s, NextRound(t), ok, <<Event>>, <<>>)
        \/ Record(i, s, [t EXCEPT !.pc = "failed"], bad, <<Event>>, <<Event>>)
    BY <1>2 DEF ToolReturns, ToolFails
  <2> HIDE DEF t, ok, bad
  <2>6. /\ NextRound(t) \in Tasks /\ Proper(s, NextRound(t))
        /\ [t EXCEPT !.pc = "failed"] \in Tasks /\ Proper(s, [t EXCEPT !.pc = "failed"])
    BY <2>2, <2>4, TaskTypes
  <2>7. QED
    BY <2>1, <2>2, <2>3, <2>5, <2>6, PieceTypes, RecordKept
<1>3. QED
  BY <1>1, <1>2, StartToolKept DEF ToolStep

(***************************************************************************)
(* Reviews.                                                                *)
(***************************************************************************)
LEMMA RetriedTypes ==
  ASSUME NEW s \in Reviewed, NEW t \in Tasks, t.idx <= Rounds, t.got <= t.try + 1
  PROVE  Retried(t) \in Tasks /\ Proper(s, Retried(t))
<1>1. /\ t.try \in 0..Retries /\ t.got \in 0..(Retries + 1) /\ Retries \in Nat
  BY Bounds DEF Tasks
<1>2. CASE t.try < Retries
  <2>1. PICK n \in 0..Retries : n = t.try + 1
    BY <1>1, <1>2
  <2>2. Retried(t) = [t EXCEPT !.pc = "review", !.try = n]
    BY <1>2, <2>1 DEF Retried
  <2>3. QED
    BY <2>1, <2>2 DEF Tasks, Proper
<1>3. CASE ~(t.try < Retries)
  <2>1. Retried(t) = [t EXCEPT !.pc = "done"]
    BY <1>3 DEF Retried
  <2>2. QED
    BY <2>1 DEF Tasks, Proper
<1>4. QED
  BY <1>2, <1>3

LEMMA ReviewFailsKept ==
  ASSUME DispatchInv, NEW i \in Instances, NEW s \in Steps, ReviewFails(i, s)
  PROVE  DispatchInv'
<1> DEFINE t == rt[i].task[s]
<1>1. PICK pc \in {"review", "reviewing"} : At(i, s, pc) /\ UnchangedRun
  BY DEF ReviewFails
<1>2. /\ rt[i].pc = "run" /\ t \in Tasks /\ Proper(s, t) /\ t.pc = pc
      /\ rt[i].led \in Books
  BY <1>1, AtStep
<1>3. \/ Note(i, s, Retried(t))
      \/ Record(i, s, Retried(t), rt[i].led, <<Event>>, <<>>)
  BY DEF ReviewFails
<1> HIDE DEF t
<1>4. Retried(t) \in Tasks /\ Proper(s, Retried(t))
  <2>1. s \in Reviewed /\ t.idx <= Rounds /\ t.got <= t.try
    BY <1>1, <1>2 DEF Proper
  <2>2. t.got <= t.try + 1
    BY <1>2, <2>1 DEF Tasks
  <2>3. QED
    BY <1>2, <2>1, <2>2, RetriedTypes
<1>5. QED
  BY <1>1, <1>2, <1>3, <1>4, PieceTypes, FollowsItself, RecordKept, Noted

LEMMA VerdictKept ==
  ASSUME DispatchInv, NEW i \in Instances, NEW s \in Steps, Verdict(i, s)
  PROVE  DispatchInv'
<1> DEFINE u == rt[i].task[s]
           t == [u EXCEPT !.got = @ + 1]
           k == ReviewKey(rt[i].led, s, u)
           led(v, usage) == Accounted(rt[i].led, k, v, usage)
<1>1. At(i, s, "reviewing") /\ UnchangedRun
  BY DEF Verdict
<1>2. /\ rt[i].pc = "run" /\ u \in Tasks /\ Proper(s, u) /\ u.pc = "reviewing"
      /\ rt[i].led \in Books
  BY <1>1, AtStep
<1>3. /\ t \in Tasks /\ t.pc = "reviewing" /\ t.att = u.att /\ t.idx <= Rounds
      /\ t.got <= t.try + 1 /\ s \in Reviewed /\ t.att \in Attempts
  <2>1. /\ u.got \in 0..(Retries + 1) /\ u.try \in 0..Retries /\ u.got <= u.try
        /\ Retries \in Nat /\ s \in Reviewed /\ u.idx <= Rounds
    BY <1>2, Bounds DEF Tasks, Proper
  <2>2. PICK n \in 0..(Retries + 1) : n = u.got + 1 /\ n <= u.try + 1
    <3>1. /\ u.got \in Nat /\ u.try \in Nat /\ u.try <= Retries /\ u.got <= u.try
          /\ Retries \in Nat
      BY <2>1
    <3>2. u.got + 1 \in 0..(Retries + 1) /\ u.got + 1 <= u.try + 1
      BY <3>1
    <3>3. QED
      BY <3>2
  <2>3. t = [u EXCEPT !.got = n]
    BY <2>2
  <2>4. QED
    BY <1>2, <2>1, <2>2, <2>3 DEF Tasks
<1>4. PICK verdict \in Verdicts, usage \in BOOLEAN :
        \/ Commit(i, s, Retried(t), led(verdict, usage))
        \/ Commit(i, s, [t EXCEPT !.pc = "done"], led(verdict, usage))
        \/ t.att < Retries /\ Commit(i, s, [t EXCEPT !.pc = "revise"], led(verdict, usage))
        \/ FailWith(i, s, t, led(verdict, usage))
  BY DEF Verdict, Verdicts
<1> DEFINE m == led(verdict, usage)
<1>5. m \in Books /\ Follows(rt[i].led, m)
  BY <1>2, <1>4, AccountedBook DEF Succeeded, Verdicts
<1>6. \/ Commit(i, s, Retried(t), m)
      \/ Commit(i, s, [t EXCEPT !.pc = "done"], m)
      \/ t.att < Retries /\ Commit(i, s, [t EXCEPT !.pc = "revise"], m)
      \/ FailWith(i, s, t, m)
  BY <1>4
<1> HIDE DEF t, m
<1>7. CASE Commit(i, s, Retried(t), m)
  BY <1>1, <1>2, <1>3, <1>5, <1>7, RetriedTypes, CommitKept
<1>8. CASE Commit(i, s, [t EXCEPT !.pc = "done"], m)
  <2>1. [t EXCEPT !.pc = "done"] \in Tasks /\ Proper(s, [t EXCEPT !.pc = "done"])
    BY <1>3 DEF Tasks, Proper
  <2>2. QED
    BY <1>1, <1>2, <1>5, <1>8, <2>1, CommitKept
<1>9. CASE t.att < Retries /\ Commit(i, s, [t EXCEPT !.pc = "revise"], m)
  <2>1. [t EXCEPT !.pc = "revise"] \in Tasks /\ Proper(s, [t EXCEPT !.pc = "revise"])
    BY <1>3, <1>9 DEF Tasks, Proper
  <2>2. QED
    BY <1>1, <1>2, <1>5, <1>9, <2>1, CommitKept
<1>10. CASE FailWith(i, s, t, m)
  BY <1>1, <1>2, <1>3, <1>5, <1>10, FailWithKept
<1>11. QED
  BY <1>6, <1>7, <1>8, <1>9, <1>10

LEMMA ReviseKept ==
  ASSUME DispatchInv, NEW i \in Instances, NEW s \in Steps, Revise(i, s)
  PROVE  DispatchInv'
<1> DEFINE u == rt[i].task[s]
           next(n) == [NoTask EXCEPT !.pc = "ask", !.att = n]
<1>1. /\ At(i, s, "revise") /\ UnchangedRun
      /\ Record(i, s, next(u.att + 1), [rt[i].led EXCEPT !.retry[s] = u.att + 1],
                <<Event>>, <<Event>>)
  BY DEF Revise
<1>2. /\ rt[i].pc = "run" /\ u \in Tasks /\ Proper(s, u) /\ u.pc = "revise"
      /\ rt[i].led \in Books
  BY <1>1, AtStep
<1>3. s \in Reviewed /\ u.att \in Attempts /\ u.att < Retries
  BY <1>2 DEF Proper, Tasks
<1> HIDE DEF u
<1>4. PICK n \in Attempts : n = u.att + 1
  BY <1>3, Bounds DEF Attempts
<1>5. next(n) \in Tasks /\ Proper(s, next(n))
  <2>1. \A x \in Tasks : Proper(s, x) =>
          /\ [x EXCEPT !.pc = "ask", !.att = n] \in Tasks
          /\ x.pc = "none" => Proper(s, [x EXCEPT !.pc = "ask", !.att = n])
    BY <1>3 DEF Tasks, Proper
  <2>2. NoTask \in Tasks /\ Proper(s, NoTask) /\ NoTask.pc = "none"
    BY NoTaskProper DEF NoTask
  <2>3. QED
    BY <2>1, <2>2
<1> HIDE DEF next
<1>6. PICK l \in Books : l = [rt[i].led EXCEPT !.retry[s] = n] /\ Follows(rt[i].led, l)
  BY <1>2, <1>3, SetRetry
<1>7. <<Event>> \in Seq(BookItems)
  BY PieceTypes
<1>8. Record(i, s, next(n), l, <<Event>>, <<Event>>)
  BY <1>1, <1>4, <1>6
<1>9. QED
  BY <1>1, <1>2, <1>5, <1>6, <1>7, <1>8, RecordKept

(***************************************************************************)
(* The frontier, and the ways a coordinator begins and ends.               *)
(***************************************************************************)
LEMMA StoppedCoordinator ==
  ASSUME NEW n \in Coordinators, n.pc \in {"off", "ended"}, n.base = Blank, n.led = Blank,
         n.task = [s \in Steps |-> NoTask], n.queue \in Seq(BookItems)
  PROVE  CoordInv(n)
<1>1. \A s \in Steps : Proper(s, n.task[s])
  BY NoTaskProper
<1>2. Tied(n)
  BY DEF Tied
<1>3. Stand(n)
  BY DEF Stand, Blank, Coordinators
<1>4. QED
  BY <1>1, <1>2, <1>3, BlankBook DEF CoordInv

LEMMA OffInv == CoordInv(Off)
<1>1. /\ Blank \in Ledgers /\ <<>> \in Seq(Items)
      /\ [s \in Steps |-> NoTask] \in [Steps -> Tasks]
  BY BlankBook, NoTaskProper DEF Books
<1>2. Off \in Coordinators
  BY <1>1 DEF Off, Coordinators
<1>3. QED
  BY <1>2, PieceTypes, StoppedCoordinator DEF Off

LEMMA EndedKept ==
  ASSUME NEW q \in Seq(BookItems), NEW r, r.asked \in SUBSET ModelKeys, r.ran \in SUBSET ToolKeys
  PROVE  CoordInv(Ended(r, q))
<1> DEFINE n == Ended(r, q)
<1>1. Off \in Coordinators /\ q \in Seq(Items)
  BY OffInv, BookItemTypes DEF CoordInv
<1>2. /\ n \in Coordinators /\ n.pc = "ended" /\ n.queue = q
      /\ n.base = Off.base /\ n.led = Off.led /\ n.task = Off.task
  BY <1>1 DEF Ended, Coordinators
<1> HIDE DEF n
<1>3. /\ n.base = Blank /\ n.led = Blank /\ n.task = [s \in Steps |-> NoTask]
  BY <1>2 DEF Off
<1>4. CoordInv(n)
  BY <1>2, <1>3, StoppedCoordinator
<1>5. QED
  BY <1>4 DEF n

LEMMA GoneKept ==
  ASSUME NEW r, CoordInv(r)
  PROVE  CoordInv(Gone(r))
<1> DEFINE n == [Off EXCEPT !.pc = "ended", !.ran = r.ran]
<1>1. Off \in Coordinators /\ r.ran \in SUBSET ToolKeys
  BY OffInv DEF CoordInv, Coordinators
<1>2. /\ n \in Coordinators /\ n.pc = "ended" /\ n.queue = Off.queue
      /\ n.base = Off.base /\ n.led = Off.led /\ n.task = Off.task
  BY <1>1 DEF Coordinators
<1>3. Gone(r) \in {Off, n}
  BY DEF Gone
<1> HIDE DEF n
<1>4. /\ n.base = Blank /\ n.led = Blank /\ n.task = [s \in Steps |-> NoTask]
      /\ n.queue \in Seq(BookItems)
  BY <1>2, PieceTypes DEF Off
<1>5. CoordInv(n)
  BY <1>2, <1>4, StoppedCoordinator
<1>6. QED
  BY <1>3, <1>5, OffInv

\* A coordinator runs from a checkpoint only if no call of it is in doubt.
LEMMA OpeningInv ==
  ASSUME NEW led \in Books
  PROVE  CoordInv(Opening(led))
<1> DEFINE at == [Off EXCEPT !.base = led, !.led = led]
<1>0. led \in Ledgers
  BY DEF Books
<1>1. /\ at \in Coordinators /\ at.pc = "off" /\ at.base = led /\ at.led = led
      /\ at.queue = <<>> /\ at.task = [s \in Steps |-> NoTask]
      /\ at.asked = {} /\ at.ran = {}
  <2>1. Off \in Coordinators
    BY OffInv DEF CoordInv
  <2>2. QED
    BY <1>0, <2>1 DEF Off, Coordinators
<1>2. Opening(led) =
        IF ~Valid(plan, led) \/ ~Restorable(led) \/ led.phase \in Exhausted
        THEN Ended(at, <<Final("failed")>>)
        ELSE IF led.phase = "completed" THEN Ended(at, <<Final("completed")>>)
        ELSE [at EXCEPT !.pc = "run"]
  BY DEF Opening
<1> HIDE DEF at
<1>3. CASE \/ ~Valid(plan, led) \/ ~Restorable(led)
           \/ led.phase \in Exhausted \/ led.phase = "completed"
  <2>1. PICK q \in Seq(BookItems) : Opening(led) = Ended(at, q)
    BY <1>2, <1>3, PieceTypes
  <2>2. at.asked \in SUBSET ModelKeys /\ at.ran \in SUBSET ToolKeys
    BY <1>1
  <2>3. QED
    BY <2>1, <2>2, EndedKept
<1>4. CASE /\ Valid(plan, led) /\ Restorable(led)
           /\ led.phase \notin Exhausted /\ led.phase # "completed"
  <2> DEFINE n == [at EXCEPT !.pc = "run"]
  <2>1. /\ n \in Coordinators /\ n.pc = "run" /\ n.base = led /\ n.led = led
        /\ n.queue = <<>> /\ n.task = [s \in Steps |-> NoTask]
        /\ n.asked = {} /\ n.ran = {}
    BY <1>1 DEF Coordinators
  <2>2. Opening(led) = n
    BY <1>2, <1>4
  <2> HIDE DEF n
  <2>3. led.phase = "running"
    BY <1>0, <1>4 DEF Ledgers
  <2>4. Tied(n)
    BY <1>4, <2>1, <2>3, FollowsItself DEF Tied, Restorable
  <2>5. Stand(n)
    BY <2>1, <2>3 DEF Stand
  <2>6. \A s \in Steps : Proper(s, n.task[s])
    BY <2>1, NoTaskProper
  <2>7. QED
    BY <2>1, <2>2, <2>4, <2>5, <2>6, PieceTypes DEF CoordInv
<1>5. QED
  BY <1>3, <1>4

LEMMA EnterKept ==
  ASSUME DispatchInv, NEW i \in Instances, NEW s \in Steps, Enter(i, s)
  PROVE  DispatchInv'
<1> DEFINE t == [rt[i].task[s] EXCEPT !.pc = "ask"]
<1>1. At(i, s, "waiting") /\ Note(i, s, t) /\ UnchangedRun
  BY DEF Enter
<1>2. rt[i].pc = "run" /\ t \in Tasks /\ Proper(s, t)
  BY <1>1, AtStep DEF Tasks, Proper
<1> HIDE DEF t
<1>3. QED
  BY <1>1, <1>2, Noted

LEMMA CollectKept ==
  ASSUME DispatchInv, NEW i \in Instances, NEW s \in Steps, Collect(i, s)
  PROVE  DispatchInv'
<1> DEFINE r == rt[i]
           t == r.task[s]
           done == r.led.done \cup {s}
           phase == IF done = PlanSteps THEN "completed" ELSE "running"
           torn == r.led.torn
                     \/ Cardinality(Answered(r.led, s, t.att, "review")) # t.got
           kept == [r.led EXCEPT !.retry[s] = t.att]
           led == [kept EXCEPT !.done = done, !.phase = phase, !.torn = torn]
<1>1. At(i, s, "done") /\ UnchangedRun
  BY DEF Collect
<1>2. /\ r.pc = "run" /\ t \in Tasks /\ Proper(s, t) /\ r.led \in Books
  BY <1>1, AtStep
<1>3. kept \in Books /\ Follows(r.led, kept)
  <2>1. t.att \in Attempts /\ (t.att > 0 => s \in Reviewed)
    BY <1>2 DEF Tasks, Proper
  <2>2. QED
    BY <1>2, <2>1, SetRetry
<1>4. done \in SUBSET Steps /\ phase \in Phases /\ torn \in BOOLEAN
  BY <1>2 DEF Books, Ledgers, Phases
<1>5. Record(i, s, NoTask, led, <<>>, <<>>)
  <2>1. led = [r.led EXCEPT !.done = done, !.retry[s] = t.att, !.phase = phase, !.torn = torn]
    <3>1. r.led \in Ledgers
      BY <1>2 DEF Books
    <3> HIDE DEF r, t, done, phase, torn
    <3>2. QED
      BY <3>1 DEF Ledgers, kept
  <2>2. QED
    BY <2>1 DEF Collect
<1>6. led \in Books /\ Follows(r.led, led)
  <2> HIDE DEF kept, done, phase, torn
  <2>1. led \in Books /\ Follows(kept, led)
    BY <1>3, <1>4, SetProgress
  <2>2. QED
    BY <1>3, <2>1, FollowsFollows
<1> HIDE DEF led
<1>7. QED
  BY <1>1, <1>2, <1>5, <1>6, NoTaskProper, PieceTypes, RecordKept

LEMMA FrontierKept ==
  ASSUME DispatchInv, NEW i \in Instances, Frontier(i)
  PROVE  DispatchInv'
<1> DEFINE r == rt[i]
           task == [s \in Steps |-> IF s \in Ready(r.led)
                                    THEN [NoTask EXCEPT !.pc = "waiting", !.att = r.led.retry[s]]
                                    ELSE NoTask]
           n == [r EXCEPT !.task = task]
<1>1. CoordInv(r) /\ r \in Coordinators /\ rt \in [Instances -> Coordinators]
  BY DEF DispatchInv, CoordInv, TypeOK
<1>2. rt' = [rt EXCEPT ![i] = n] /\ UnchangedRun
  BY <1>1 DEF Frontier
<1>3. ASSUME NEW s \in Steps
      PROVE  task[s] \in Tasks /\ Proper(s, task[s])
  <2>1. r.led.retry[s] \in Attempts /\ (r.led.retry[s] > 0 => s \in Reviewed)
    BY <1>1 DEF CoordInv, Books, Ledgers
  <2>2. PICK a \in Attempts : a = r.led.retry[s] /\ (a > 0 => s \in Reviewed)
    BY <2>1
  <2>3. task[s] \in {NoTask, [NoTask EXCEPT !.pc = "waiting", !.att = a]}
    BY <2>2
  <2>4. [NoTask EXCEPT !.pc = "waiting", !.att = a] \in Tasks
        /\ Proper(s, [NoTask EXCEPT !.pc = "waiting", !.att = a])
    <3>1. \A x \in Tasks : Proper(s, x) =>
            /\ [x EXCEPT !.pc = "waiting", !.att = a] \in Tasks
            /\ x.pc = "none" => Proper(s, [x EXCEPT !.pc = "waiting", !.att = a])
      BY <2>2 DEF Tasks, Proper
    <3>2. NoTask \in Tasks /\ Proper(s, NoTask) /\ NoTask.pc = "none"
      BY NoTaskProper DEF NoTask
    <3>3. QED
      BY <3>1, <3>2
  <2>5. QED
    BY <2>3, <2>4, NoTaskProper
<1>4. task \in [Steps -> Tasks]
  BY <1>3
<1>5. CoordInv(n)
  <2> HIDE DEF task, r
  <2>1. /\ n \in Coordinators /\ n.pc = r.pc /\ n.base = r.base /\ n.led = r.led
        /\ n.queue = r.queue /\ n.task = task /\ n.asked = r.asked /\ n.ran = r.ran
    BY <1>1, <1>4 DEF Coordinators
  <2> HIDE DEF n
  <2>2. QED
    BY <1>1, <1>3, <2>1 DEF CoordInv, Tied, Stand
<1> HIDE DEF n
<1>6. QED
  BY <1>2, <1>5, CoordinatedKept

LEMMA FailFastKept ==
  ASSUME DispatchInv, NEW i \in Instances, NEW s \in Steps, FailFast(i, s)
  PROVE  DispatchInv'
<1> DEFINE r == rt[i]
           cut == {p \in Steps : r.task[p].pc = "tooling" /\ p \notin SafeTools}
           tool == [k \in ToolKeys |->
                      IF \E p \in cut : k = ToolKey(p, r.task[p]) THEN "uncertain"
                      ELSE r.led.tool[k]]
           led == [r.led EXCEPT !.tool = tool]
<1>1. /\ At(i, s, "failed") /\ UnchangedRun
      /\ rt' = [rt EXCEPT ![i] =
                  Ended(r, r.queue \o (IF cut # {} /\ Spending(r.led)
                                       THEN <<Checkpoint(led)>> ELSE <<>>)
                                   \o <<Final("failed")>>)]
  BY DEF FailFast
<1>2. r.led \in Books /\ r.led \in Ledgers /\ r.queue \in Seq(BookItems)
  BY <1>1, AtStep DEF Books
<1>3. led \in Books
  <2>1. tool \in [ToolKeys -> ToolStates]
    BY <1>2 DEF Ledgers, ToolStates
  <2> HIDE DEF tool
  <2>2. led \in Ledgers /\ led.retry = r.led.retry /\ led.model = r.led.model
    BY <1>2, <2>1 DEF Ledgers, ToolStates
  <2>3. QED
    BY <1>2, <2>2 DEF Books
<1> HIDE DEF led, cut
<1>4. PICK w \in Seq(BookItems) :
        w = IF cut # {} /\ Spending(r.led) THEN <<Checkpoint(led)>> ELSE <<>>
  BY <1>3, PieceTypes
<1>5. PICK q \in Seq(BookItems) : q = r.queue \o w \o <<Final("failed")>>
  BY <1>2, <1>4, PieceTypes, QueueTypes
<1>6. rt' = [rt EXCEPT ![i] = Ended(r, q)]
  BY <1>1, <1>4, <1>5
<1>7. CoordInv(Ended(r, q))
  BY EndedKept DEF DispatchInv, CoordInv, Coordinators
<1>8. QED
  BY <1>1, <1>6, <1>7, CoordinatedKept

LEMMA CompleteKept ==
  ASSUME DispatchInv, NEW i \in Instances, Complete(i)
  PROVE  DispatchInv'
<1>1. /\ rt' = [rt EXCEPT ![i] = Ended(rt[i], Append(rt[i].queue, Final("completed")))]
      /\ UnchangedRun
  BY DEF Complete
<1>2. CoordInv(rt[i])
  BY DEF DispatchInv
<1>3. /\ Append(rt[i].queue, Final("completed")) \in Seq(BookItems)
      /\ rt[i].asked \in SUBSET ModelKeys /\ rt[i].ran \in SUBSET ToolKeys
  BY <1>2, ItemTypes DEF CoordInv, Coordinators
<1>4. QED
  BY <1>1, <1>3, EndedKept, CoordinatedKept

(***************************************************************************)
(* The service.                                                            *)
(***************************************************************************)
LEMMA ReaderRuns ==
  ASSUME DispatchInv, reader # 0
  PROVE  reader \in Instances /\ CoordInv(rt[reader])
<1>1. reader \in 1..MaxStarts
  BY Bounds DEF DispatchInv, TypeOK
<1>2. QED
  BY <1>1 DEF DispatchInv, Instances

LEMMA ReadKept ==
  ASSUME NEW r, CoordInv(r), r.queue # <<>>
  PROVE  Head(r.queue) \in BookItems /\ CoordInv([r EXCEPT !.queue = Tail(@)])
<1> DEFINE n == [r EXCEPT !.queue = Tail(@)]
<1>1. /\ r \in Coordinators /\ r.queue \in Seq(BookItems)
      /\ Head(r.queue) \in BookItems /\ Tail(r.queue) \in Seq(BookItems)
  BY DEF CoordInv
<1>2. PICK q \in Seq(BookItems) : q = Tail(r.queue) /\ q \in Seq(Items)
  BY <1>1, BookItemTypes
<1>3. n = [r EXCEPT !.queue = q]
  BY <1>2
<1>4. /\ n \in Coordinators /\ n.pc = r.pc /\ n.base = r.base /\ n.led = r.led
      /\ n.queue = q /\ n.task = r.task /\ n.asked = r.asked /\ n.ran = r.ran
  BY <1>1, <1>2, <1>3 DEF Coordinators
<1> HIDE DEF n
<1>5. CoordInv(n)
  BY <1>4 DEF CoordInv, Tied, Stand
<1>6. QED
  BY <1>1, <1>5 DEF n

\* The coordinators of every step of the service but an opening.
LEMMA ReplacedKept ==
  ASSUME DispatchInv, NEW j \in Instances, NEW r, CoordInv(r), rt' = [rt EXCEPT ![j] = r]
  PROVE  rt' \in [Instances -> Coordinators] /\ \A i \in Instances : CoordInv(rt'[i])
<1>1. rt \in [Instances -> Coordinators] /\ r \in Coordinators
  BY DEF DispatchInv, TypeOK, CoordInv
<1>2. \A i \in Instances : rt'[i] = IF i = j THEN r ELSE rt[i]
  BY <1>1
<1>3. QED
  BY <1>1, <1>2 DEF DispatchInv

LEMMA OpenKept ==
  ASSUME DispatchInv, Open
  PROVE  DispatchInv'
<1>1. /\ starts \in 0..MaxStarts /\ starts < MaxStarts /\ MaxStarts \in Nat
      /\ starts' = starts + 1 /\ reader' = starts + 1 /\ status' = "running"
      /\ UNCHANGED <<plan, durable, ahead>>
  BY Bounds DEF DispatchInv, TypeOK, Open
<1>2. /\ rt' \in [Instances -> Coordinators]
      /\ \A i \in Instances : CoordInv(rt'[i])
  <2>1. ASSUME NEW i \in Instances
        PROVE  CoordInv(IF i = starts + 1 THEN Opening(durable)
                        ELSE IF Runs(i) THEN rt[i] ELSE Gone(rt[i]))
    BY OpeningInv, GoneKept DEF DispatchInv
  <2>2. rt' = [i \in Instances |-> IF i = starts + 1 THEN Opening(durable)
                                   ELSE IF Runs(i) THEN rt[i] ELSE Gone(rt[i])]
    BY DEF Open
  <2>3. \A i \in Instances : CoordInv(rt'[i])
    BY <2>1, <2>2
  <2>4. rt' \in [Instances -> Coordinators]
    BY <2>2, <2>3 DEF CoordInv
  <2>5. QED
    BY <2>3, <2>4
<1>3. starts' \in 0..MaxStarts /\ reader' \in 0..starts'
  BY <1>1
<1>4. QED
  BY <1>1, <1>2, <1>3 DEF DispatchInv, TypeOK

LEMMA PersistKept ==
  ASSUME DispatchInv, Persist
  PROVE  DispatchInv'
<1> DEFINE r == rt[reader]
           n == [r EXCEPT !.queue = Tail(@)]
<1>1. /\ reader # 0 /\ r.queue # <<>> /\ UNCHANGED <<plan, starts>>
      /\ durable' \in {durable, Head(r.queue).led}
      /\ ahead' \in BOOLEAN
      /\ reader' \in {0, reader}
      /\ \/ status' = status
         \/ status' = Head(r.queue).kind /\ Head(r.queue).kind \in {"failed", "completed"}
  BY DEF Persist
<1>2. reader \in Instances /\ CoordInv(r) /\ rt \in [Instances -> Coordinators]
  BY <1>1, ReaderRuns DEF DispatchInv, TypeOK
<1>3. Head(r.queue) \in BookItems /\ CoordInv(n)
  <2> HIDE DEF r
  <2>1. QED
    BY <1>1, <1>2, ReadKept
<1>4. rt' = [rt EXCEPT ![reader] = n]
  BY <1>2 DEF Persist
<1>5. durable' \in Books
  BY <1>1, <1>3 DEF BookItems, DispatchInv
<1> HIDE DEF n, r
<1>6. rt' \in [Instances -> Coordinators] /\ \A i \in Instances : CoordInv(rt'[i])
  BY <1>2, <1>3, <1>4, ReplacedKept
<1>7. TypeOK'
  <2>1. durable' \in Ledgers
    BY <1>5 DEF Books
  <2>2. reader' \in 0..starts
    BY <1>1 DEF DispatchInv, TypeOK
  <2>3. QED
    BY <1>1, <1>6, <2>1, <2>2 DEF DispatchInv, TypeOK
<1>8. QED
  BY <1>5, <1>6, <1>7 DEF DispatchInv

LEMMA ServiceKept ==
  ASSUME DispatchInv, Service
  PROVE  DispatchInv'
<1>1. CASE Open
  BY <1>1, OpenKept
<1>2. CASE Persist
  BY <1>2, PersistKept
<1>3. CASE Resume \/ (Recover /\ ~Open)
  <2>1. /\ status' \in {"queued", "failed"}
        /\ UNCHANGED <<plan, durable, ahead, starts, reader, rt>>
    BY <1>3 DEF Resume, Recover
  <2>2. QED
    BY <2>1 DEF DispatchInv, TypeOK
<1>4. CASE Pause \/ Cancel \/ Crash
  <2> DEFINE r == rt[reader]
             read == [r EXCEPT !.queue = Tail(@)]
  <2>1. /\ reader # 0 /\ reader' = 0 /\ UNCHANGED <<plan, durable, ahead, starts>>
        /\ status' \in {status, "paused", "cancelled"}
    BY <1>4 DEF Pause, Cancel, Crash
  <2>2. reader \in Instances /\ CoordInv(r) /\ rt \in [Instances -> Coordinators]
    BY <2>1, ReaderRuns DEF DispatchInv, TypeOK
  <2>3. \/ Pause /\ rt' = [rt EXCEPT ![reader] = read]
        \/ rt' = [rt EXCEPT ![reader] = Gone(r)]
    BY <1>4, <2>2 DEF Pause, Cancel, Crash
  <2>4. Pause => CoordInv(read)
    <3>1. Pause => r.queue # <<>>
      BY DEF Pause
    <3> HIDE DEF r
    <3>2. QED
      BY <2>2, <3>1, ReadKept
  <2>5. CoordInv(Gone(r))
    BY <2>2, GoneKept
  <2> HIDE DEF read, r
  <2>6. rt' \in [Instances -> Coordinators] /\ \A i \in Instances : CoordInv(rt'[i])
    BY <2>2, <2>3, <2>4, <2>5, ReplacedKept
  <2>7. reader' \in 0..starts'
    BY <2>1 DEF DispatchInv, TypeOK
  <2>8. QED
    BY <2>1, <2>6, <2>7 DEF DispatchInv, TypeOK
<1>5. QED
  BY <1>1, <1>2, <1>3, <1>4 DEF Service, Execute

(***************************************************************************)
(* The theorems.                                                           *)
(***************************************************************************)
LEMMA InitDispatch == Init => DispatchInv
<1>1. SUFFICES ASSUME Init  PROVE DispatchInv
  OBVIOUS
<1>2. Blank \in Books /\ Blank \in Ledgers /\ CoordInv(Off) /\ Off \in Coordinators
  BY BlankBook, OffInv DEF Books, CoordInv
<1>3. 0 \in 0..MaxStarts /\ 0 \in 0..0
  BY Bounds
<1>4. QED
  BY <1>1, <1>2, <1>3 DEF Init, DispatchInv, TypeOK

LEMMA NextDispatch == DispatchInv /\ [Next]_vars => DispatchInv'
<1>1. SUFFICES ASSUME DispatchInv, [Next]_vars  PROVE DispatchInv'
  OBVIOUS
<1>2. CASE UNCHANGED vars
  BY <1>1, <1>2 DEF vars, DispatchInv, TypeOK
<1>3. ASSUME NEW i \in Instances, Coordinate(i)  PROVE DispatchInv'
  <2>1. ASSUME NEW s \in Steps, ReviewStep(i, s)  PROVE DispatchInv'
    BY <1>1, <2>1, ReviewKept, ReviewFailsKept, VerdictKept, ReviseKept DEF ReviewStep
  <2>2. QED
    BY <1>1, <1>3, <2>1, FrontierKept, CompleteKept, EnterKept, CollectKept, FailFastKept,
       ModelStepKept, ToolStepKept DEF Coordinate
<1>4. QED
  BY <1>1, <1>2, <1>3, ServiceKept DEF Next

\* The rows, ledgers, tasks and queues keep their types: no task makes a call
\* beyond the rounds and retries it has keys for, and no review outlives its
\* retries.
THEOREM TypeCorrect == Spec => []TypeOK
<1>1. DispatchInv => TypeOK
  BY DEF DispatchInv
<1>2. QED
  BY <1>1, InitDispatch, NextDispatch, PTL DEF Spec

\* Of a run that was restored, whatever the plan and however often it is paused,
\* crashed and started: what its checkpoint knows the outcome of is not done
\* again, and what it knows to be uncertain is not either.
THEOREM RestoredStand == Spec => []RestoredOutcomesStand
<1>1. DispatchInv => RestoredOutcomesStand
  BY DEF DispatchInv, CoordInv, Stand, RestoredOutcomesStand
<1>2. QED
  BY <1>1, InitDispatch, NextDispatch, PTL DEF Spec
=============================================================================
