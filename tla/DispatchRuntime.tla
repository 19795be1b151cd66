--------------------------- MODULE DispatchRuntime ---------------------------
(***************************************************************************)
(* A dispatch run: the coordinator that executes a plan's steps with model *)
(* and tool calls (runtime/crew/adapter.py), the ledgers it writes ahead   *)
(* into checkpoints, and the service that reads its stream, persists what  *)
(* it reads, pauses, and starts the run again from the latest checkpoint   *)
(* it persisted (runs/service.py, runs/repository.py).                     *)
(*                                                                         *)
(* A coordinator is suspended while it waits for a model, a tool or the    *)
(* framework, and runs from one wait to the next.  A record it writes is   *)
(* only queued: it is durable once the service has read it.                *)
(*                                                                         *)
(* The contents of requests and artifacts are left out but for what the    *)
(* code compares: whether a request is a compact one, whether a review is  *)
(* of this candidate, whether a checkpoint's artifacts fit together.  The  *)
(* tool calls of one response are taken as one.                            *)
(***************************************************************************)
EXTENDS Integers, Sequences, FiniteSets

CONSTANTS
    Steps,
    Plans,         \* dispatch plans: [after, parallel, budget]
    Tools,         \* steps with tools
    SafeTools,     \* steps whose tools are replay-safe
    Reviewed,      \* steps with a reviewer
    Optional,      \* optional review steps
    Retries,       \* reviewer_retries
    Rounds,        \* _MAX_TOOL_ROUNDS
    SharedArtifacts, \* the artifact repository outlives the runtime
    QueueSize,     \* bound: events a coordinator is ahead of the service
    OrphanSize,    \* bound: events a coordinator that is not read is followed for
    MaxStarts      \* bound: times the run is started

Attempts == 0..Retries

\* The calls a step may make, by attempt, purpose and index.
ModelKeys ==
    {k \in Steps \X Attempts \X {"step", "review"} \X (0..(Rounds + Retries)) :
       /\ k[4] <= IF k[3] = "step" THEN Rounds ELSE Retries
       /\ k[3] = "review" \/ k[2] > 0 => k[1] \in Reviewed}
ToolKeys == {k \in Tools \X Attempts \X (0..Rounds) : k[2] > 0 => k[1] \in Reviewed}

Answers == {"text", "tool", "empty"}
Verdicts == {"approve", "revise", "reject", "junk"}
Succeeded == Answers \cup Verdicts
Exhausted == {"unaccounted", "budget_exhausted"}

\* A plan gives the dependencies of its steps.
\* _is_optional_review_agent_step: such a step has no tools and is no root.
ASSUME DispatchAssumption ==
    /\ \A p \in Plans : /\ DOMAIN p.after \subseteq Steps
                        /\ \A s \in DOMAIN p.after : p.after[s] \subseteq DOMAIN p.after
                        /\ \A s \in DOMAIN p.after \cap Optional : p.after[s] # {}
                        /\ p.parallel \in Nat \ {0} /\ p.budget \in Nat
    /\ SafeTools \subseteq Tools /\ Tools \subseteq Steps
    /\ Reviewed \subseteq Steps /\ Optional \subseteq Steps \ Tools
    /\ Retries \in Nat /\ Rounds \in Nat /\ QueueSize \in Nat \ {0} /\ OrphanSize \in Nat
    /\ MaxStarts \in Nat \ {0} /\ SharedArtifacts \in BOOLEAN
    /\ IsFiniteSet(Steps)

Instances == 1..MaxStarts

VARIABLES
    plan,          \* the run's plan
    status,        \* the run's row
    durable,       \* the latest checkpoint persisted; Blank is none
    ahead,         \* events were persisted after it
    starts,        \* instances so far
    reader,        \* the instance whose stream the service reads; 0 is none
    rt             \* per instance, its coordinator

vars == <<plan, status, durable, ahead, starts, reader, rt>>

(***************************************************************************)
(* Ledgers and coordinators.                                               *)
(***************************************************************************)
\* A checkpoint's state: the model and tool ledgers, the keys of compact
\* requests, the steps completed, each step's retries, the answers paid for,
\* the phase, and whether its artifacts no longer form the graph a restart asks
\* for.
Ledgers ==
    [model : [ModelKeys -> {"none", "prepared", "running"} \cup Succeeded],
     tool : [ToolKeys -> {"none", "prepared", "running", "succeeded", "uncertain"}],
     compact : SUBSET ModelKeys, done : SUBSET Steps, retry : [Steps -> Attempts],
     spent : Nat, phase : {"running", "completed"} \cup Exhausted, torn : BOOLEAN]

Blank == [model |-> [k \in ModelKeys |-> "none"], tool |-> [k \in ToolKeys |-> "none"],
          compact |-> {}, done |-> {}, retry |-> [s \in Steps |-> 0],
          spent |-> 0, phase |-> "running", torn |-> FALSE]

\* What a coordinator queues: checkpoints, terminal events, and any others.
Items == [kind : {"event", "checkpoint", "failed", "completed"}, led : Ledgers]
Event == [kind |-> "event", led |-> Blank]
Checkpoint(led) == [kind |-> "checkpoint", led |-> led]
Final(kind) == [kind |-> kind, led |-> Blank]

\* A step's task: its attempt, the index of its next call, whether it recovers
\* from a timeout, whether it has met an empty response, the tries of its review
\* and the answers they got.
Tasks ==
    [pc : {"none", "waiting", "ask", "calling", "tool", "tooling", "review",
           "reviewing", "revise", "done", "failed"},
     att : Attempts, idx : 0..(Rounds + 1), compact : BOOLEAN, empty : BOOLEAN,
     try : 0..Retries, got : 0..(Retries + 1)]

NoTask == [pc |-> "none", att |-> 0, idx |-> 0, compact |-> FALSE, empty |-> FALSE,
           try |-> 0, got |-> 0]

\* base is what it was restored from, asked and ran are the calls it made.
Coordinators ==
    [pc : {"off", "run", "ended"}, base : Ledgers, led : Ledgers, queue : Seq(Items),
     task : [Steps -> Tasks], asked : SUBSET ModelKeys, ran : SUBSET ToolKeys]

Off == [pc |-> "off", base |-> Blank, led |-> Blank, queue |-> <<>>,
        task |-> [s \in Steps |-> NoTask], asked |-> {}, ran |-> {}]

TypeOK ==
    /\ plan \in Plans
    /\ status \in {"queued", "running", "paused", "completed", "failed", "cancelled"}
    /\ durable \in Ledgers
    /\ ahead \in BOOLEAN
    /\ starts \in 0..MaxStarts
    /\ reader \in 0..starts
    /\ rt \in [Instances -> Coordinators]

Init ==
    /\ plan \in Plans
    /\ status = "queued"
    /\ durable = Blank
    /\ ahead = FALSE
    /\ starts = 0
    /\ reader = 0
    /\ rt = [i \in Instances |-> Off]

StepKey(s, t) == <<s, t.att, "step", t.idx>>
ToolKey(s, t) == <<s, t.att, t.idx>>
Answered(led, s, att, purpose) ==
    {k \in ModelKeys : k[1] = s /\ k[2] = att /\ k[3] = purpose /\ led.model[k] \in Succeeded}
ReviewKey(led, s, t) ==
    <<s, t.att, "review", Cardinality(Answered(led, s, t.att, "review"))>>

Spending(led) == led.phase \notin Exhausted
PlanSteps == DOMAIN plan.after
Ready(led) == {s \in PlanSteps \ led.done : plan.after[s] \subseteq led.done}
Safe(k) == k[1] \in SafeTools

(***************************************************************************)
(* The boundaries.                                                         *)
(***************************************************************************)
\* An event, and nothing for a ledger.
Note(i, s, t) ==
    rt' = [rt EXCEPT ![i].task[s] = t, ![i].queue = Append(@, Event)]

\* boundary, tool_boundary, model_state_boundary: a checkpoint for each change,
\* and nothing once the accounting phase is terminal.
Record(i, s, t, led, before, after) ==
    LET r == rt[i] IN
    rt' = [rt EXCEPT ![i] =
             [r EXCEPT !.task[s] = t,
                       !.led = IF Spending(r.led) THEN led ELSE @,
                       !.queue = @ \o before \o (IF Spending(r.led) THEN <<Checkpoint(led)>>
                                                 ELSE <<>>) \o after]]

\* A model is asked: the call is in the ledger before it is made.
CallModel(i, s, pc, k, prepared, running) ==
    LET r == rt[i] IN
    rt' = [rt EXCEPT ![i] =
             [r EXCEPT !.task[s].pc = pc, !.asked = @ \cup {k},
                       !.led = IF Spending(@) THEN running ELSE @,
                       !.queue = @ \o <<Event>> \o
                         (IF Spending(r.led) THEN <<Checkpoint(prepared), Checkpoint(running)>>
                          ELSE <<>>)]]

\* Fault: the budget counts as exhausted when it is reached.
AccountedEarly(led, k, answer, usage) ==
    LET spent == IF usage THEN led.spent + 1 ELSE led.spent IN
    [led EXCEPT !.model[k] = answer, !.spent = spent,
                !.phase = IF led.phase # "running" THEN led.phase
                          ELSE IF ~usage THEN "unaccounted"
                          ELSE IF spent >= plan.budget THEN "budget_exhausted"
                          ELSE "running"]

\* usage_boundary: an answer, its cost, and the phase it leads to, recorded
\* whatever the phase was.
Accounted(led, k, answer, usage) ==
    LET spent == IF usage THEN led.spent + 1 ELSE led.spent IN
    [led EXCEPT !.model[k] = answer, !.spent = spent,
                !.phase = IF led.phase # "running" THEN led.phase
                          ELSE IF ~usage THEN "unaccounted"
                          ELSE IF spent > plan.budget THEN "budget_exhausted"
                          ELSE "running"]

Commit(i, s, t, led) ==
    rt' = [rt EXCEPT ![i].task[s] = t, ![i].led = led,
                     ![i].queue = @ \o <<Event, Checkpoint(led)>>]

(***************************************************************************)
(* How a task goes on.                                                     *)
(***************************************************************************)
\* _complete_skipped_optional_review_step: a text that costs nothing answers
\* the first call that is open, or the first of all.
Fallback(led, s, t) ==
    LET open == {k \in ModelKeys : /\ k[1] = s /\ k[2] = t.att /\ k[3] = "step"
                                   /\ led.model[k] \in {"prepared", "running"}}
        key == IF open = {} THEN <<s, t.att, "step", 0>>
               ELSE CHOOSE k \in open : \A l \in open : k[4] <= l[4]
    IN [led EXCEPT !.model[key] = "text",
                   !.torn = @ \/ Answered(led, s, t.att, "step") # {}]

\* A RuntimeExecutionError in a step, with the ledger it leaves: an optional
\* step does without its model, unless the accounting has ended.
FailWith(i, s, t, led) ==
    LET r == rt[i]
        recorded == IF led = r.led THEN <<>> ELSE <<Event, Checkpoint(led)>>
        fallback == Fallback(led, s, t)
    IN IF s \in Optional
       THEN rt' = [rt EXCEPT ![i] =
                     [r EXCEPT !.task[s] = [t EXCEPT !.pc = IF Spending(led) THEN "done"
                                                            ELSE "failed"],
                               !.led = fallback,
                               !.queue = @ \o recorded \o <<Event, Checkpoint(fallback)>>]]
       ELSE rt' = [rt EXCEPT ![i] =
                     [r EXCEPT !.task[s] = [t EXCEPT !.pc = "failed"], !.led = led,
                               !.queue = @ \o recorded \o <<Event>>]]

Fail(i, s, t) == FailWith(i, s, t, rt[i].led)

\* The framework has its text: the review, or the end of the step.
After(s, t) == [t EXCEPT !.pc = IF s \in Reviewed THEN "review" ELSE "done"]

\* The next round of _complete_gateway_messages, if there is one.
NextRound(t) == [t EXCEPT !.pc = "ask", !.idx = @ + 1]

Runs(i) ==
    rt[i].pc = "run" /\ Len(rt[i].queue) < IF i = reader THEN QueueSize ELSE OrphanSize
At(i, s, pc) == Runs(i) /\ rt[i].task[s].pc = pc
UnchangedRun == UNCHANGED <<plan, status, durable, ahead, starts, reader>>

(***************************************************************************)
(* The service.                                                            *)
(***************************************************************************)
\* _validate_checkpoint: what a restart asks of a checkpoint of plan p before it
\* looks at its artifacts.
StepsFounded(p, led) ==
    \A s \in led.done : /\ p.after[s] \subseteq led.done
                        /\ \E a \in Attempts : Answered(led, s, a, "step") # {}

CallsInOrder(led) ==
    /\ \A k \in ModelKeys : led.model[k] # "none" /\ k[4] > 0
                             => led.model[<<k[1], k[2], k[3], k[4] - 1>>] # "none"
    /\ \A k \in ToolKeys : led.tool[k] # "none"
                             => led.model[<<k[1], k[2], "step", k[3]>>] \in Succeeded

PhaseTrue(p, led) ==
    /\ led.phase = "completed" => led.done = DOMAIN p.after
    /\ led.phase = "budget_exhausted" => led.spent > p.budget
    /\ Spending(led) => led.spent <= p.budget

Valid(p, led) == StepsFounded(p, led) /\ CallsInOrder(led) /\ PhaseTrue(p, led)

\* _hydrate_checkpoint: artifacts that are gone, a call whose outcome is not
\* known, or a review whose candidate is not known.
Restorable(led) ==
    /\ SharedArtifacts \/ \A k \in ModelKeys : led.model[k] \notin Succeeded
    /\ \A k \in ModelKeys :
         /\ led.model[k] # "running"
         /\ led.model[k] = "prepared" => ~(k[3] = "review" /\ k[4] = 0)
    /\ \A k \in ToolKeys : /\ led.tool[k] # "uncertain"
                           /\ led.tool[k] = "running" => Safe(k)
    /\ ~led.torn

\* What is left of a coordinator that has ended: its queue, and the calls it
\* made.
Ended(r, queue) == [Off EXCEPT !.pc = "ended", !.queue = queue, !.asked = r.asked,
                               !.ran = r.ran]
Gone(r) == IF r = Off THEN Off ELSE [Off EXCEPT !.pc = "ended", !.ran = r.ran]

\* Fault: a checkpoint that ended the run is gone on with.
OpeningAgain(led) == [Off EXCEPT !.base = led, !.led = led, !.pc = "run"]

\* Fault: the run starts over.
OpeningAnew(led) == [Off EXCEPT !.pc = "run"]

\* A checkpoint that is refused fails the run, and one that ended it ends it
\* again.
Opening(led) ==
    LET at == [Off EXCEPT !.base = led, !.led = led] IN
    IF ~Valid(plan, led) \/ ~Restorable(led) \/ led.phase \in Exhausted
    THEN Ended(at, <<Final("failed")>>)
    ELSE IF led.phase = "completed"
    THEN Ended(at, <<Final("completed")>>)
    ELSE [at EXCEPT !.pc = "run"]

\* (Bound: a coordinator that no one reads is not followed beyond OrphanSize
\* events.)
Open ==
    /\ starts < MaxStarts
    /\ starts' = starts + 1
    /\ reader' = starts + 1
    /\ rt' = [i \in Instances |-> IF i = starts + 1 THEN Opening(durable)
                                 ELSE IF Runs(i) THEN rt[i] ELSE Gone(rt[i])]
    /\ status' = "running"
    /\ UNCHANGED <<plan, durable, ahead>>

Execute == status = "queued" /\ Open

\* A recovery is refused if events were persisted after the checkpoint, or
\* with sequence numbers that an earlier instance had used up.
Recover ==
    /\ status = "running"
    /\ reader = 0
    /\ \/ ~ahead /\ Open
       \/ status' = "failed" /\ UNCHANGED <<plan, durable, ahead, starts, reader, rt>>

\* Fault: latest_checkpoint finds the earliest.
PersistFirst ==
    /\ reader # 0
    /\ rt[reader].queue # <<>>
    /\ LET item == Head(rt[reader].queue)
           last == item.kind \in {"failed", "completed"} IN
       /\ rt' = [rt EXCEPT ![reader].queue = Tail(@)]
       /\ durable' = IF item.kind = "checkpoint" /\ durable = Blank THEN item.led
                     ELSE durable
       /\ ahead' = (item.kind # "checkpoint")
       /\ status' = IF last THEN item.kind ELSE status
       /\ reader' = IF last THEN 0 ELSE reader
    /\ UNCHANGED <<plan, starts>>

\* One event of the stream is persisted.
Persist ==
    /\ reader # 0
    /\ rt[reader].queue # <<>>
    /\ LET item == Head(rt[reader].queue)
           last == item.kind \in {"failed", "completed"} IN
       /\ rt' = [rt EXCEPT ![reader].queue = Tail(@)]
       /\ durable' = IF item.kind = "checkpoint" THEN item.led ELSE durable
       /\ ahead' = (item.kind # "checkpoint")
       /\ status' = IF last THEN item.kind ELSE status
       /\ reader' = IF last THEN 0 ELSE reader
    /\ UNCHANGED <<plan, starts>>

\* The run was paused: the service drops the event it reads and leaves the
\* stream, whose coordinator no one cancels.  (Bound: only a run that may be
\* started again is paused.)
Pause ==
    /\ starts < MaxStarts
    /\ reader # 0
    /\ rt[reader].queue # <<>>
    /\ status' = "paused"
    /\ reader' = 0
    /\ rt' = [rt EXCEPT ![reader].queue = Tail(@)]
    /\ UNCHANGED <<plan, durable, ahead, starts>>

Resume ==
    /\ status = "paused"
    /\ status' = "queued"
    /\ UNCHANGED <<plan, durable, ahead, starts, reader, rt>>

\* The run was cancelled: the service cancels the runtime, too.
Cancel ==
    /\ reader # 0
    /\ rt[reader].queue # <<>>
    /\ status' = "cancelled"
    /\ reader' = 0
    /\ rt' = [rt EXCEPT ![reader] = Gone(@)]
    /\ UNCHANGED <<plan, durable, ahead, starts>>

\* The process that executes the run dies; what was queued is lost.
Crash ==
    /\ reader # 0
    /\ reader' = 0
    /\ rt' = [rt EXCEPT ![reader] = Gone(@)]
    /\ UNCHANGED <<plan, status, durable, ahead, starts>>

(***************************************************************************)
(* The frontier loop of _coordinate.                                       *)
(***************************************************************************)
\* The steps that are ready get a task each; no other task is left.
Frontier(i) ==
    LET r == rt[i] IN
    /\ Runs(i)
    /\ \A s \in Steps : r.task[s].pc = "none"
    /\ r.led.done # PlanSteps
    /\ rt' = [rt EXCEPT ![i].task = [s \in Steps |->
                IF s \in Ready(r.led)
                THEN [NoTask EXCEPT !.pc = "waiting", !.att = r.led.retry[s]]
                ELSE NoTask]]
    /\ UnchangedRun

Working(i) == {s \in Steps : rt[i].task[s].pc \notin {"none", "waiting", "done", "failed"}}

\* The semaphore lets a step start.
Enter(i, s) ==
    /\ At(i, s, "waiting")
    /\ Cardinality(Working(i)) < plan.parallel
    /\ Note(i, s, [rt[i].task[s] EXCEPT !.pc = "ask"])
    /\ UnchangedRun

\* A result is completed, unless the accounting phase is terminal: then the
\* loop goes on without it.
Collect(i, s) ==
    LET r == rt[i]
        t == r.task[s]
        reviews == Cardinality(Answered(r.led, s, t.att, "review"))
        done == r.led.done \cup {s}
        led == [r.led EXCEPT !.done = done, !.retry[s] = t.att,
                             !.phase = IF done = PlanSteps THEN "completed" ELSE "running",
                             !.torn = @ \/ reviews # t.got]
    IN
    /\ At(i, s, "done")
    /\ Record(i, s, NoTask, led, <<>>, <<>>)
    /\ UnchangedRun

\* A failure cancels the other tasks; a tool that may not be run again and was
\* still running is marked uncertain.
FailFast(i, s) ==
    LET r == rt[i]
        cut == {p \in Steps : r.task[p].pc = "tooling" /\ p \notin SafeTools}
        led == [r.led EXCEPT !.tool = [k \in ToolKeys |->
                  IF \E p \in cut : k = ToolKey(p, r.task[p]) THEN "uncertain" ELSE @[k]]]
    IN
    /\ At(i, s, "failed")
    /\ rt' = [rt EXCEPT ![i] =
                Ended(r, r.queue \o (IF cut # {} /\ Spending(r.led)
                                     THEN <<Checkpoint(led)>> ELSE <<>>)
                                 \o <<Final("failed")>>)]
    /\ UnchangedRun

Complete(i) ==
    /\ Runs(i)
    /\ rt[i].led.done = PlanSteps
    /\ rt' = [rt EXCEPT ![i] = Ended(@, Append(@.queue, Final("completed")))]
    /\ UnchangedRun

(***************************************************************************)
(* _complete_gateway_messages: a step's model and tool calls.              *)
(***************************************************************************)
\* A call that is not in the ledger, or only prepared, is made.
Ask(i, s) ==
    LET r == rt[i]
        t == r.task[s]
        k == StepKey(s, t)
        prepared == [r.led EXCEPT !.model[k] = "prepared",
                                  !.compact = IF t.compact THEN @ \cup {k} ELSE @]
        running == [prepared EXCEPT !.model[k] = "running"]
    IN
    /\ At(i, s, "ask")
    /\ \/ r.led.model[k] = "none"
       \/ r.led.model[k] = "prepared" /\ (k \in r.led.compact <=> t.compact)
    /\ CallModel(i, s, "calling", k, prepared, running)
    /\ UnchangedRun

\* The answer is in the ledger, to the same request: an empty one is not asked
\* for again, and the framework may raise after any text.
Reuse(i, s) ==
    LET t == rt[i].task[s]
        k == StepKey(s, t)
        answer == rt[i].led.model[k] IN
    /\ At(i, s, "ask")
    /\ k \in rt[i].led.compact <=> t.compact
    /\ \/ answer = "text" /\ Note(i, s, After(s, t))
       \/ answer \in {"text", "empty"} /\ Fail(i, s, t)
       \/ /\ answer = "tool" /\ t.idx < Rounds
          /\ Note(i, s, [t EXCEPT !.pc = "tool"])
       \/ answer = "tool" /\ t.idx = Rounds /\ Fail(i, s, t)
    /\ UnchangedRun

\* The request differs from the recorded one, or its outcome is uncertain.
Mismatch(i, s) ==
    LET t == rt[i].task[s]
        k == StepKey(s, t) IN
    /\ At(i, s, "ask")
    /\ rt[i].led.model[k] # "none"
    /\ (k \in rt[i].led.compact) # t.compact \/ rt[i].led.model[k] = "running"
    /\ Fail(i, s, t)
    /\ UnchangedRun

\* An empty response is asked for again once; the framework may raise after a
\* text.
Answer(i, s) ==
    LET t == rt[i].task[s] IN
    /\ At(i, s, "calling")
    /\ \E answer \in Answers, usage \in BOOLEAN, raises \in BOOLEAN :
         LET led == Accounted(rt[i].led, StepKey(s, t), answer, usage) IN
         /\ answer = "tool" => s \in Tools
         /\ answer = "empty" => ~t.empty
         /\ raises => answer = "text"
         /\ IF raises \/ ~Spending(led) \/ (answer # "text" /\ t.idx = Rounds)
            THEN FailWith(i, s, t, led)
            ELSE Commit(i, s, CASE answer = "text" -> After(s, t)
                                [] answer = "tool" -> [t EXCEPT !.pc = "tool"]
                                [] answer = "empty" -> [NextRound(t) EXCEPT !.empty = TRUE],
                        led)
    /\ UnchangedRun

\* The gateway or the framework fails, an empty response comes twice, the
\* model asks for what it may not have: the call stays open in the ledger.
ModelFails(i, s) ==
    /\ At(i, s, "calling") \/ At(i, s, "ask")
    /\ Fail(i, s, rt[i].task[s])
    /\ UnchangedRun

StartTool(i, s) ==
    LET r == rt[i]
        t == r.task[s]
        k == ToolKey(s, t)
        prepared == [r.led EXCEPT !.tool[k] = "prepared"]
        running == [prepared EXCEPT !.tool[k] = "running"]
    IN
    /\ At(i, s, "tool")
    /\ r.led.tool[k] \in {"none", "prepared"} \/ (r.led.tool[k] = "running" /\ Safe(k))
    /\ rt' = [rt EXCEPT ![i] =
         [r EXCEPT !.task[s].pc = "tooling", !.ran = @ \cup {k},
                   !.led = IF Spending(@) THEN running ELSE @,
                   !.queue = @ \o (IF Spending(r.led)
                                   THEN <<Checkpoint(prepared), Event, Checkpoint(running)>>
                                   ELSE <<Event>>)]]
    /\ UnchangedRun

\* The outcome is in the ledger: the result is used again, and a call of which
\* it is not certain that it succeeded fails the step.  (The second is only a
\* second line of defence: a restart and the model ledger refuse such a call
\* before it is reached.)
ReuseTool(i, s) ==
    LET r == rt[i]
        t == r.task[s]
        state == r.led.tool[ToolKey(s, t)] IN
    /\ At(i, s, "tool")
    /\ state = "uncertain" \/ state = "succeeded" \/ (state = "running" /\ s \notin SafeTools)
    /\ IF state = "succeeded" THEN Note(i, s, NextRound(t))
       ELSE Fail(i, s, t)
    /\ UnchangedRun

ToolReturns(i, s) ==
    LET t == rt[i].task[s]
        led == [rt[i].led EXCEPT !.tool[ToolKey(s, t)] = "succeeded"] IN
    /\ At(i, s, "tooling")
    /\ Record(i, s, NextRound(t), led, <<Event>>, <<>>)
    /\ UnchangedRun

\* (An optional step has no tools.)
ToolFails(i, s) ==
    LET led == [rt[i].led EXCEPT !.tool[ToolKey(s, rt[i].task[s])] = "uncertain"] IN
    /\ At(i, s, "tooling")
    /\ Record(i, s, [rt[i].task[s] EXCEPT !.pc = "failed"], led, <<Event>>, <<Event>>)
    /\ UnchangedRun

\* The step's time is up: once, if time is left, it starts over with compact
\* requests.  A tool that is cut short and may not be run again is uncertain.
\* (A model's last timeout is one of its failures.)
Timeout(i, s) ==
    LET t == rt[i].task[s]
        again == [t EXCEPT !.pc = "ask", !.idx = 0, !.compact = TRUE, !.empty = FALSE]
        led == [rt[i].led EXCEPT !.tool[ToolKey(s, t)] = "uncertain"] IN
    /\ At(i, s, "ask") \/ At(i, s, "calling") \/ At(i, s, "tooling")
    /\ \E next \in {again, [t EXCEPT !.pc = "failed"]} :
         /\ next = again => ~t.compact
         /\ next # again => t.pc = "tooling"
         /\ IF t.pc = "tooling" /\ s \notin SafeTools
            THEN Record(i, s, next, led, <<>>, <<Event>>)
            ELSE Note(i, s, next)
    /\ UnchangedRun

(***************************************************************************)
(* _review, and what _execute_step makes of it.                            *)
(***************************************************************************)
\* The reviewer is asked, unless an answer is about another candidate or the
\* next call is in the ledger already.
Review(i, s) ==
    LET r == rt[i]
        t == r.task[s]
        k == ReviewKey(r.led, s, t)
        prepared == [r.led EXCEPT !.model[k] = "prepared"]
        running == [r.led EXCEPT !.model[k] = "running"]
    IN
    /\ At(i, s, "review")
    /\ k[4] = t.got
    /\ r.led.model[k] = "none"
    /\ CallModel(i, s, "reviewing", k, prepared, running)
    /\ UnchangedRun

\* Fault: the retries are not counted.
RetriedForever(t) == [t EXCEPT !.pc = "review", !.try = @ + 1]

\* A review that fails is tried again, and skipped in the end: the step is
\* then as good as approved.
Retried(t) ==
    IF t.try < Retries THEN [t EXCEPT !.pc = "review", !.try = @ + 1]
                       ELSE [t EXCEPT !.pc = "done"]

ReviewFails(i, s) ==
    LET t == rt[i].task[s] IN
    /\ At(i, s, "review") \/ At(i, s, "reviewing")
    /\ IF t.try < Retries THEN Note(i, s, Retried(t))
       ELSE Record(i, s, Retried(t), rt[i].led, <<Event>>, <<>>)
    /\ UnchangedRun

\* An answer that is no verdict, or ends the accounting, is a failed review.
\* (The boundary after a verdict repeats the checkpoint of its usage.)
Verdict(i, s) ==
    LET t == [rt[i].task[s] EXCEPT !.got = @ + 1] IN
    /\ At(i, s, "reviewing")
    /\ \E verdict \in Verdicts, usage \in BOOLEAN :
         LET k == ReviewKey(rt[i].led, s, rt[i].task[s])
             led == Accounted(rt[i].led, k, verdict, usage) IN
         CASE verdict = "junk" \/ ~Spending(led) -> Commit(i, s, Retried(t), led)
           [] verdict = "approve" -> Commit(i, s, [t EXCEPT !.pc = "done"], led)
           [] verdict = "revise" /\ t.att < Retries ->
                Commit(i, s, [t EXCEPT !.pc = "revise"], led)
           [] OTHER -> FailWith(i, s, t, led)
    /\ UnchangedRun

\* The step starts over with the feedback; its retry is a checkpoint of its own,
\* after that of the verdict.
Revise(i, s) ==
    LET n == rt[i].task[s].att + 1 IN
    /\ At(i, s, "revise")
    /\ Record(i, s, [NoTask EXCEPT !.pc = "ask", !.att = n],
              [rt[i].led EXCEPT !.retry[s] = n], <<Event>>, <<Event>>)
    /\ UnchangedRun

(***************************************************************************)
(* The next-state relation.                                                *)
(***************************************************************************)
Service == Execute \/ Recover \/ Persist \/ Pause \/ Resume \/ Cancel \/ Crash

ModelStep(i, s) ==
    \/ Ask(i, s) \/ Reuse(i, s) \/ Mismatch(i, s) \/ Answer(i, s) \/ ModelFails(i, s)
    \/ Timeout(i, s)

ToolStep(i, s) ==
    StartTool(i, s) \/ ReuseTool(i, s) \/ ToolReturns(i, s) \/ ToolFails(i, s)

ReviewStep(i, s) == Review(i, s) \/ ReviewFails(i, s) \/ Verdict(i, s) \/ Revise(i, s)

Coordinate(i) ==
    \/ Frontier(i) \/ Complete(i)
    \/ \E s \in Steps : \/ Enter(i, s) \/ Collect(i, s) \/ FailFast(i, s)
                        \/ ModelStep(i, s) \/ ToolStep(i, s) \/ ReviewStep(i, s)

Next == Service \/ \E i \in Instances : Coordinate(i)

Spec == Init /\ [][Next]_vars

(***************************************************************************)
(* Properties.                                                             *)
(***************************************************************************)
\* No checkpoint contradicts itself: a step is recorded as completed with its
\* dependencies and an answer, a call after the calls that led to it, a phase
\* with what it stands for, whatever order parallel tasks, timeouts, reviews and
\* exhausted budgets write in.  So _validate_checkpoint is never what refuses a
\* restart; what still may is a call in doubt or a lost artifact (Restorable).
CheckpointsValid ==
    /\ Valid(plan, durable)
    /\ \A i \in Instances : \A n \in 1..Len(rt[i].queue) :
         rt[i].queue[n].kind = "checkpoint" => Valid(plan, rt[i].queue[n].led)

\* A run that was restored asks no model and runs no tool whose outcome its
\* checkpoint knows, or knows to be uncertain, and none at all if the checkpoint
\* ended the run.
RestoredOutcomesStand ==
    \A i \in Instances :
        /\ \A k \in rt[i].asked : rt[i].base.model[k] \in {"none", "prepared"}
        /\ \A k \in rt[i].ran : \/ rt[i].base.tool[k] \in {"none", "prepared"}
                                \/ rt[i].base.tool[k] = "running" /\ Safe(k)
        /\ rt[i].base.phase # "running" => rt[i].asked = {} /\ rt[i].ran = {}

\* Once the service has read all that a coordinator wrote, the checkpoint knows
\* every call it made, unless the accounting had ended.
EffectsRecorded ==
    \A i \in Instances :
        /\ i = reader \/ (i = starts /\ status = "completed")
        /\ rt[i].queue = <<>>
        /\ Spending(durable)
        => /\ \A k \in rt[i].asked : durable.model[k] # "none"
           /\ \A k \in rt[i].ran : durable.tool[k] # "none"

\* No pause, crash, restart or retry takes back what a checkpoint recorded.
Progressed(old, new) ==
    /\ old.done \subseteq new.done
    /\ old.spent <= new.spent
    /\ old.phase # "running" => new.phase = old.phase
    /\ \A s \in Steps : old.retry[s] <= new.retry[s]
    /\ \A k \in ModelKeys :
         /\ old.model[k] \in Succeeded => new.model[k] \in Succeeded
         /\ old.model[k] = "running" => new.model[k] \in {"running"} \cup Succeeded
         /\ old.model[k] = "prepared" => new.model[k] # "none"
    /\ \A k \in ToolKeys :
         /\ old.tool[k] \in {"succeeded", "uncertain"} => new.tool[k] = old.tool[k]
         /\ old.tool[k] = "running" => \/ new.tool[k] \in {"running", "succeeded", "uncertain"}
                                       \/ new.tool[k] = "prepared" /\ Safe(k)
         /\ old.tool[k] = "prepared" => new.tool[k] # "none"

DurableProgressKept == [][Progressed(durable, durable')]_durable

\* The design document, on recovery after a crash: an external write of which
\* it is not certain that it succeeded must not be repeated automatically.
UncertainWritesNotReplayed ==
    \A i, j \in Instances : i # j => \A k \in rt[i].ran \cap rt[j].ran : Safe(k)
=============================================================================
