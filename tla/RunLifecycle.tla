---------------------------- MODULE RunLifecycle ----------------------------
(***************************************************************************)
(* The durable life of a run: the run rows, the transactional outbox and   *)
(* the event log that PostgreSQL keeps (runs/repository.py), the user's    *)
(* commands on them, and the worker processes that publish the outbox into *)
(* an in-memory queue and execute what they take from it                   *)
(* (runtime/worker.py, RunService.execute in runs/service.py).             *)
(*                                                                         *)
(* Every action that touches the database is one transaction of the code:  *)
(* each starts with SELECT ... FOR UPDATE on the run row, so transactions  *)
(* on one run are serial and everything between two of them interleaves.   *)
(*                                                                         *)
(* The agent runtime that produces the events is not modelled here: a      *)
(* stream yields any events the contract allows, raises, or ends.          *)
(***************************************************************************)
EXTENDS Naturals, Sequences

CONSTANTS
    Runs,          \* the runs that may be submitted
    Workers,       \* processes running run_worker_loop
    Operators,     \* callers of RunService.recover (no process of the deployment)
    SilentEnds,    \* may a runtime end its stream without a terminal event?
    MaxVersion,    \* bound: users leave a run alone once its version is this
    MaxSeq,        \* bound: a stream's events are numbered up to this
    MaxFaults      \* bound: crashes and lost calls in one behaviour

ASSUME ProcessAssumption == Workers \cap Operators = {}

ASSUME RunAssumption == "none" \notin Runs

ASSUME BoundAssumption ==
    /\ SilentEnds \in BOOLEAN
    /\ MaxVersion \in Nat
    /\ MaxSeq \in Nat
    /\ MaxFaults \in Nat

VARIABLES
    row,           \* agent_hub_runs: status, version and the pending decision
    outbox,        \* undelivered rows of agent_hub_run_outbox
    log,           \* per run, max(sequence) of agent_hub_run_events, or 0
    checkpoint,    \* per run, max(sequence) of agent_hub_run_checkpoints, or 0
    queue,         \* per worker, its LocalRunQueue
    phase,         \* per worker, where run_worker_loop stands
    exec,          \* per process, the execute() call it is in
    reported,      \* per run, the outcomes told to Hermes and the hooks, in order
    untold,        \* history: runs whose outcome a fault kept from being told
    resumed,       \* history: runs queued again after they were first queued
    overlapped,    \* history: runs queued again while an executor was on them
    orphaned,      \* history: runs whose owner in memory was lost
    faults         \* crashes and lost calls so far

dbVars == <<row, outbox, log, checkpoint>>
memVars == <<queue, phase, exec>>
historyVars == <<reported, untold, resumed, overlapped, orphaned, faults>>
vars == <<row, outbox, log, checkpoint, queue, phase, exec,
          reported, untold, resumed, overlapped, orphaned, faults>>

Processes == Workers \cup Operators

(***************************************************************************)
(* Types.  Only the statuses some statement of the code writes appear      *)
(* here: PLANNING, RETRYING and SYNTHESIZING are declared and never        *)
(* written.  "none" is a run not submitted yet, "deleted" one removed.     *)
(***************************************************************************)
Terminal == {"completed", "failed", "cancelled"}
Waiting == {"waiting_user_mode", "waiting_approval"}
Status == {"none", "queued", "running", "paused", "deleted"}
            \cup Waiting \cup Terminal

\* routing_decision["approval_kind"]: a temporary agent, or a proposal
\* (evolution, schedule, OpenClaw) that this service never queues.
Kinds == {"none", "temporary", "proposal"}

\* routing_decision["approval_id"]: a capability approval the run waits for.
Approvals == {"none", "pending"}

Rows == [status : Status, version : Nat, kind : Kinds, approval : Approvals]

OutboxRows == [run : Runs, key : Nat]

Active == {"stream", "ended", "failing"}      \* between claim and outcome
Pcs == {"claim", "closing", "report"} \cup Active

Idle == [pc |-> "idle", run |-> "none", seq |-> 0, outcome |-> "none"]

\* A process is in at most one execute() call.
Calls == {Idle} \cup [pc : Pcs, run : Runs, seq : Nat,
                      outcome : Terminal \cup {"none", "paused"}]

TypeOK ==
    /\ row \in [Runs -> Rows]
    /\ outbox \subseteq OutboxRows
    /\ log \in [Runs -> Nat]
    /\ checkpoint \in [Runs -> Nat]
    /\ queue \in [Workers -> Seq(Runs)]
    /\ phase \in [Workers -> {"publish", "drain"}]
    /\ exec \in [Processes -> Calls]
    /\ reported \in [Runs -> Seq(Terminal)]
    /\ untold \subseteq Runs
    /\ resumed \subseteq Runs
    /\ overlapped \subseteq Runs
    /\ orphaned \subseteq Runs
    /\ faults \in 0..MaxFaults

Init ==
    /\ row = [r \in Runs |-> [status |-> "none", version |-> 0,
                              kind |-> "none", approval |-> "none"]]
    /\ outbox = {}
    /\ log = [r \in Runs |-> 0]
    /\ checkpoint = [r \in Runs |-> 0]
    /\ queue = [w \in Workers |-> <<>>]
    /\ phase = [w \in Workers |-> "publish"]
    /\ exec = [p \in Processes |-> Idle]
    /\ reported = [r \in Runs |-> <<>>]
    /\ untold = {}
    /\ resumed = {}
    /\ overlapped = {}
    /\ orphaned = {}
    /\ faults = 0

(***************************************************************************)
(* Helpers.                                                                *)
(***************************************************************************)
Exists(r) == row[r].status \notin {"none", "deleted"}

AwaitsApproval(r) ==
    row[r].status = "waiting_approval" /\ row[r].approval = "pending"

On(p, r, pcs) == exec[p].run = r /\ exec[p].pc \in pcs

Executing(r) == \E p \in Processes : On(p, r, Active)

Held(w) == {queue[w][i] : i \in DOMAIN queue[w]}

\* row.status = s and row.version += 1.
Write(r, s) ==
    row' = [row EXCEPT ![r].status = s, ![r].version = @ + 1]

\* INSERT ... ON CONFLICT DO NOTHING of an event: a number already taken is
\* dropped, and nobody is told.
Insert(r, n) == log' = [log EXCEPT ![r] = IF n > @ THEN n ELSE @]

(***************************************************************************)
(* User commands, each one transaction of RunRepository.                   *)
(***************************************************************************)
UserMay(r) == row[r].version < MaxVersion

\* Fault: the outbox row is forgotten.
RequeueWithoutOutbox(r) ==
    /\ Write(r, "queued")
    /\ UNCHANGED <<outbox, log, checkpoint, memVars, historyVars>>

\* The row goes to QUEUED and its outbox row is written in one transaction.
Requeue(r) ==
    /\ Write(r, "queued")
    /\ outbox' = outbox \cup {[run |-> r, key |-> row[r].version]}
    /\ resumed' = IF row[r].status = "paused" \/ AwaitsApproval(r)
                    THEN resumed \cup {r} ELSE resumed
    /\ overlapped' = IF Executing(r) THEN overlapped \cup {r} ELSE overlapped
    /\ orphaned' = orphaned \ {r}
    /\ UNCHANGED <<log, checkpoint, memVars, reported, untold, faults>>

SubmitAs(r, status, kind) ==
    /\ row[r].status = "none"
    /\ row' = [row EXCEPT ![r] = [status |-> status, version |-> 1,
                                  kind |-> kind, approval |-> "none"]]
    /\ UNCHANGED <<log, checkpoint, memVars, historyVars>>

\* create_run(enqueue=True): row and outbox row are inserted together.
SubmitQueued(r) ==
    /\ SubmitAs(r, "queued", "none")
    /\ outbox' = outbox \cup {[run |-> r, key |-> 0]}

\* create_run(enqueue=False): the run waits for the user to decide.
SubmitWaiting(r) ==
    /\ \/ SubmitAs(r, "waiting_user_mode", "none")
       \/ SubmitAs(r, "waiting_approval", "temporary")
       \/ SubmitAs(r, "waiting_approval", "proposal")
    /\ UNCHANGED outbox

\* Fault: the status that domain/runs.py lists after QUEUED, nobody claims it.
ChooseModeForPlanning(r) ==
    /\ UserMay(r)
    /\ row[r].status = "waiting_user_mode"
    /\ Write(r, "planning")
    /\ UNCHANGED <<outbox, log, checkpoint, memVars, historyVars>>

\* A stale version or token is refused and changes nothing.
ChooseMode(r) ==
    /\ UserMay(r)
    /\ row[r].status = "waiting_user_mode"
    /\ Requeue(r)

\* approve_... and revise_temporary_agent_and_enqueue: neither clears
\* approval_kind, and neither asks whether a capability approval is pending.
DecideTemporaryAgent(r) ==
    /\ UserMay(r)
    /\ row[r].status = "waiting_approval"
    /\ row[r].kind = "temporary"
    /\ Requeue(r)

Resume(r) ==
    /\ UserMay(r)
    /\ row[r].status = "paused"
    /\ Requeue(r)

Pause(r) ==
    /\ UserMay(r)
    /\ row[r].status \in {"queued", "running"}
    /\ Write(r, "paused")
    /\ UNCHANGED <<outbox, log, checkpoint, memVars, historyVars>>

Cancel(r) ==
    /\ UserMay(r)
    /\ Exists(r)
    /\ row[r].status \notin Terminal
    /\ Write(r, "cancelled")
    /\ UNCHANGED <<outbox, log, checkpoint, memVars, historyVars>>

\* The run row and every row that refers to it.
DeleteRun(r) ==
    /\ row[r].status \in Terminal
    /\ row' = [row EXCEPT ![r].status = "deleted"]
    /\ outbox' = {o \in outbox : o.run # r}
    /\ log' = [log EXCEPT ![r] = 0]
    /\ checkpoint' = [checkpoint EXCEPT ![r] = 0]
    /\ UNCHANGED <<memVars, historyVars>>

\* CapabilityGateway.invoke, called by a runtime while its stream is open.
BeginCapabilityApproval(r) ==
    /\ UserMay(r)
    /\ \E p \in Processes : On(p, r, {"stream"})
    /\ row[r].status = "running"
    /\ row' = [row EXCEPT ![r].status = "waiting_approval",
                          ![r].version = @ + 1, ![r].approval = "pending"]
    /\ UNCHANGED <<outbox, log, checkpoint, memVars, historyVars>>

\* Approved the run goes on, rejected or expired it is cancelled.
ResolveCapabilityApproval(r) ==
    /\ AwaitsApproval(r)
    /\ \E s \in {"running", "cancelled"} :
         row' = [row EXCEPT ![r].status = s, ![r].version = @ + 1,
                            ![r].approval = "none"]
    /\ UNCHANGED <<outbox, log, checkpoint, memVars, historyVars>>

UserStep(r) ==
    \/ SubmitQueued(r) \/ SubmitWaiting(r)
    \/ ChooseMode(r) \/ DecideTemporaryAgent(r)
    \/ Pause(r) \/ Resume(r) \/ Cancel(r) \/ DeleteRun(r)
    \/ BeginCapabilityApproval(r) \/ ResolveCapabilityApproval(r)

(***************************************************************************)
(* The worker loop: publish the outbox, then execute what is queued.       *)
(***************************************************************************)
\* LocalRunQueue.enqueue_run: a run still in _queued is not queued twice.
EnqueueRun(w, r) ==
    queue' = IF r \in Held(w) \/ exec[w].run = r
               THEN queue
               ELSE [queue EXCEPT ![w] = Append(@, r)]

\* Fault: the outbox is published while a run is being executed.
DeliverWhileDraining(w) ==
    /\ \E o \in outbox :
         /\ EnqueueRun(w, o.run)
         /\ outbox' = outbox \ {o}
    /\ UNCHANGED <<row, log, checkpoint, phase, exec, historyVars>>

\* deliver_outbox: enqueue_run and delivered = true in one transaction.
Deliver(w) ==
    /\ phase[w] = "publish"
    /\ \E o \in outbox :
         /\ EnqueueRun(w, o.run)
         /\ outbox' = outbox \ {o}
    /\ UNCHANGED <<row, log, checkpoint, phase, exec, historyVars>>

\* The same, but the commit fails: the run is queued, its row still pending,
\* and the exception ends this publish_pending.
DeliverUncommitted(w) ==
    /\ phase[w] = "publish"
    /\ \E o \in outbox : EnqueueRun(w, o.run)
    /\ phase' = [phase EXCEPT ![w] = "drain"]
    /\ UNCHANGED <<dbVars, exec, historyVars>>

StartDrain(w) ==
    /\ phase[w] = "publish"
    /\ queue[w] # <<>>
    /\ phase' = [phase EXCEPT ![w] = "drain"]
    /\ UNCHANGED <<dbVars, queue, exec, historyVars>>

TakeNext(w) ==
    /\ phase[w] = "drain"
    /\ exec[w] = Idle
    /\ queue[w] # <<>>
    /\ exec' = [exec EXCEPT ![w] = [pc |-> "claim", run |-> Head(queue[w]),
                                      seq |-> 0, outcome |-> "none"]]
    /\ queue' = [queue EXCEPT ![w] = Tail(@)]
    /\ UNCHANGED <<dbVars, phase, historyVars>>

DrainDone(w) ==
    /\ phase[w] = "drain"
    /\ exec[w] = Idle
    /\ queue[w] = <<>>
    /\ phase' = [phase EXCEPT ![w] = "publish"]
    /\ UNCHANGED <<dbVars, queue, exec, historyVars>>

(***************************************************************************)
(* RunService.execute, one action per transaction or per way out of it.    *)
(***************************************************************************)
Return(p) == exec' = [exec EXCEPT ![p] = Idle]

\* The runtime restarts from the latest checkpoint's next_sequence: the
\* number after the checkpoint, or one more after a terminal checkpoint.
StartStream(p, r) ==
    \E n \in {checkpoint[r] + 1, checkpoint[r] + 2} :
      /\ checkpoint[r] = 0 => n = 1
      /\ exec' = [exec EXCEPT ![p] = [pc |-> "stream", run |-> r, seq |-> n,
                                      outcome |-> "none"]]

\* Fault: no RunAlreadyActive.
ClaimableWhileRunning(r) == row[r].status \in {"queued", "running"}

\* claim_for_execution lets exactly these runs start.
Claimable(r) == row[r].status = "queued"

ClaimForExecution(w) ==
    /\ exec[w].pc = "claim"
    /\ Claimable(exec[w].run)
    /\ Write(exec[w].run, "running")
    /\ StartStream(w, exec[w].run)
    /\ UNCHANGED <<outbox, log, checkpoint, queue, phase, historyVars>>

\* Fault: a run that cannot start now is waited for.
ClaimRefusedWhenFinished(w) ==
    /\ exec[w].pc = "claim"
    /\ row[exec[w].run].status \in Terminal \cup {"deleted"}
    /\ Return(w)
    /\ UNCHANGED <<dbVars, queue, phase, historyVars>>

\* Deleted, finished, active in another process, or not startable.
ClaimRefused(w) ==
    /\ exec[w].pc = "claim"
    /\ ~Claimable(exec[w].run)
    /\ Return(w)
    /\ UNCHANGED <<dbVars, queue, phase, historyVars>>

\* Fault: recovery does not compare the log with the checkpoint.
NeverUncertain(r) == FALSE

\* Events after the latest checkpoint may have had effects outside.
Uncertain(r) == log[r] > checkpoint[r]

\* RunService.recover of a RUNNING run: one it fails is returned from the claim
\* and nobody is told.  Environment: as in the tests, it is called for a run
\* whose executor is gone; the code itself does not check.
Recover(p, r) ==
    /\ exec[p] = Idle
    /\ row[r].status = "running"
    /\ ~Executing(r)
    /\ IF Uncertain(r)
         THEN /\ row' = [row EXCEPT ![r].status = "failed",
                                    ![r].version = @ + 2]
              /\ untold' = untold \cup {r}
              /\ UNCHANGED exec
         ELSE /\ Write(r, "running")
              /\ StartStream(p, r)
              /\ UNCHANGED untold
    /\ orphaned' = orphaned \ {r}
    /\ UNCHANGED <<outbox, log, checkpoint, queue, phase,
                   reported, resumed, overlapped, faults>>

\* The run of p's open stream, as the next event's transaction finds it.
Streaming(p, statuses) ==
    /\ exec[p].pc = "stream"
    /\ row[exec[p].run].status \in statuses

\* Fault: the event loop does not look for a cancellation.
HaltingOnPause == {"paused"}

Halting == {"cancelled", "paused"}

Close(p, outcome) ==
    exec' = [exec EXCEPT ![p].pc = "closing", ![p].outcome = outcome]

\* A transaction of the event loop persists one event, or a checkpoint.
PersistEvent(p) ==
    /\ Streaming(p, Status \ (Halting \cup {"deleted"}))
    /\ exec[p].seq < MaxSeq
    /\ Insert(exec[p].run, exec[p].seq)
    /\ \/ UNCHANGED checkpoint
       \/ checkpoint' = [checkpoint EXCEPT
            ![exec[p].run] = IF exec[p].seq > @ THEN exec[p].seq ELSE @]
    /\ exec' = [exec EXCEPT ![p].seq = @ + 1]
    /\ UNCHANGED <<row, outbox, queue, phase, historyVars>>

\* The runtime's last event.  The status it finds is overwritten unread.  (A
\* stream that still raises after it is answered by fail_run with the same
\* status: ReportOutcome without notices.)
PersistTerminalEvent(p) ==
    /\ Streaming(p, Status \ (Halting \cup {"deleted"}))
    /\ Insert(exec[p].run, exec[p].seq)
    /\ \E s \in Terminal : Write(exec[p].run, s) /\ Close(p, s)
    /\ UNCHANGED <<outbox, checkpoint, queue, phase, historyVars>>

\* The executor finds the run cancelled or paused and drops the event.
StopStream(p) ==
    /\ Streaming(p, Halting)
    /\ Close(p, row[exec[p].run].status)
    /\ UNCHANGED <<dbVars, queue, phase, historyVars>>

\* A run deleted under the executor: RunNotFound, also from fail_run.
AbandonStream(p) ==
    /\ exec[p].pc \in Active
    /\ row[exec[p].run].status = "deleted"
    /\ Return(p)
    /\ UNCHANGED <<dbVars, queue, phase, historyVars>>

\* Fault: the exception is logged and the run left as it is.
StreamRaisesLogged(p) ==
    /\ exec[p].pc = "stream"
    /\ Return(p)
    /\ UNCHANGED <<dbVars, queue, phase, historyVars>>

StreamRaises(p) ==
    /\ exec[p].pc = "stream"
    /\ exec' = [exec EXCEPT ![p].pc = "failing"]
    /\ UNCHANGED <<dbVars, queue, phase, historyVars>>

\* Fault: the outcome is reported without reading the row.
FailRunUnread(p) ==
    /\ exec[p].pc = "failing"
    /\ LET r == exec[p].run IN
         /\ Exists(r)
         /\ IF row[r].status \in Terminal
              THEN UNCHANGED <<row, log>>
              ELSE Insert(r, log[r] + 1) /\ Write(r, "failed")
    /\ exec' = [exec EXCEPT ![p].pc = "report", ![p].outcome = "failed"]
    /\ UNCHANGED <<outbox, checkpoint, queue, phase, historyVars>>

\* fail_run: a terminal run is returned as it is.
FailRun(p) ==
    /\ exec[p].pc = "failing"
    /\ LET r == exec[p].run IN
         /\ Exists(r)
         /\ IF row[r].status \in Terminal
              THEN UNCHANGED <<row, log>>
              ELSE Insert(r, log[r] + 1) /\ Write(r, "failed")
         /\ exec' = [exec EXCEPT ![p].pc = "report",
                      ![p].outcome = IF row[r].status \in Terminal
                                       THEN row[r].status ELSE "failed"]
    /\ UNCHANGED <<outbox, checkpoint, queue, phase, historyVars>>

StreamEnds(p) ==
    /\ SilentEnds
    /\ exec[p].pc = "stream"
    /\ exec' = [exec EXCEPT ![p].pc = "ended"]
    /\ UNCHANGED <<dbVars, queue, phase, historyVars>>

\* update_status(COMPLETED): the current status is not read.
CompleteRun(p) ==
    /\ exec[p].pc = "ended"
    /\ Exists(exec[p].run)
    /\ Write(exec[p].run, "completed")
    /\ Close(p, "completed")
    /\ UNCHANGED <<outbox, log, checkpoint, queue, phase, historyVars>>

\* The observer's notices follow the last event, if it decided anything.
AppendNotices(p) ==
    /\ exec[p].pc = "closing"
    /\ LET r == exec[p].run IN
         IF Exists(r)
           THEN /\ Insert(r, log[r] + 1)
                /\ exec' = [exec EXCEPT ![p].pc = "report"]
           ELSE Return(p) /\ UNCHANGED log      \* foreign key violation
    /\ UNCHANGED <<row, outbox, checkpoint, queue, phase, historyVars>>

Reporting == {"closing", "report"}      \* between outcome and return

\* record_outcome and the terminal hooks; a paused run is nobody's news.
ReportOutcome(p) ==
    /\ exec[p].pc \in Reporting
    /\ reported' = IF exec[p].outcome \in Terminal
                     THEN [reported EXCEPT
                             ![exec[p].run] = Append(@, exec[p].outcome)]
                     ELSE reported
    /\ Return(p)
    /\ UNCHANGED <<dbVars, queue, phase, untold, resumed, overlapped, orphaned,
                   faults>>

\* A transaction of execute() outside the stream raises (the database is
\* away): the worker loop logs it and drops the call.  The run's outbox row
\* is delivered and its status stays as it is.
LoseCall(p) ==
    /\ faults < MaxFaults
    /\ exec[p].pc \in {"claim", "failing", "ended", "closing"}
    /\ faults' = faults + 1
    /\ IF exec[p].pc = "closing"
         THEN untold' = untold \cup {exec[p].run} /\ UNCHANGED orphaned
         ELSE orphaned' = orphaned \cup {exec[p].run} /\ UNCHANGED untold
    /\ Return(p)
    /\ UNCHANGED <<dbVars, queue, phase, reported, resumed, overlapped>>

\* A process dies and is restarted, or a worker stops on SIGTERM between two
\* runs: its queue and its execute() call are gone, the database is not.
Owned(p) ==
    {r \in Runs : \/ On(p, r, Active \cup {"claim"})
                  \/ p \in Workers /\ r \in Held(p)}

Crash(p) ==
    /\ faults < MaxFaults
    /\ faults' = faults + 1
    /\ orphaned' = orphaned \cup Owned(p)
    /\ untold' = untold \cup {r \in Runs : On(p, r, Reporting)}
    /\ Return(p)
    /\ IF p \in Workers
         THEN /\ queue' = [queue EXCEPT ![p] = <<>>]
              /\ phase' = [phase EXCEPT ![p] = "publish"]
         ELSE UNCHANGED <<queue, phase>>
    /\ UNCHANGED <<dbVars, reported, resumed, overlapped>>

StreamStep(p) ==
    \/ PersistEvent(p) \/ PersistTerminalEvent(p) \/ StopStream(p)
    \/ AbandonStream(p) \/ StreamRaises(p) \/ FailRun(p) \/ StreamEnds(p)
    \/ CompleteRun(p) \/ AppendNotices(p) \/ ReportOutcome(p)

LoopStep(w) ==
    \/ Deliver(w) \/ DeliverUncommitted(w) \/ StartDrain(w)
    \/ TakeNext(w) \/ DrainDone(w)
    \/ ClaimForExecution(w) \/ ClaimRefused(w)

Next ==
    \/ \E r \in Runs : UserStep(r)
    \/ \E w \in Workers : LoopStep(w)
    \/ \E p \in Processes : StreamStep(p)
    \/ \E p \in Operators, r \in Runs : Recover(p, r)
    \/ \E p \in Processes : Crash(p) \/ LoseCall(p)

Spec == Init /\ [][Next]_vars

(***************************************************************************)
(* Fairness.  A worker process keeps running its loop, every stream yields *)
(* or raises (TaskContext.timeout_seconds bounds it), and commits of the   *)
(* outbox do not fail for ever.  Nothing is assumed of users, operators or *)
(* faults.                                                                 *)
(***************************************************************************)
Fairness ==
    /\ \A w \in Workers :
         /\ WF_vars(StartDrain(w)) /\ WF_vars(TakeNext(w))
         /\ WF_vars(DrainDone(w))
         /\ WF_vars(ClaimForExecution(w)) /\ WF_vars(ClaimRefused(w))
         /\ SF_vars(Deliver(w))
    /\ \A p \in Processes : WF_vars(StreamStep(p))

FairSpec == Spec /\ Fairness

(***************************************************************************)
(* Safety.                                                                 *)
(***************************************************************************)
Scheduled(r) ==
    \/ \E o \in outbox : o.run = r
    \/ \E w \in Workers : r \in Held(w) \/ On(w, r, {"claim"})

IsOwned(r) ==
    /\ row[r].status = "queued" => Scheduled(r)
    /\ row[r].status = "running" => Executing(r)
    /\ AwaitsApproval(r) => Executing(r)

\* No work is forgotten: a queued run has a pending outbox row or a place in
\* a worker's memory, and a run that is running, or waits for a capability
\* approval, has an executor; only a fault takes that owner away.
ActiveRunIsOwned ==
    \A r \in Runs \ orphaned : IsOwned(r)

\* claim_for_execution is the run lock: two execute() calls are inside one
\* run only if it was queued again while the first was still inside.
ExclusiveExecution ==
    \A r \in Runs \ overlapped : \A p, q \in Processes :
      On(p, r, Active) /\ On(q, r, Active) => p = q

\* An executor never repeats a number the log has, so no event of a run is
\* lost in ON CONFLICT DO NOTHING and no recorded step is done twice, unless
\* the run was paused (or its approval bypassed) and queued again.  Recovery
\* after a crash keeps this: it goes on only from a checkpoint nothing
\* follows.
NoEventReplayed ==
    \A p \in Processes :
      exec[p].pc = "stream" /\ exec[p].run \notin resumed
        => log[exec[p].run] < exec[p].seq

\* Hermes and the terminal hooks are told of a run once, and what they are
\* told is what its row says; and a run that completed or failed has been
\* told of, or its executor is about to, unless a crash, a lost call or a
\* recovery that failed the run took the report away.
Telling(p, r) == On(p, r, Reporting) /\ exec[p].outcome \in Terminal

ToldOnce(r) ==
    /\ Len(reported[r]) <= 1
    /\ \A i \in DOMAIN reported[r] : reported[r][i] = row[r].status

ToldAtAll(r) ==
    row[r].status \in {"completed", "failed"} =>
      \/ reported[r] # <<>>
      \/ \E p \in Processes : Telling(p, r)
      \/ r \in untold

ReportsAgree ==
    \A r \in Runs \ overlapped : Exists(r) => ToldOnce(r) /\ ToldAtAll(r)

\* What makes ActiveRunIsOwned inductive: a worker publishes only between
\* executions, so enqueue_run never drops a run for being the one in hand.
PublishIsIdle ==
    \A w \in Workers : phase[w] = "publish" => exec[w] = Idle

OwnershipInv == TypeOK /\ PublishIsIdle /\ ActiveRunIsOwned

\* What makes ExclusiveExecution and the next property inductive: a run that
\* may be claimed, or has completed or failed, has no executor left to write
\* its row; update_status(COMPLETED) is reached by silent ends alone.
Locked(r) ==
    /\ \A p, q \in Processes : On(p, r, Active) /\ On(q, r, Active) => p = q
    /\ row[r].status \in {"none", "queued", "completed", "failed"}
         => ~Executing(r)

LockInv ==
    /\ TypeOK
    /\ \A r \in Runs \ overlapped : Locked(r)
    /\ \A p \in Processes : exec[p].pc = "ended" => SilentEnds

\* A terminal status changes only in the two ways the code leaves open: by
\* an executor that was overtaken, or by update_status(COMPLETED) after a
\* stream that ended without a terminal event.
TerminalStatusKept ==
    [][\A r \in Runs :
         \/ row[r].status \notin Terminal
         \/ row'[r].status \in {row[r].status, "deleted"}
         \/ r \in overlapped
         \/ row[r].status = "cancelled" /\ row'[r].status = "completed"
              /\ SilentEnds]_vars

\* The repository's own words: "terminal run state is immutable".
TerminalRunStateIsImmutable ==
    [][\A r \in Runs :
         row[r].status \in Terminal
           => row'[r].status \in {row[r].status, "deleted"}]_vars

(***************************************************************************)
(* Liveness.                                                               *)
(***************************************************************************)
\* A queued run is taken up, and a running one comes to an outcome or to a
\* user's decision, unless its owner was lost.
QueuedRunTaken ==
    \A r \in Runs :
      row[r].status = "queued" ~> row[r].status # "queued" \/ r \in orphaned

RunningRunLeaves ==
    \A r \in Runs :
      row[r].status = "running" ~> row[r].status # "running" \/ r \in orphaned

\* The worker is not held by a run the user cancelled or paused.
ExecutorReleased ==
    \A p \in Processes : exec[p].pc # "idle" ~> exec[p].pc = "idle"

\* The design's promise that a crashed worker's run is taken up again.
CrashedRunTakenUp ==
    \A r \in Runs : row[r].status = "running" ~> row[r].status # "running"
=============================================================================
