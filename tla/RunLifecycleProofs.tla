------------------------- MODULE RunLifecycleProofs -------------------------
(***************************************************************************)
(* What RunLifecycle guarantees for any sets of runs and processes and any *)
(* bounds.                                                                 *)
(***************************************************************************)
EXTENDS RunLifecycle, SequenceTheorems, TLAPS

(***************************************************************************)
(* Type correctness.                                                       *)
(***************************************************************************)
\* What UPDATE of one row leaves behind.
LEMMA WriteRow ==
  ASSUME row \in [Runs -> Rows], NEW r \in Runs, NEW s \in Status, Write(r, s)
  PROVE  /\ row' \in [Runs -> Rows]
         /\ row'[r].status = s
         /\ row'[r].approval = row[r].approval
         /\ \A q \in Runs \ {r} : row'[q] = row[q]
BY DEF Write, Rows

\* A user's transaction writes well-typed rows.
LEMMA UserTypes ==
  ASSUME TypeOK, NEW r \in Runs, UserStep(r)
  PROVE  TypeOK'
<1> USE DEF TypeOK, memVars, historyVars
<1>s. /\ {"queued", "paused", "cancelled", "waiting_user_mode",
           "waiting_approval", "running", "deleted"} \subseteq Status
      /\ {"none", "temporary", "proposal"} \subseteq Kinds
      /\ {"none", "pending"} \subseteq Approvals
  BY DEF Status, Waiting, Terminal, Kinds, Approvals
<1>1. ASSUME Requeue(r) PROVE TypeOK'
  <2>1. row' \in [Runs -> Rows]
    BY <1>1, <1>s, WriteRow DEF Requeue
  <2>2. outbox' \subseteq OutboxRows
    BY <1>1 DEF Requeue, OutboxRows, Rows
  <2>3. QED
    BY <1>1, <2>1, <2>2 DEF Requeue
<1>2. ASSUME NEW s \in Status, NEW k \in Kinds, SubmitAs(r, s, k)
      PROVE  row' \in [Runs -> Rows]
  BY <1>2, <1>s DEF SubmitAs, Rows
<1>3. CASE SubmitQueued(r)
  <2>1. row' \in [Runs -> Rows]
    BY <1>2, <1>3, <1>s DEF SubmitQueued
  <2>2. outbox' \subseteq OutboxRows
    BY <1>3 DEF SubmitQueued, OutboxRows
  <2>3. QED
    BY <1>3, <2>1, <2>2 DEF SubmitQueued, SubmitAs
<1>4. CASE SubmitWaiting(r)
  <2>1. row' \in [Runs -> Rows]
    BY <1>2, <1>4, <1>s DEF SubmitWaiting
  <2>2. QED
    BY <1>4, <2>1 DEF SubmitWaiting, SubmitAs
<1>5. CASE ChooseMode(r) \/ DecideTemporaryAgent(r) \/ Resume(r)
  BY <1>1, <1>5 DEF ChooseMode, DecideTemporaryAgent, Resume
<1>6. CASE Pause(r) \/ Cancel(r)
  BY <1>6, <1>s, WriteRow DEF Pause, Cancel
<1>7. CASE DeleteRun(r)
  <2>1. row' \in [Runs -> Rows]
    BY <1>7, <1>s DEF DeleteRun, Rows
  <2>2. QED
    BY <1>7, <2>1 DEF DeleteRun
<1>8. CASE BeginCapabilityApproval(r)
  <2>1. row' \in [Runs -> Rows]
    BY <1>8, <1>s DEF BeginCapabilityApproval, Rows
  <2>2. QED
    BY <1>8, <2>1 DEF BeginCapabilityApproval
<1>9. CASE ResolveCapabilityApproval(r)
  <2>1. PICK s \in {"running", "cancelled"} :
          row' = [row EXCEPT ![r].status = s, ![r].version = @ + 1,
                             ![r].approval = "none"]
    BY <1>9 DEF ResolveCapabilityApproval
  <2>2. s \in Status /\ row[r] \in Rows
    BY <1>s
  <2>3. [row[r] EXCEPT !.status = s, !.version = @ + 1, !.approval = "none"]
          \in Rows
    <3>1. row[r].version + 1 \in Nat /\ "none" \in Approvals
      BY <2>2, <1>s DEF Rows
    <3>2. QED
      BY <2>2, <3>1 DEF Rows
  <2>4. row' = [row EXCEPT ![r] = [row[r] EXCEPT !.status = s,
                                    !.version = @ + 1, !.approval = "none"]]
    BY <2>1
  <2>5. row' \in [Runs -> Rows]
    BY <2>3, <2>4
  <2>6. QED
    BY <1>9, <2>5 DEF ResolveCapabilityApproval
<1>10. QED
  BY <1>3, <1>4, <1>5, <1>6, <1>7, <1>8, <1>9 DEF UserStep

\* A process that is not idle is in an execute() call on some run.
LEMMA BusyCall ==
  ASSUME TypeOK, NEW p \in Processes, exec[p].pc # "idle"
  PROVE  /\ exec[p].run \in Runs /\ exec[p].seq \in Nat
         /\ exec[p] \in [pc : Pcs, run : Runs, seq : Nat,
                         outcome : Terminal \cup {"none", "paused"}]
BY DEF TypeOK, Calls, Idle

LEMMA StreamStarts ==
  ASSUME TypeOK, NEW p \in Processes, NEW r \in Runs, StartStream(p, r)
  PROVE  /\ exec' \in [Processes -> Calls]
         /\ \A q \in Processes \ {p} : exec'[q] = exec[q]
         /\ exec'[p].pc = "stream" /\ exec'[p].run = r
BY DEF TypeOK, StartStream, Calls, Pcs, Active, Terminal

\* enqueue_run adds at most its run to the queue.
LEMMA EnqueueTypes ==
  ASSUME TypeOK, NEW w \in Workers, NEW r \in Runs, EnqueueRun(w, r)
  PROVE  queue' \in [Workers -> Seq(Runs)]
BY DEF TypeOK, EnqueueRun

LEMMA LoopTypes ==
  ASSUME TypeOK, NEW w \in Workers, LoopStep(w)
  PROVE  TypeOK'
<1> USE DEF TypeOK, dbVars, historyVars
<1>p. w \in Processes
  BY DEF Processes
<1>1. CASE Deliver(w) \/ DeliverUncommitted(w)
  <2>1. PICK o \in outbox : EnqueueRun(w, o.run)
    BY <1>1 DEF Deliver, DeliverUncommitted
  <2>2. queue' \in [Workers -> Seq(Runs)]
    BY <2>1, EnqueueTypes DEF OutboxRows
  <2>3. QED
    BY <1>1, <2>2 DEF Deliver, DeliverUncommitted
<1>2. CASE StartDrain(w) \/ DrainDone(w)
  BY <1>2 DEF StartDrain, DrainDone
<1>3. CASE TakeNext(w)
  <2>1. queue[w] \in Seq(Runs) /\ queue[w] # <<>>
    BY <1>3 DEF TakeNext
  <2>2. Head(queue[w]) \in Runs /\ Tail(queue[w]) \in Seq(Runs)
    BY <2>1
  <2>3. exec' \in [Processes -> Calls]
    BY <1>3, <2>2 DEF TakeNext, Calls, Pcs
  <2>4. queue' \in [Workers -> Seq(Runs)]
    BY <1>3, <2>2 DEF TakeNext
  <2>5. QED
    BY <1>3, <2>3, <2>4 DEF TakeNext
<1>4. CASE ClaimForExecution(w)
  <2>1. exec[w].run \in Runs
    BY <1>4, <1>p, BusyCall DEF ClaimForExecution
  <2>2. row' \in [Runs -> Rows]
    BY <1>4, <2>1, WriteRow DEF ClaimForExecution, Status
  <2>3. exec' \in [Processes -> Calls]
    BY <1>4, <1>p, <2>1, StreamStarts DEF ClaimForExecution
  <2>4. QED
    BY <1>4, <2>2, <2>3 DEF ClaimForExecution
<1>5. CASE ClaimRefused(w)
  BY <1>5 DEF ClaimRefused, Return, Calls
<1>6. QED
  BY <1>1, <1>2, <1>3, <1>4, <1>5 DEF LoopStep

LEMMA StreamTypes ==
  ASSUME TypeOK, NEW p \in Processes, StreamStep(p)
  PROVE  TypeOK'
<1> USE DEF TypeOK, dbVars, historyVars
<1>1. exec[p].pc # "idle"
  BY DEF StreamStep, PersistEvent, PersistTerminalEvent, StopStream, Streaming,
         AbandonStream, Active, StreamRaises, FailRun, StreamEnds, CompleteRun,
         AppendNotices, ReportOutcome, Reporting
<1> DEFINE r == exec[p].run
<1>2. /\ r \in Runs /\ exec[p].seq \in Nat
      /\ exec[p] \in [pc : Pcs, run : Runs, seq : Nat,
                      outcome : Terminal \cup {"none", "paused"}]
  BY <1>1, BusyCall
<1>3. ASSUME NEW c \in Pcs, NEW o \in Terminal \cup {"none", "paused"}
      PROVE  [exec EXCEPT ![p].pc = c, ![p].outcome = o] \in [Processes -> Calls]
  BY <1>2 DEF Calls
<1>4. ASSUME NEW c \in Pcs
      PROVE  [exec EXCEPT ![p].pc = c] \in [Processes -> Calls]
  BY <1>2 DEF Calls
<1>5. ASSUME NEW n \in Nat, Insert(r, n)  PROVE log' \in [Runs -> Nat]
  BY <1>5 DEF Insert
<1>6. Terminal \subseteq Status /\ Halting \subseteq Terminal \cup {"paused"}
  BY DEF Terminal, Status, Halting
<1>7. {"closing", "report", "failing", "ended"} \subseteq Pcs
  BY DEF Pcs, Active
<1>8. Return(p) => exec' \in [Processes -> Calls]
  BY DEF Return, Calls
<1>9. CASE PersistEvent(p)
  <2>0. [exec[p] EXCEPT !.seq = @ + 1] \in Calls
    <3>1. exec[p].seq + 1 \in Nat
      BY <1>2
    <3>2. QED
      BY <1>2, <3>1 DEF Calls
  <2>1. exec' \in [Processes -> Calls]
    BY <1>9, <2>0 DEF PersistEvent
  <2>2. checkpoint' \in [Runs -> Nat]
    BY <1>2, <1>9 DEF PersistEvent
  <2>3. QED
    BY <1>2, <1>5, <1>9, <2>1, <2>2 DEF PersistEvent
<1>10. CASE PersistTerminalEvent(p)
  <2>1. PICK s \in Terminal : Write(r, s) /\ Close(p, s)
    BY <1>10 DEF PersistTerminalEvent
  <2>2. row' \in [Runs -> Rows] /\ exec' \in [Processes -> Calls]
    BY <1>2, <1>3, <1>6, <1>7, <2>1, WriteRow DEF Close
  <2>3. QED
    BY <1>2, <1>5, <1>10, <2>2 DEF PersistTerminalEvent
<1>11. CASE StopStream(p)
  BY <1>3, <1>6, <1>7, <1>11 DEF StopStream, Streaming, Close
<1>12. CASE AbandonStream(p)
  BY <1>8, <1>12 DEF AbandonStream
<1>13. CASE StreamRaises(p) \/ StreamEnds(p)
  BY <1>4, <1>7, <1>13 DEF StreamRaises, StreamEnds
<1>14. CASE FailRun(p)
  <2>1. exec' \in [Processes -> Calls]
    BY <1>3, <1>7, <1>14 DEF FailRun, Terminal
  <2>2. row' \in [Runs -> Rows]
    BY <1>2, <1>6, <1>14, WriteRow DEF FailRun, Terminal
  <2>3. log' \in [Runs -> Nat]
    <3>1. log[r] + 1 \in Nat
      BY <1>2
    <3>2. UNCHANGED log \/ Insert(r, log[r] + 1)
      BY <1>14 DEF FailRun
    <3>3. QED
      BY <1>5, <3>1, <3>2
  <2>4. QED
    BY <1>14, <2>1, <2>2, <2>3 DEF FailRun
<1>15. CASE CompleteRun(p)
  <2>1. row' \in [Runs -> Rows]
    BY <1>2, <1>6, <1>15, WriteRow DEF CompleteRun, Terminal
  <2>2. QED
    BY <1>3, <1>7, <1>15, <2>1 DEF CompleteRun, Close, Terminal
<1>16. CASE AppendNotices(p)
  <2>1. log[r] + 1 \in Nat
    BY <1>2
  <2>2. log' \in [Runs -> Nat]
    BY <1>5, <1>16, <2>1 DEF AppendNotices
  <2>3. exec' \in [Processes -> Calls]
    BY <1>4, <1>7, <1>8, <1>16 DEF AppendNotices
  <2>4. QED
    BY <1>16, <2>2, <2>3 DEF AppendNotices
<1>17. CASE ReportOutcome(p)
  <2>1. reported' \in [Runs -> Seq(Terminal)]
    <3>1. exec[p].outcome \in Terminal =>
            Append(reported[r], exec[p].outcome) \in Seq(Terminal)
      BY <1>2
    <3>2. QED
      BY <1>2, <1>17, <3>1 DEF ReportOutcome
  <2>2. QED
    BY <1>8, <1>17, <2>1 DEF ReportOutcome
<1>18. QED
  BY <1>9, <1>10, <1>11, <1>12, <1>13, <1>14, <1>15, <1>16, <1>17 DEF StreamStep

LEMMA InitTypes ==
  ASSUME Init PROVE TypeOK
BY BoundAssumption, EmptySeq
   DEF Init, TypeOK, Rows, Status, Waiting, Terminal, Kinds, Approvals, Calls

LEMMA NextTypes ==
  ASSUME TypeOK, [Next]_vars
  PROVE  TypeOK'
<1>1. CASE \E r \in Runs : UserStep(r)
  BY <1>1, UserTypes
<1>2. CASE \E w \in Workers : LoopStep(w)
  BY <1>2, LoopTypes
<1>3. CASE \E p \in Processes : StreamStep(p)
  BY <1>3, StreamTypes
<1>4. ASSUME NEW p \in Operators, NEW r \in Runs, Recover(p, r)
      PROVE  TypeOK'
  <2>p. p \in Processes
    BY DEF Processes
  <2>1. row' \in [Runs -> Rows]
    <3>1. CASE Uncertain(r)
      <4>1. row[r] \in Rows /\ row[r].version + 2 \in Nat /\ "failed" \in Status
        BY DEF TypeOK, Rows, Status, Terminal
      <4>2. [row[r] EXCEPT !.status = "failed", !.version = @ + 2] \in Rows
        BY <4>1 DEF Rows
      <4>3. row' = [row EXCEPT ![r] =
                      [row[r] EXCEPT !.status = "failed", !.version = @ + 2]]
        BY <1>4, <3>1 DEF Recover
      <4>4. QED
        BY <4>2, <4>3 DEF TypeOK
    <3>2. CASE ~Uncertain(r)
      <4>1. Write(r, "running") /\ "running" \in Status
        BY <1>4, <3>2 DEF Recover, Status
      <4>2. QED
        BY <4>1, WriteRow DEF TypeOK
    <3>3. QED
      BY <3>1, <3>2
  <2>2. exec' \in [Processes -> Calls]
    BY <1>4, <2>p, StreamStarts DEF Recover, TypeOK
  <2>3. QED
    BY <1>4, <2>1, <2>2 DEF Recover, TypeOK
<1>5. ASSUME NEW p \in Processes, Crash(p)
      PROVE  TypeOK'
  <2>1. faults' \in 0..MaxFaults
    BY <1>5, BoundAssumption DEF Crash, TypeOK
  <2>2. /\ orphaned' \subseteq Runs /\ untold' \subseteq Runs
        /\ exec' \in [Processes -> Calls]
    BY <1>5 DEF Crash, Owned, Return, Calls, TypeOK
  <2>3. queue' \in [Workers -> Seq(Runs)]
    <3>1. CASE p \in Workers
      <4>1. <<>> \in Seq(Runs)
        BY EmptySeq
      <4>2. queue' = [queue EXCEPT ![p] = <<>>]
        BY <1>5, <3>1 DEF Crash
      <4>3. QED
        BY <4>1, <4>2 DEF TypeOK
    <3>2. CASE p \notin Workers
      BY <1>5, <3>2 DEF Crash, TypeOK
    <3>3. QED
      BY <3>1, <3>2
  <2>5. phase' \in [Workers -> {"publish", "drain"}]
    BY <1>5 DEF Crash, TypeOK
  <2>4. QED
    BY <1>5, <2>1, <2>2, <2>3, <2>5 DEF Crash, TypeOK, dbVars
<1>6. ASSUME NEW p \in Processes, LoseCall(p)
      PROVE  TypeOK'
  <2>1. faults' \in 0..MaxFaults
    BY <1>6, BoundAssumption DEF LoseCall, TypeOK
  <2>2. exec[p].run \in Runs
    BY <1>6, BusyCall DEF LoseCall
  <2>3. /\ orphaned' \subseteq Runs /\ untold' \subseteq Runs
        /\ exec' \in [Processes -> Calls]
    BY <1>6, <2>2 DEF LoseCall, Return, Calls, TypeOK
  <2>4. QED
    BY <1>6, <2>1, <2>3 DEF LoseCall, TypeOK, dbVars
<1>7. CASE UNCHANGED vars
  BY <1>7 DEF vars, TypeOK
<1>8. QED
  BY <1>1, <1>2, <1>3, <1>4, <1>5, <1>6, <1>7 DEF Next

\* Every state the service reaches is well typed: no transaction writes a
\* status, a queue entry or an execute() state outside those declared.
THEOREM TypeCorrect == Spec => []TypeOK
BY InitTypes, NextTypes, PTL DEF Spec

(***************************************************************************)
(* No work is forgotten: ActiveRunIsOwned.                                 *)
(***************************************************************************)
\* put_nowait on the LocalRunQueue.
LEMMA HeldAppend ==
  ASSUME TypeOK, NEW w \in Workers, NEW r \in Runs,
         queue' = [queue EXCEPT ![w] = Append(@, r)]
  PROVE  /\ Held(w)' = Held(w) \cup {r}
         /\ \A v \in Workers \ {w} : Held(v)' = Held(v)
<1>1. queue[w] \in Seq(Runs) /\ queue'[w] = Append(queue[w], r)
  BY DEF TypeOK
<1>2. /\ Len(queue'[w]) = Len(queue[w]) + 1
      /\ \A i \in 1..Len(queue[w]) : queue'[w][i] = queue[w][i]
      /\ queue'[w][Len(queue[w]) + 1] = r
      /\ DOMAIN queue[w] = 1..Len(queue[w])
      /\ DOMAIN queue'[w] = 1..(Len(queue[w]) + 1)
      /\ Len(queue[w]) \in Nat
  BY <1>1, AppendProperties, LenProperties
<1>3. Held(w)' = Held(w) \cup {r}
  BY <1>2 DEF Held
<1>4. QED
  BY <1>3 DEF Held, TypeOK

\* get on the LocalRunQueue.
LEMMA HeldTail ==
  ASSUME TypeOK, NEW w \in Workers, queue[w] # <<>>,
         queue' = [queue EXCEPT ![w] = Tail(@)]
  PROVE  /\ Held(w) = Held(w)' \cup {Head(queue[w])}
         /\ \A v \in Workers \ {w} : Held(v)' = Held(v)
<1>1. queue[w] \in Seq(Runs) /\ queue'[w] = Tail(queue[w])
  BY DEF TypeOK
<1>2. /\ Len(queue[w]) \in Nat \ {0}
      /\ DOMAIN queue[w] = 1..Len(queue[w])
      /\ Head(queue[w]) = queue[w][1]
      /\ Len(queue'[w]) = Len(queue[w]) - 1
      /\ DOMAIN queue'[w] = 1..(Len(queue[w]) - 1)
      /\ \A i \in 1..(Len(queue[w]) - 1) : queue'[w][i] = queue[w][i + 1]
  <2>1. Len(queue[w]) \in Nat \ {0} /\ DOMAIN queue[w] = 1..Len(queue[w])
    BY <1>1, EmptySeq, LenProperties
  <2>2. Head(queue[w]) = queue[w][1]
    BY <1>1
  <2>3. /\ queue'[w] \in Seq(Runs)
        /\ Len(queue'[w]) = Len(queue[w]) - 1
        /\ \A i \in 1..Len(queue'[w]) : queue'[w][i] = queue[w][i + 1]
    BY <1>1, HeadTailProperties
  <2>4. DOMAIN queue'[w] = 1..Len(queue'[w])
    BY <2>3, LenProperties
  <2>5. QED
    BY <2>1, <2>2, <2>3, <2>4
<1>3. Held(w) = Held(w)' \cup {Head(queue[w])}
  <2>1. ASSUME NEW i \in DOMAIN queue[w]
        PROVE  queue[w][i] \in Held(w)' \cup {Head(queue[w])}
    <3>1. CASE i = 1
      BY <1>2, <3>1
    <3>2. CASE i # 1
      <4>1. i - 1 \in DOMAIN queue'[w] /\ queue'[w][i - 1] = queue[w][i]
        BY <1>2, <3>2
      <4>2. QED
        BY <4>1 DEF Held
    <3>3. QED
      BY <3>1, <3>2
  <2>2. ASSUME NEW i \in DOMAIN queue'[w]
        PROVE  queue'[w][i] \in Held(w)
    <3>1. i + 1 \in DOMAIN queue[w] /\ queue'[w][i] = queue[w][i + 1]
      BY <1>2
    <3>2. QED
      BY <3>1 DEF Held
  <2>3. Head(queue[w]) \in Held(w)
    BY <1>2 DEF Held
  <2>4. QED
    BY <2>1, <2>2, <2>3 DEF Held
<1>4. QED
  BY <1>3 DEF Held, TypeOK

\* Another run's owner is not touched by a step that leaves its row alone
\* and takes none of its outbox rows, queue places and execute() calls.
LEMMA OwnerKept ==
  ASSUME NEW r \in Runs, IsOwned(r),
         row'[r] = row[r],
         \A o \in outbox : o.run = r => o \in outbox',
         \A w \in Workers : r \in Held(w) => r \in Held(w)',
         \A p \in Processes : exec[p].run = r => exec'[p] = exec[p]
  PROVE  IsOwned(r)'
<1>1. Scheduled(r) => Scheduled(r)'
  BY DEF Scheduled, On, Processes
<1>2. Executing(r) => Executing(r)'
  BY DEF Executing, On
<1>3. QED
  BY <1>1, <1>2 DEF IsOwned, AwaitsApproval

LEMMA UserOwned ==
  ASSUME OwnershipInv, NEW r \in Runs, UserStep(r)
  PROVE  PublishIsIdle' /\ ActiveRunIsOwned'
<1> USE DEF OwnershipInv
<1>d. UserStep(r) =>
        \/ SubmitQueued(r) \/ SubmitWaiting(r) \/ Requeue(r) \/ Pause(r)
        \/ Cancel(r) \/ DeleteRun(r) \/ BeginCapabilityApproval(r)
        \/ ResolveCapabilityApproval(r)
  BY DEF UserStep, ChooseMode, DecideTemporaryAgent, Resume
<1>f. /\ UNCHANGED memVars
      /\ \A q \in Runs \ {r} : row'[q] = row[q]
      /\ \A o \in outbox : o.run # r => o \in outbox'
      /\ orphaned \subseteq orphaned' \cup {r}
  BY <1>d DEF SubmitQueued, SubmitWaiting, SubmitAs, Requeue, Pause, Cancel,
              DeleteRun, BeginCapabilityApproval, ResolveCapabilityApproval,
              Write, TypeOK, historyVars
<1>1. PublishIsIdle'
  BY <1>f DEF PublishIsIdle, memVars
<1>2. ASSUME NEW q \in Runs \ {r}, q \notin orphaned'
      PROVE  IsOwned(q)'
  <2>1. IsOwned(q)
    BY <1>f, <1>2 DEF ActiveRunIsOwned
  <2>2. QED
    BY <1>f, <1>2, <2>1, OwnerKept DEF memVars, Held
<1>3. ASSUME r \notin orphaned'  PROVE IsOwned(r)'
  <2>1. Executing(r)' = Executing(r)
    BY <1>f DEF Executing, On, memVars
  <2>2. CASE SubmitQueued(r)
    <3>1. row'[r].status = "queued"
      BY <2>2 DEF SubmitQueued, SubmitAs, TypeOK
    <3>2. [run |-> r, key |-> 0] \in outbox'
      BY <2>2 DEF SubmitQueued
    <3>3. Scheduled(r)'
      BY <3>2 DEF Scheduled
    <3>4. QED
      BY <3>1, <3>3 DEF IsOwned, AwaitsApproval
  <2>3. CASE SubmitWaiting(r)
    BY <2>3 DEF SubmitWaiting, SubmitAs, IsOwned, AwaitsApproval, TypeOK
  <2>4. CASE Requeue(r)
    <3>1. row'[r].status = "queued"
      BY <2>4 DEF Requeue, Write, TypeOK, Rows
    <3>2. [run |-> r, key |-> row[r].version] \in outbox'
      BY <2>4 DEF Requeue
    <3>3. Scheduled(r)'
      BY <3>2 DEF Scheduled
    <3>4. QED
      BY <3>1, <3>3 DEF IsOwned, AwaitsApproval
  <2>5. CASE Pause(r) \/ Cancel(r) \/ DeleteRun(r)
    <3>1. row'[r].status \in {"paused", "cancelled", "deleted"}
      BY <2>5 DEF Pause, Cancel, DeleteRun, Write, TypeOK, Rows
    <3>2. QED
      BY <3>1 DEF IsOwned, AwaitsApproval
  <2>6. CASE BeginCapabilityApproval(r)
    <3>1. Executing(r)
      BY <2>6 DEF BeginCapabilityApproval, Executing, On, Active
    <3>2. row'[r].status = "waiting_approval"
      BY <2>6 DEF BeginCapabilityApproval, TypeOK, Rows
    <3>3. QED
      BY <2>1, <3>1, <3>2 DEF IsOwned
  <2>7. CASE ResolveCapabilityApproval(r)
    <3>1. Executing(r)
      BY <1>3, <2>7 DEF ResolveCapabilityApproval, ActiveRunIsOwned, IsOwned,
                        historyVars
    <3>2. row'[r].status \in {"running", "cancelled"}
      BY <2>7 DEF ResolveCapabilityApproval, TypeOK, Rows
    <3>3. QED
      BY <2>1, <3>1, <3>2 DEF IsOwned
  <2>8. QED
    BY <1>d, <2>2, <2>3, <2>4, <2>5, <2>6, <2>7
<1>4. QED
  BY <1>1, <1>2, <1>3 DEF ActiveRunIsOwned

LEMMA LoopOwned ==
  ASSUME OwnershipInv, NEW w \in Workers, LoopStep(w)
  PROVE  PublishIsIdle' /\ ActiveRunIsOwned'
<1> USE DEF OwnershipInv, dbVars, historyVars
<1>p. w \in Processes
  BY DEF Processes
<1>0. ActiveRunIsOwned <=> \A r \in Runs \ orphaned : IsOwned(r)
  BY DEF ActiveRunIsOwned
<1>1. CASE Deliver(w) \/ DeliverUncommitted(w)
  <2>1. PICK o \in outbox : /\ EnqueueRun(w, o.run)
                            /\ outbox \subseteq outbox' \cup {o}
    BY <1>1 DEF Deliver, DeliverUncommitted
  <2>2. o.run \in Runs /\ exec[w] = Idle /\ exec' = exec /\ row' = row
    BY <1>1 DEF Deliver, DeliverUncommitted, PublishIsIdle, OutboxRows, TypeOK
  <2>3. Held(w)' = Held(w) \cup {o.run} /\ \A v \in Workers \ {w} : Held(v)' = Held(v)
    <3>1. exec[w].run # o.run
      BY <2>2, RunAssumption DEF Idle
    <3>2. CASE o.run \in Held(w)
      BY <2>1, <3>2 DEF EnqueueRun, Held
    <3>3. CASE o.run \notin Held(w)
      BY <2>1, <2>2, <3>1, <3>3, HeldAppend DEF EnqueueRun
    <3>4. QED
      BY <3>2, <3>3
  <2>4. ASSUME NEW r \in Runs, Scheduled(r)  PROVE Scheduled(r)'
    <3>1. CASE r = o.run
      BY <2>3, <3>1 DEF Scheduled
    <3>2. CASE r # o.run
      BY <2>1, <2>2, <2>3, <2>4, <3>2 DEF Scheduled, On
    <3>3. QED
      BY <3>1, <3>2
  <2>5. ASSUME NEW r \in Runs, IsOwned(r)  PROVE IsOwned(r)'
    BY <2>2, <2>4, <2>5 DEF IsOwned, AwaitsApproval, Executing, On
  <2>6. PublishIsIdle'
    BY <1>1, <2>2 DEF Deliver, DeliverUncommitted, PublishIsIdle, TypeOK
  <2>7. QED
    BY <1>1, <1>0, <2>5, <2>6 DEF Deliver, DeliverUncommitted, ActiveRunIsOwned
<1>2. CASE StartDrain(w) \/ DrainDone(w)
  <2>1. PublishIsIdle'
    BY <1>2 DEF StartDrain, DrainDone, PublishIsIdle, TypeOK
  <2>2. ASSUME NEW r \in Runs, IsOwned(r)  PROVE IsOwned(r)'
    BY <1>2, <2>2 DEF StartDrain, DrainDone, IsOwned, AwaitsApproval, Scheduled,
                      Executing, Held, On
  <2>3. QED
    BY <1>2, <1>0, <2>1, <2>2 DEF StartDrain, DrainDone, ActiveRunIsOwned
<1>3. CASE TakeNext(w)
  <2> DEFINE h == Head(queue[w])
  <2>1. /\ Held(w) = Held(w)' \cup {h}
        /\ \A v \in Workers \ {w} : Held(v)' = Held(v)
    BY <1>3, HeldTail DEF TakeNext
  <2>2. /\ exec[w] = Idle /\ exec'[w].pc = "claim" /\ exec'[w].run = h
        /\ \A p \in Processes \ {w} : exec'[p] = exec[p]
        /\ UNCHANGED <<row, outbox, phase, orphaned>> /\ phase[w] = "drain"
    BY <1>3, <1>p DEF TakeNext, TypeOK
  <2>3. ASSUME NEW r \in Runs, Scheduled(r)  PROVE Scheduled(r)'
    <3>1. ASSUME NEW v \in Workers, r \in Held(v)  PROVE Scheduled(r)'
      BY <2>1, <2>2, <3>1 DEF Scheduled, On
    <3>2. ASSUME NEW v \in Workers, On(v, r, {"claim"})  PROVE Scheduled(r)'
      BY <2>2, <3>2 DEF Scheduled, On, Idle, Processes
    <3>3. QED
      BY <2>2, <2>3, <3>1, <3>2 DEF Scheduled
  <2>4. ASSUME NEW r \in Runs, Executing(r)  PROVE Executing(r)'
    BY <2>2, <2>4 DEF Executing, On, Idle, Active
  <2>5. PublishIsIdle'
    BY <2>2 DEF PublishIsIdle, Processes
  <2>6. QED
    BY <2>2, <2>3, <2>4, <2>5 DEF ActiveRunIsOwned, IsOwned, AwaitsApproval
<1>4. CASE ClaimForExecution(w)
  <2>1. PICK c \in Runs : c = exec[w].run
    BY <1>4, <1>p, BusyCall DEF ClaimForExecution
  <2>2. /\ exec'[w].pc = "stream" /\ exec'[w].run = c
        /\ \A p \in Processes \ {w} : exec'[p] = exec[p]
    BY <1>4, <1>p, <2>1, StreamStarts DEF ClaimForExecution
  <2>3. row'[c].status = "running" /\ \A q \in Runs \ {c} : row'[q] = row[q]
    BY <1>4, <2>1, WriteRow DEF ClaimForExecution, Status, TypeOK
  <2>4. /\ phase[w] = "drain"
        /\ UNCHANGED <<outbox, queue, phase, orphaned>>
    BY <1>4 DEF ClaimForExecution, PublishIsIdle, Idle, TypeOK
  <2>5. PublishIsIdle'
    BY <2>2, <2>4 DEF PublishIsIdle, Processes
  <2>6. IsOwned(c)'
    <3>1. Executing(c)'
      BY <1>p, <2>2 DEF Executing, On, Active
    <3>2. QED
      BY <2>3, <3>1 DEF IsOwned
  <2>7. ASSUME NEW q \in Runs \ {c}, IsOwned(q)  PROVE IsOwned(q)'
    BY <2>1, <2>2, <2>3, <2>4, <2>7, OwnerKept DEF Held
  <2>8. QED
    BY <2>4, <2>5, <2>6, <2>7 DEF ActiveRunIsOwned
<1>5. CASE ClaimRefused(w)
  <2>1. /\ exec[w].pc = "claim" /\ row[exec[w].run].status # "queued"
        /\ exec'[w] = Idle
        /\ \A p \in Processes \ {w} : exec'[p] = exec[p]
        /\ UNCHANGED <<row, outbox, queue, phase, orphaned>>
    BY <1>5, <1>p DEF ClaimRefused, Claimable, Return, TypeOK
  <2>2. PublishIsIdle'
    BY <2>1 DEF PublishIsIdle, Processes
  <2>3. ASSUME NEW r \in Runs, Scheduled(r), row[r].status = "queued"
        PROVE  Scheduled(r)'
    <3>1. \A v \in Workers : Held(v)' = Held(v)
      BY <2>1 DEF Held
    <3>2. \A v \in Workers : On(v, r, {"claim"}) => On(v, r, {"claim"})'
      BY <2>1, <2>3 DEF On, Processes
    <3>3. QED
      BY <2>1, <2>3, <3>1, <3>2 DEF Scheduled
  <2>4. ASSUME NEW r \in Runs, Executing(r)  PROVE Executing(r)'
    BY <2>1, <2>4 DEF Executing, On, Active
  <2>5. QED
    BY <2>1, <2>2, <2>3, <2>4 DEF ActiveRunIsOwned, IsOwned, AwaitsApproval
<1>6. QED
  BY <1>1, <1>2, <1>3, <1>4, <1>5 DEF LoopStep

LEMMA StreamOwned ==
  ASSUME OwnershipInv, NEW p \in Processes, StreamStep(p)
  PROVE  PublishIsIdle' /\ ActiveRunIsOwned'
<1> USE DEF OwnershipInv, dbVars, historyVars
<1>1. exec[p].pc \notin {"idle", "claim"}
  BY DEF StreamStep, PersistEvent, PersistTerminalEvent, StopStream, Streaming,
         AbandonStream, Active, StreamRaises, FailRun, StreamEnds, CompleteRun,
         AppendNotices, ReportOutcome, Reporting
<1>2. PICK r \in Runs : r = exec[p].run
  BY <1>1, BusyCall
<1>3. /\ \A q \in Processes \ {p} : exec'[q] = exec[q]
      /\ \A q \in Runs \ {r} : row'[q] = row[q]
      /\ UNCHANGED <<outbox, queue, phase, orphaned>>
  BY <1>2 DEF StreamStep, PersistEvent, PersistTerminalEvent, StopStream,
         AbandonStream, StreamRaises, FailRun, StreamEnds, CompleteRun,
         AppendNotices, ReportOutcome, Close, Return, Write, TypeOK
<1>4. PublishIsIdle'
  BY <1>1, <1>3 DEF PublishIsIdle, Processes, Idle
<1>5. ASSUME NEW q \in Runs \ {r}, IsOwned(q)  PROVE IsOwned(q)'
  BY <1>2, <1>3, <1>5, OwnerKept DEF Held
<1>6. ASSUME row'[r].status \in Terminal \cup {"paused", "deleted", "none"}
      PROVE  IsOwned(r)'
  BY <1>6 DEF IsOwned, AwaitsApproval, Terminal
<1>7. ASSUME row' = row, exec'[p].run = r, exec'[p].pc \in Active, IsOwned(r)
      PROVE  IsOwned(r)'
  <2>1. Executing(r)'
    BY <1>7 DEF Executing, On
  <2>2. Scheduled(r) => Scheduled(r)'
    BY <1>1, <1>3 DEF Scheduled, On, Held, Processes
  <2>3. QED
    BY <1>7, <2>1, <2>2 DEF IsOwned
<1>8. ASSUME row' = row, exec[p].pc \notin Active, IsOwned(r)
      PROVE  IsOwned(r)'
  <2>1. Executing(r) => Executing(r)'
    BY <1>3, <1>8 DEF Executing, On
  <2>2. Scheduled(r) => Scheduled(r)'
    BY <1>1, <1>3 DEF Scheduled, On, Held, Processes
  <2>3. QED
    BY <1>8, <2>1, <2>2 DEF IsOwned, AwaitsApproval
<1>9. ASSUME IsOwned(r)  PROVE IsOwned(r)'
  <2>1. CASE PersistEvent(p) \/ StreamRaises(p) \/ StreamEnds(p)
    <3>1. row' = row /\ exec'[p].run = r /\ exec'[p].pc \in Active
      <4>1. exec[p] \in [pc : Pcs, run : Runs, seq : Nat,
                         outcome : Terminal \cup {"none", "paused"}]
        BY <1>1, BusyCall
      <4>2. CASE PersistEvent(p)
        BY <1>2, <4>1, <4>2 DEF PersistEvent, Streaming, Active, TypeOK
      <4>3. CASE StreamRaises(p) \/ StreamEnds(p)
        BY <1>2, <4>1, <4>3 DEF StreamRaises, StreamEnds, Active, TypeOK
      <4>4. QED
        BY <2>1, <4>2, <4>3
    <3>2. QED
      BY <1>7, <1>9, <3>1
  <2>2. CASE PersistTerminalEvent(p) \/ CompleteRun(p)
    <3>1. PICK s \in Terminal : Write(r, s)
      BY <1>2, <2>2 DEF PersistTerminalEvent, CompleteRun, Terminal
    <3>2. row'[r].status = s
      BY <3>1, WriteRow DEF TypeOK, Status
    <3>3. QED
      BY <1>6, <3>2
  <2>3. CASE StopStream(p) \/ AbandonStream(p)
    BY <1>2, <1>6, <2>3 DEF StopStream, Streaming, Halting, AbandonStream, Terminal
  <2>4. CASE FailRun(p)
    <3>1. CASE row[r].status \in Terminal
      BY <1>2, <1>6, <2>4, <3>1 DEF FailRun
    <3>2. CASE row[r].status \notin Terminal
      <4>1. Write(r, "failed") /\ "failed" \in Status \cap Terminal
        BY <1>2, <2>4, <3>2 DEF FailRun, Status, Terminal
      <4>2. QED
        BY <1>6, <4>1, WriteRow DEF TypeOK
    <3>3. QED
      BY <3>1, <3>2
  <2>5. CASE AppendNotices(p) \/ ReportOutcome(p)
    <3>1. row' = row /\ exec[p].pc \notin Active
      BY <2>5 DEF AppendNotices, ReportOutcome, Reporting, Active
    <3>2. QED
      BY <1>8, <1>9, <3>1
  <2>6. QED
    BY <2>1, <2>2, <2>3, <2>4, <2>5 DEF StreamStep
<1>10. QED
  BY <1>3, <1>4, <1>5, <1>9 DEF ActiveRunIsOwned

LEMMA RecoverOwned ==
  ASSUME OwnershipInv, NEW p \in Operators, NEW r \in Runs, Recover(p, r)
  PROVE  PublishIsIdle' /\ ActiveRunIsOwned'
<1> USE DEF OwnershipInv
<1>1. p \in Processes /\ p \notin Workers
  BY ProcessAssumption DEF Processes
<1>2. /\ exec[p] = Idle
      /\ \A q \in Processes \ {p} : exec'[q] = exec[q]
      /\ \A q \in Runs \ {r} : row'[q] = row[q]
      /\ UNCHANGED <<outbox, queue, phase>> /\ orphaned \subseteq orphaned' \cup {r}
  <2>1. CASE Uncertain(r)
    BY <2>1 DEF Recover, TypeOK
  <2>2. CASE ~Uncertain(r)
    BY <1>1, <2>2, StreamStarts DEF Recover, Write, TypeOK
  <2>3. QED
    BY <2>1, <2>2
<1>3. PublishIsIdle'
  BY <1>1, <1>2 DEF PublishIsIdle, Processes
<1>4. ASSUME NEW q \in Runs \ {r}, IsOwned(q)  PROVE IsOwned(q)'
  <2>1. \A c \in Processes : exec[c].run = q => exec'[c] = exec[c]
    BY <1>2, RunAssumption DEF Idle
  <2>2. QED
    BY <1>2, <1>4, <2>1, OwnerKept DEF Held
<1>5. IsOwned(r)'
  <2>1. CASE Uncertain(r)
    <3>1. row'[r].status = "failed"
      BY <2>1 DEF Recover, TypeOK, Rows
    <3>2. QED
      BY <3>1 DEF IsOwned, AwaitsApproval
  <2>2. CASE ~Uncertain(r)
    <3>1. row'[r].status = "running"
      BY <2>2, WriteRow DEF Recover, TypeOK, Status
    <3>2. exec'[p].pc = "stream" /\ exec'[p].run = r
      BY <1>1, <2>2, StreamStarts DEF Recover
    <3>3. Executing(r)'
      BY <1>1, <3>2 DEF Executing, On, Active
    <3>4. QED
      BY <3>1, <3>3 DEF IsOwned
  <2>3. QED
    BY <2>1, <2>2
<1>6. QED
  BY <1>2, <1>3, <1>4, <1>5 DEF ActiveRunIsOwned

\* A crash takes from a run only an owner it then counts as lost.
LEMMA CrashOwned ==
  ASSUME OwnershipInv, NEW p \in Processes, Crash(p)
  PROVE  PublishIsIdle' /\ ActiveRunIsOwned'
<1> USE DEF OwnershipInv
<1>1. /\ exec'[p] = Idle
      /\ \A q \in Processes \ {p} : exec'[q] = exec[q]
      /\ UNCHANGED <<row, outbox>> /\ orphaned' = orphaned \cup Owned(p)
      /\ \A w \in Workers \ {p} : queue'[w] = queue[w] /\ phase'[w] = phase[w]
  BY DEF Crash, Return, dbVars, TypeOK
<1>2. PublishIsIdle'
  BY <1>1 DEF PublishIsIdle, Processes
<1>3. ASSUME NEW r \in Runs \ orphaned'  PROVE IsOwned(r)'
  <2>1. IsOwned(r) /\ r \notin Owned(p)
    BY <1>1, <1>3 DEF ActiveRunIsOwned
  <2>2. Executing(r) => Executing(r)'
    BY <1>1, <2>1 DEF Executing, On, Owned
  <2>3. ASSUME NEW w \in Workers, r \in Held(w)  PROVE r \in Held(w)'
    BY <1>1, <2>1, <2>3 DEF Owned, Held
  <2>4. ASSUME NEW w \in Workers, On(w, r, {"claim"})  PROVE On(w, r, {"claim"})'
    BY <1>1, <2>1, <2>4 DEF Owned, On, Processes
  <2>5. Scheduled(r) => Scheduled(r)'
    BY <1>1, <2>3, <2>4 DEF Scheduled
  <2>6. QED
    BY <1>1, <2>1, <2>2, <2>5 DEF IsOwned, AwaitsApproval
<1>4. QED
  BY <1>2, <1>3 DEF ActiveRunIsOwned

\* So does a call whose transaction raised.
LEMMA LostOwned ==
  ASSUME OwnershipInv, NEW p \in Processes, LoseCall(p)
  PROVE  PublishIsIdle' /\ ActiveRunIsOwned'
<1> USE DEF OwnershipInv
<1>1. /\ exec'[p] = Idle
      /\ \A q \in Processes \ {p} : exec'[q] = exec[q]
      /\ UNCHANGED <<row, outbox, queue, phase>> /\ orphaned \subseteq orphaned'
  BY DEF LoseCall, Return, dbVars, TypeOK
<1>2. PublishIsIdle'
  BY <1>1 DEF PublishIsIdle, Processes
<1>3. ASSUME NEW r \in Runs \ orphaned'  PROVE IsOwned(r)'
  <2>1. IsOwned(r)
    BY <1>1, <1>3 DEF ActiveRunIsOwned
  <2>2. ~On(p, r, Active \cup {"claim"})
    BY <1>3 DEF LoseCall, On, Active
  <2>3. Executing(r) => Executing(r)'
    BY <1>1, <2>2 DEF Executing, On
  <2>4. \A w \in Workers : On(w, r, {"claim"}) => On(w, r, {"claim"})'
    BY <1>1, <2>2 DEF On, Processes
  <2>5. Scheduled(r) => Scheduled(r)'
    BY <1>1, <2>4 DEF Scheduled, Held
  <2>6. QED
    BY <1>1, <2>1, <2>3, <2>5 DEF IsOwned, AwaitsApproval
<1>4. QED
  BY <1>2, <1>3 DEF ActiveRunIsOwned

LEMMA InitOwned ==
  ASSUME Init PROVE OwnershipInv
<1>1. TypeOK
  BY InitTypes
<1>2. PublishIsIdle
  BY DEF Init, PublishIsIdle, Processes
<1>3. \A r \in Runs : row[r].status = "none"
  BY DEF Init
<1>4. QED
  BY <1>1, <1>2, <1>3 DEF OwnershipInv, ActiveRunIsOwned, IsOwned, AwaitsApproval

LEMMA NextOwned ==
  ASSUME OwnershipInv, [Next]_vars
  PROVE  OwnershipInv'
<1>1. TypeOK'
  BY NextTypes DEF OwnershipInv
<1>2. PublishIsIdle' /\ ActiveRunIsOwned'
  <2>1. CASE UNCHANGED vars
    BY <2>1 DEF vars, OwnershipInv, PublishIsIdle, ActiveRunIsOwned, IsOwned,
                AwaitsApproval, Scheduled, Executing, On, Held
  <2>2. CASE Next
    BY <2>2, UserOwned, LoopOwned, StreamOwned, RecoverOwned, CrashOwned,
       LostOwned DEF Next
  <2>3. QED
    BY <2>1, <2>2
<1>3. QED
  BY <1>1, <1>2 DEF OwnershipInv

\* No work is forgotten: however commands, deliveries, claims and outcomes
\* interleave, a run the code calls queued or running has an owner that will
\* move it, unless a crash or a lost call took that owner.
THEOREM WorkIsOwned == Spec => []ActiveRunIsOwned
<1>1. Init => OwnershipInv
  BY InitOwned
<1>2. OwnershipInv /\ [Next]_vars => OwnershipInv'
  BY NextOwned
<1>3. OwnershipInv => ActiveRunIsOwned
  BY DEF OwnershipInv
<1>4. QED
  BY <1>1, <1>2, <1>3, PTL DEF Spec

(***************************************************************************)
(* claim_for_execution is the run lock: at most one execute() call is      *)
(* inside a run, and its outcome stands, unless the run was queued again   *)
(* under its executor.                                                     *)
(***************************************************************************)
\* A run whose row stays, and that no call enters, stays locked.
LEMMA LockKept ==
  ASSUME NEW r \in Runs, Locked(r), row'[r].status = row[r].status,
         \A p \in Processes : On(p, r, Active)' => On(p, r, Active)
  PROVE  Locked(r)'
BY DEF Locked, Executing

\* A run its only executor leaves is free, whatever the row says then.
LEMMA LockLeft ==
  ASSUME NEW r \in Runs, Locked(r), NEW p \in Processes, On(p, r, Active),
         ~On(p, r, Active)',
         \A q \in Processes \ {p} : exec'[q] = exec[q]
  PROVE  Locked(r)'
<1>1. \A q \in Processes : ~On(q, r, Active)'
  BY DEF Locked, On
<1>2. QED
  BY <1>1 DEF Locked, Executing

\* A free run one process enters is locked by it.
LEMMA LockTaken ==
  ASSUME NEW r \in Runs, ~Executing(r), NEW p \in Processes,
         \A q \in Processes \ {p} : exec'[q] = exec[q],
         row'[r].status = "running"
  PROVE  Locked(r)'
<1>1. \A q \in Processes \ {p} : ~On(q, r, Active)'
  BY DEF Executing, On
<1>2. QED
  BY <1>1 DEF Locked

LEMMA UserLocks ==
  ASSUME LockInv, NEW r \in Runs, UserStep(r)
  PROVE  LockInv'
<1> USE DEF LockInv
<1>d. UserStep(r) =>
        \/ SubmitQueued(r) \/ SubmitWaiting(r) \/ Requeue(r) \/ Pause(r)
        \/ Cancel(r) \/ DeleteRun(r) \/ BeginCapabilityApproval(r)
        \/ ResolveCapabilityApproval(r)
  BY DEF UserStep, ChooseMode, DecideTemporaryAgent, Resume
<1>f. /\ UNCHANGED memVars
      /\ \A q \in Runs \ {r} : row'[q] = row[q]
      /\ overlapped \subseteq overlapped'
  BY <1>d DEF SubmitQueued, SubmitWaiting, SubmitAs, Requeue, Pause, Cancel,
              DeleteRun, BeginCapabilityApproval, ResolveCapabilityApproval,
              Write, TypeOK, historyVars
<1>1. ASSUME NEW q \in Runs \ {r}, q \notin overlapped'  PROVE Locked(q)'
  <2>1. Locked(q)
    BY <1>f, <1>1
  <2>2. QED
    BY <1>f, <2>1, LockKept DEF On, memVars
<1>2. ASSUME r \notin overlapped'  PROVE Locked(r)'
  <2>1. Locked(r) /\ Executing(r)' = Executing(r)
    BY <1>f, <1>2 DEF Executing, On, memVars
  <2>2. ASSUME ~Executing(r)  PROVE Locked(r)'
    BY <2>1, <2>2 DEF Locked, Executing
  <2>3. ASSUME row'[r].status \notin {"none", "queued", "completed", "failed"}
        PROVE  Locked(r)'
    BY <1>f, <2>1, <2>3 DEF Locked, On, memVars
  <2>4. CASE SubmitQueued(r) \/ SubmitWaiting(r)
    <3>1. row[r].status = "none"
      BY <2>4 DEF SubmitQueued, SubmitWaiting, SubmitAs
    <3>2. QED
      BY <2>1, <2>2, <3>1 DEF Locked
  <2>5. CASE Requeue(r)
    <3>1. ~Executing(r)
      BY <1>2, <2>5 DEF Requeue
    <3>2. QED
      BY <2>2, <3>1
  <2>6. CASE \/ Pause(r) \/ Cancel(r) \/ DeleteRun(r)
             \/ BeginCapabilityApproval(r) \/ ResolveCapabilityApproval(r)
    <3>1. row'[r].status \in {"paused", "cancelled", "deleted", "running",
                              "waiting_approval"}
      BY <2>6 DEF Pause, Cancel, DeleteRun, BeginCapabilityApproval,
                  ResolveCapabilityApproval, Write, TypeOK, Rows
    <3>2. QED
      BY <2>3, <3>1
  <2>7. QED
    BY <1>d, <2>4, <2>5, <2>6
<1>3. QED
  BY <1>f, <1>1, <1>2, UserTypes DEF memVars

LEMMA LoopLocks ==
  ASSUME LockInv, NEW w \in Workers, LoopStep(w)
  PROVE  LockInv'
<1> USE DEF LockInv, dbVars, historyVars
<1>p. w \in Processes
  BY DEF Processes
<1>o. UNCHANGED overlapped
  BY DEF LoopStep, Deliver, DeliverUncommitted, StartDrain, TakeNext, DrainDone,
         ClaimForExecution, ClaimRefused
<1>1. CASE ~ClaimForExecution(w)
  <2>1. /\ UNCHANGED row
        /\ \A q \in Processes :
             exec'[q] = exec[q] \/ exec'[q].pc \in {"idle", "claim"}
    BY <1>1, <1>p DEF LoopStep, Deliver, DeliverUncommitted, StartDrain,
         TakeNext, DrainDone, ClaimRefused, Return, Idle, TypeOK
  <2>2. ASSUME NEW r \in Runs, Locked(r)  PROVE Locked(r)'
    BY <2>1, <2>2, LockKept DEF On, Active
  <2>3. QED
    BY <1>o, <2>1, <2>2, LoopTypes
<1>2. CASE ClaimForExecution(w)
  <2>1. PICK c \in Runs : c = exec[w].run
    BY <1>2, <1>p, BusyCall DEF ClaimForExecution
  <2>2. /\ exec'[w].pc = "stream" /\ exec'[w].run = c
        /\ \A q \in Processes \ {w} : exec'[q] = exec[q]
    BY <1>2, <1>p, <2>1, StreamStarts DEF ClaimForExecution
  <2>3. /\ row[c].status = "queued" /\ row'[c].status = "running"
        /\ \A q \in Runs \ {c} : row'[q] = row[q]
    BY <1>2, <2>1, WriteRow DEF ClaimForExecution, Claimable, Status, TypeOK
  <2>4. ASSUME Locked(c)  PROVE Locked(c)'
    <3>1. ~Executing(c)
      BY <2>3, <2>4 DEF Locked
    <3>2. QED
      BY <1>p, <2>2, <2>3, <3>1, LockTaken
  <2>5. ASSUME NEW q \in Runs \ {c}, Locked(q)  PROVE Locked(q)'
    BY <2>1, <2>2, <2>3, <2>5, LockKept DEF On
  <2>6. QED
    BY <1>o, <2>2, <2>4, <2>5, LoopTypes
<1>3. QED
  BY <1>1, <1>2

LEMMA StreamLocks ==
  ASSUME LockInv, NEW p \in Processes, StreamStep(p)
  PROVE  LockInv'
<1> USE DEF LockInv, dbVars, historyVars
<1>1. exec[p].pc # "idle"
  BY DEF StreamStep, PersistEvent, PersistTerminalEvent, StopStream, Streaming,
         AbandonStream, Active, StreamRaises, FailRun, StreamEnds, CompleteRun,
         AppendNotices, ReportOutcome, Reporting
<1>2. PICK r \in Runs : r = exec[p].run
  BY <1>1, BusyCall
<1>3. /\ \A q \in Processes \ {p} : exec'[q] = exec[q]
      /\ \A q \in Runs \ {r} : row'[q] = row[q]
      /\ UNCHANGED overlapped
  BY <1>2 DEF StreamStep, PersistEvent, PersistTerminalEvent, StopStream,
         AbandonStream, StreamRaises, FailRun, StreamEnds, CompleteRun,
         AppendNotices, ReportOutcome, Close, Return, Write, TypeOK
<1>4. \/ exec'[p].pc \notin Active
      \/ exec'[p].run = r /\ exec[p].pc \in Active /\ row' = row
  <2>1. exec[p] \in [pc : Pcs, run : Runs, seq : Nat,
                     outcome : Terminal \cup {"none", "paused"}]
    BY <1>1, BusyCall
  <2>2. CASE PersistEvent(p)
    BY <1>2, <2>1, <2>2 DEF PersistEvent, Streaming, Active, TypeOK
  <2>3. CASE StreamRaises(p) \/ StreamEnds(p)
    BY <1>2, <2>1, <2>3 DEF StreamRaises, StreamEnds, Active, TypeOK
  <2>4. CASE PersistTerminalEvent(p) \/ StopStream(p) \/ CompleteRun(p)
    BY <2>1, <2>4 DEF PersistTerminalEvent, StopStream, CompleteRun, Close,
                      Active, TypeOK
  <2>5. CASE FailRun(p)
    BY <2>1, <2>5 DEF FailRun, Active, TypeOK
  <2>6. CASE AbandonStream(p) \/ AppendNotices(p) \/ ReportOutcome(p)
    BY <2>1, <2>6 DEF AbandonStream, AppendNotices, ReportOutcome, Return,
                      Active, Idle, TypeOK
  <2>7. QED
    BY <2>2, <2>3, <2>4, <2>5, <2>6 DEF StreamStep
<1>5. row' = row \/ exec[p].pc \in Active
  BY DEF StreamStep, PersistEvent, PersistTerminalEvent, StopStream, Streaming,
         AbandonStream, Active, StreamRaises, FailRun, StreamEnds, CompleteRun,
         AppendNotices, ReportOutcome, Reporting
<1>6. ASSUME NEW q \in Runs, Locked(q)  PROVE Locked(q)'
  <2>1. \A c \in Processes : On(c, q, Active)' => On(c, q, Active)
    BY <1>2, <1>3, <1>4 DEF On
  <2>2. CASE row'[q] = row[q]
    BY <1>6, <2>1, <2>2, LockKept
  <2>3. CASE row'[q] # row[q]
    <3>1. q = r /\ exec[p].pc \in Active /\ exec'[p].pc \notin Active
      BY <1>3, <1>4, <1>5, <2>3
    <3>2. QED
      BY <1>2, <1>3, <1>6, <3>1, LockLeft DEF On
  <2>4. QED
    BY <2>2, <2>3
<1>7. ASSUME NEW q \in Processes, exec'[q].pc = "ended"  PROVE SilentEnds
  <2>1. exec[q].pc = "ended" \/ (q = p /\ StreamEnds(p))
    <3>1. exec[p] \in [pc : Pcs, run : Runs, seq : Nat,
                       outcome : Terminal \cup {"none", "paused"}]
      BY <1>1, BusyCall
    <3>2. QED
      BY <1>3, <1>7, <3>1 DEF StreamStep, PersistEvent, PersistTerminalEvent,
           StopStream, AbandonStream, StreamRaises, FailRun, CompleteRun,
           AppendNotices, ReportOutcome, Close, Return, Idle, TypeOK
  <2>2. QED
    BY <2>1 DEF StreamEnds
<1>8. QED
  BY <1>3, <1>6, <1>7, StreamTypes

LEMMA OtherLocks ==
  ASSUME LockInv,
         \/ \E p \in Operators, r \in Runs : Recover(p, r)
         \/ \E p \in Processes : Crash(p) \/ LoseCall(p)
  PROVE  LockInv'
<1> USE DEF LockInv
<1>t. TypeOK'
  BY NextTypes DEF Next
<1>1. ASSUME NEW p \in Operators, NEW r \in Runs, Recover(p, r)  PROVE LockInv'
  <2>1. p \in Processes /\ ~Executing(r) /\ UNCHANGED overlapped
    BY <1>1 DEF Recover, Processes
  <2>2. CASE Uncertain(r)
    <3>1. exec' = exec /\ \A q \in Runs \ {r} : row'[q] = row[q]
      BY <1>1, <2>2 DEF Recover, TypeOK
    <3>2. Locked(r)'
      BY <2>1, <3>1 DEF Locked, Executing, On
    <3>3. ASSUME NEW q \in Runs \ {r}, Locked(q)  PROVE Locked(q)'
      BY <3>1, <3>3, LockKept DEF On
    <3>4. QED
      BY <1>t, <2>1, <3>1, <3>2, <3>3
  <2>3. CASE ~Uncertain(r)
    <3>1. Write(r, "running") /\ StartStream(p, r) /\ exec[p] = Idle
      BY <1>1, <2>3 DEF Recover
    <3>2. /\ row'[r].status = "running"
          /\ \A q \in Runs \ {r} : row'[q] = row[q]
      BY <3>1, WriteRow DEF Status, TypeOK
    <3>3. /\ exec'[p].pc = "stream" /\ exec'[p].run = r
          /\ \A q \in Processes \ {p} : exec'[q] = exec[q]
      BY <2>1, <3>1, StreamStarts
    <3>4. Locked(r)'
      BY <2>1, <3>2, <3>3, LockTaken
    <3>5. ASSUME NEW q \in Runs \ {r}, Locked(q)  PROVE Locked(q)'
      BY <3>2, <3>3, <3>5, LockKept DEF On
    <3>6. QED
      BY <1>t, <2>1, <3>3, <3>4, <3>5
  <2>4. QED
    BY <2>2, <2>3
<1>2. ASSUME NEW p \in Processes, Crash(p) \/ LoseCall(p)  PROVE LockInv'
  <2>1. /\ \A q \in Processes : exec'[q] = exec[q] \/ exec'[q] = Idle
        /\ UNCHANGED <<row, overlapped>>
    BY <1>2 DEF Crash, LoseCall, Return, dbVars, TypeOK
  <2>2. ASSUME NEW q \in Runs, Locked(q)  PROVE Locked(q)'
    BY <2>1, <2>2, LockKept DEF On, Idle, Active
  <2>3. QED
    BY <1>t, <2>1, <2>2 DEF Idle
<1>3. QED
  BY <1>1, <1>2

LEMMA InitLocks ==
  ASSUME Init PROVE LockInv
BY InitTypes DEF Init, LockInv, Locked, Executing, On, Idle, Active

LEMMA NextLocks ==
  ASSUME LockInv, [Next]_vars
  PROVE  LockInv'
<1>1. CASE UNCHANGED vars
  BY <1>1 DEF vars, LockInv, TypeOK, Locked, Executing, On
<1>2. CASE Next
  BY <1>2, UserLocks, LoopLocks, StreamLocks, OtherLocks DEF Next
<1>3. QED
  BY <1>1, <1>2

\* Two execute() calls are inside one run only if the run was queued again
\* while the first was still inside, whatever the workers, the users and the
\* faults do.
THEOREM RunLockHolds == Spec => []ExclusiveExecution
<1>1. Init => LockInv
  BY InitLocks
<1>2. LockInv /\ [Next]_vars => LockInv'
  BY NextLocks
<1>3. LockInv => ExclusiveExecution
  BY DEF LockInv, Locked, ExclusiveExecution
<1>4. QED
  BY <1>1, <1>2, <1>3, PTL DEF Spec

\* One step never rewrites the outcome of a locked run.
LEMMA StepKeepsOutcome ==
  ASSUME LockInv, [Next]_vars, NEW r \in Runs,
         r \notin overlapped, row[r].status \in Terminal
  PROVE  \/ row'[r].status \in {row[r].status, "deleted"}
         \/ /\ row[r].status = "cancelled" /\ row'[r].status = "completed"
            /\ SilentEnds
<1> USE DEF LockInv
<1>l. Locked(r)
  OBVIOUS
<1>1. CASE UNCHANGED vars
  BY <1>1 DEF vars
<1>2. ASSUME NEW q \in Runs, UserStep(q)
      PROVE  row'[r].status \in {row[r].status, "deleted"}
  <2>1. CASE q = r
    BY <1>2, <2>1 DEF UserStep, SubmitQueued, SubmitWaiting, SubmitAs, ChooseMode,
       DecideTemporaryAgent, Pause, Resume, Cancel, DeleteRun,
       BeginCapabilityApproval, ResolveCapabilityApproval, AwaitsApproval,
       Terminal, TypeOK, Rows
  <2>2. CASE q # r
    BY <1>2, <2>2 DEF UserStep, SubmitQueued, SubmitWaiting, SubmitAs, ChooseMode,
       DecideTemporaryAgent, Pause, Resume, Cancel, DeleteRun, Requeue, Write,
       BeginCapabilityApproval, ResolveCapabilityApproval, TypeOK
  <2>3. QED
    BY <2>1, <2>2
<1>3. ASSUME NEW w \in Workers, LoopStep(w)
      PROVE  row'[r].status = row[r].status
  BY <1>3 DEF LoopStep, Deliver, DeliverUncommitted, StartDrain, TakeNext,
     DrainDone, ClaimForExecution, ClaimRefused, Claimable, Write, dbVars,
     Terminal, TypeOK
<1>4. ASSUME NEW p \in Processes, StreamStep(p), row'[r] # row[r]
      PROVE  /\ row[r].status = "cancelled" /\ row'[r].status = "completed"
             /\ SilentEnds
  <2>1. /\ exec[p].run = r /\ exec[p].pc \in Active
        /\ PersistTerminalEvent(p) \/ FailRun(p) \/ CompleteRun(p)
    BY <1>4 DEF StreamStep, PersistEvent, PersistTerminalEvent, StopStream,
       Streaming, AbandonStream, Active, StreamRaises, FailRun, StreamEnds,
       CompleteRun, AppendNotices, ReportOutcome, Write, dbVars, TypeOK
  <2>2. row[r].status = "cancelled"
    BY <1>l, <2>1 DEF Locked, Executing, On, Terminal
  <2>3. CompleteRun(p)
    BY <1>4, <2>1, <2>2 DEF PersistTerminalEvent, Streaming, Halting, FailRun,
                            Terminal
  <2>4. exec[p].pc = "ended" /\ Write(r, "completed")
    BY <2>1, <2>3 DEF CompleteRun
  <2>5. row'[r].status = "completed"
    BY <2>4, WriteRow DEF TypeOK, Status, Terminal
  <2>6. QED
    BY <2>2, <2>4, <2>5
<1>5. ASSUME NEW p \in Operators, NEW q \in Runs, Recover(p, q)
      PROVE  row'[r].status = row[r].status
  BY <1>5 DEF Recover, Write, Terminal, TypeOK
<1>6. ASSUME NEW p \in Processes, Crash(p) \/ LoseCall(p)
      PROVE  row'[r].status = row[r].status
  BY <1>6 DEF Crash, LoseCall, dbVars
<1>7. QED
  BY <1>1, <1>2, <1>3, <1>4, <1>5, <1>6 DEF Next

\* An outcome once written stands: only deletion, an overtaken executor and
\* update_status(COMPLETED) after a silent end ever change a terminal status.
THEOREM OutcomeStands == Spec => TerminalStatusKept
<1> DEFINE Kept ==
      \A r \in Runs :
         \/ row[r].status \notin Terminal
         \/ row'[r].status \in {row[r].status, "deleted"}
         \/ r \in overlapped
         \/ row[r].status = "cancelled" /\ row'[r].status = "completed"
              /\ SilentEnds
<1>1. Init => LockInv
  BY InitLocks
<1>2. LockInv /\ [Next]_vars => LockInv'
  BY NextLocks
<1>3. LockInv /\ [Next]_vars => [Kept]_vars
  BY StepKeepsOutcome
<1>4. QED
  BY <1>1, <1>2, <1>3, PTL DEF Spec, TerminalStatusKept
=============================================================================
