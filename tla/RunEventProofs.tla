--------------------------- MODULE RunEventProofs ---------------------------
(***************************************************************************)
(* What an execution leaves behind: the outcome it reports is the one of   *)
(* the row, and no event takes the number of another, unless the run was   *)
(* queued again under its executor, or after a pause.                      *)
(***************************************************************************)
EXTENDS RunLifecycleProofs

(***************************************************************************)
(* Outcomes.                                                               *)
(***************************************************************************)
\* Nobody was told of the run, and nobody is about to be.
Silent(r) == reported[r] = <<>> /\ \A p \in Processes : ~Telling(p, r)

\* What was told of a run, or is about to be, is what its row says; there is
\* one that tells, and nothing was told before; once it is so, no executor is
\* left to say another thing.
Told(r) ==
    /\ Len(reported[r]) <= 1
    /\ \A i \in DOMAIN reported[r] : row[r].status \in {reported[r][i], "deleted"}
    /\ \A p \in Processes : Telling(p, r) =>
         /\ reported[r] = <<>>
         /\ row[r].status \in {exec[p].outcome, "deleted"}
    /\ \A p, q \in Processes : Telling(p, r) /\ Telling(q, r) => p = q
    /\ Executing(r) => Silent(r)
    /\ ToldAtAll(r)

ReportInv ==
    /\ LockInv
    /\ \A r \in Runs \ overlapped : Told(r)

LEMMA ToldKept ==
  ASSUME NEW r \in Runs, Told(r),
         row'[r].status \in {row[r].status, "deleted"},
         reported'[r] = reported[r],
         r \in untold => r \in untold',
         \A p \in Processes : On(p, r, Active)' => On(p, r, Active),
         \A p \in Processes :
            Telling(p, r)' => Telling(p, r) /\ exec'[p].outcome = exec[p].outcome,
         \A p \in Processes :
            Telling(p, r) => Telling(p, r)' \/ r \in untold' \/ row'[r].status = "deleted"
  PROVE  Told(r)'
<1>1. Executing(r)' => Executing(r)
  BY DEF Executing
<1>2. Silent(r) => Silent(r)'
  BY DEF Silent
<1>3. ToldAtAll(r)'
  BY DEF Told, ToldAtAll
<1>4. (\A p \in Processes : Telling(p, r) =>
         /\ reported[r] = <<>>
         /\ row[r].status \in {exec[p].outcome, "deleted"})'
  BY DEF Told
<1>5. QED
  BY <1>1, <1>2, <1>3, <1>4 DEF Told

\* A run that is still to be executed, or is being, has no outcome yet.
LEMMA NotYetTold ==
  ASSUME TypeOK, NEW r \in Runs, Told(r),
         row[r].status \notin Terminal \cup {"deleted"} \/ Executing(r)
  PROVE  Silent(r)
<1>1. CASE Executing(r)
  BY <1>1 DEF Told
<1>2. CASE row[r].status \notin Terminal \cup {"deleted"}
  <2>1. \A p \in Processes : ~Telling(p, r)
    BY <1>2 DEF Told, Telling
  <2>2. reported[r] = <<>>
    <3>1. reported[r] \in Seq(Terminal)
      BY DEF TypeOK
    <3>2. CASE reported[r] # <<>>
      <4>1. 1 \in DOMAIN reported[r] /\ reported[r][1] \in Terminal
        BY <3>1, <3>2
      <4>2. QED
        BY <1>2, <4>1 DEF Told
    <3>3. QED
      BY <3>2
  <2>3. QED
    BY <2>1, <2>2 DEF Silent
<1>3. QED
  BY <1>1, <1>2

LEMMA SilentKept ==
  ASSUME NEW r \in Runs, Silent(r), reported'[r] = reported[r],
         \A p \in Processes : Telling(p, r)' => Telling(p, r),
         row'[r].status \notin {"completed", "failed"} \/ r \in untold'
  PROVE  Told(r)'
<1>1. Silent(r)'
  BY DEF Silent
<1>2. Len(<<>>) = 0 /\ DOMAIN <<>> = {}
  OBVIOUS
<1>3. QED
  BY <1>1, <1>2 DEF Told, Silent, ToldAtAll

\* The only executor leaves its run with the outcome it wrote or found.
LEMMA OutcomeTold ==
  ASSUME NEW r \in Runs, Silent(r), Locked(r), reported'[r] = reported[r],
         NEW p \in Processes, On(p, r, Active), exec'[p].run = r,
         exec'[p].pc \in Reporting,
         exec'[p].outcome \in Terminal \cup {"paused"},
         row'[r].status = exec'[p].outcome,
         \A q \in Processes \ {p} : exec'[q] = exec[q]
  PROVE  Told(r)'
<1>1. \A q \in Processes : ~On(q, r, Active)'
  <2>1. \A q \in Processes \ {p} : ~On(q, r, Active)
    BY DEF Locked
  <2>2. QED
    BY <2>1 DEF On, Reporting, Active
<1>2. ~Executing(r)'
  BY <1>1 DEF Executing
<1>3. ASSUME NEW q \in Processes, Telling(q, r)'
      PROVE  q = p
  BY <1>3 DEF Silent, Telling, On
<1>4. reported'[r] = <<>> /\ Len(<<>>) = 0 /\ DOMAIN <<>> = {}
  BY DEF Silent
<1>5. exec'[p].outcome \in Terminal => Telling(p, r)'
  BY DEF Telling, On
<1>6. ToldAtAll(r)'
  <2>1. CASE exec'[p].outcome \in Terminal
    BY <1>5, <2>1 DEF ToldAtAll
  <2>2. CASE exec'[p].outcome = "paused"
    BY <2>2 DEF ToldAtAll
  <2>3. QED
    BY <2>1, <2>2
<1>7. QED
  BY <1>2, <1>3, <1>4, <1>6 DEF Told

LEMMA UserReports ==
  ASSUME ReportInv, NEW r \in Runs, UserStep(r)
  PROVE  ReportInv'
<1> USE DEF ReportInv, LockInv
<1>d. UserStep(r) =>
        \/ SubmitQueued(r) \/ SubmitWaiting(r)
        \/ (ChooseMode(r) \/ DecideTemporaryAgent(r) \/ Resume(r)) /\ Requeue(r)
        \/ Pause(r) \/ Cancel(r) \/ DeleteRun(r)
        \/ BeginCapabilityApproval(r) \/ ResolveCapabilityApproval(r)
  BY DEF UserStep, ChooseMode, DecideTemporaryAgent, Resume
<1>f. /\ UNCHANGED <<exec, reported, untold>>
      /\ \A q \in Runs \ {r} : row'[q] = row[q]
      /\ overlapped \subseteq overlapped'
  BY <1>d DEF SubmitQueued, SubmitWaiting, SubmitAs, Requeue, Pause, Cancel,
              DeleteRun, BeginCapabilityApproval, ResolveCapabilityApproval,
              Write, TypeOK, historyVars, memVars
<1>s. \/ row[r].status \notin Terminal \cup {"deleted"}
      \/ row'[r].status \in {row[r].status, "deleted"}
  BY <1>d DEF SubmitQueued, SubmitWaiting, SubmitAs, ChooseMode, Resume,
              DecideTemporaryAgent, Pause, Cancel, DeleteRun, Exists, Terminal,
              BeginCapabilityApproval, ResolveCapabilityApproval, AwaitsApproval,
              TypeOK, Rows
<1>n. row'[r].status \in {row[r].status, "deleted"}
        \/ row'[r].status \notin {"completed", "failed"}
  BY <1>d DEF SubmitQueued, SubmitWaiting, SubmitAs, Requeue, Pause, Cancel,
              DeleteRun, BeginCapabilityApproval, ResolveCapabilityApproval,
              Write, TypeOK, Rows
<1>1. ASSUME NEW q \in Runs \ overlapped'  PROVE Told(q)'
  <2>1. Told(q)
    BY <1>f
  <2>2. CASE row'[q].status \in {row[q].status, "deleted"}
    BY <1>f, <2>1, <2>2, ToldKept DEF On, Telling
  <2>3. CASE row'[q].status \notin {row[q].status, "deleted"}
    <3>1. Silent(q)
      BY <1>f, <1>s, <2>1, <2>3, NotYetTold
    <3>2. QED
      BY <1>f, <1>n, <2>3, <3>1, SilentKept DEF On, Telling
  <2>4. QED
    BY <2>2, <2>3
<1>2. QED
  BY <1>1, UserLocks

LEMMA LoopReports ==
  ASSUME ReportInv, NEW w \in Workers, LoopStep(w)
  PROVE  ReportInv'
<1> USE DEF ReportInv, LockInv, dbVars, historyVars
<1>p. w \in Processes
  BY DEF Processes
<1>o. UNCHANGED <<overlapped, reported, untold>>
  BY DEF LoopStep, Deliver, DeliverUncommitted, StartDrain, TakeNext, DrainDone,
         ClaimForExecution, ClaimRefused
<1>1. CASE ~ClaimForExecution(w)
  <2>1. /\ UNCHANGED row
        /\ \A q \in Processes :
             \/ exec'[q] = exec[q]
             \/ /\ exec'[q].pc \in {"idle", "claim"}
                /\ exec[q].pc \in {"idle", "claim"}
    BY <1>1, <1>p DEF LoopStep, Deliver, DeliverUncommitted, StartDrain,
         TakeNext, DrainDone, ClaimRefused, Return, Idle, TypeOK
  <2>2. ASSUME NEW r \in Runs, Told(r)  PROVE Told(r)'
    <3>1. \A q \in Processes : On(q, r, Active)' => On(q, r, Active)
      BY <2>1 DEF On, Active
    <3>2. \A q \in Processes :
            /\ Telling(q, r)' = Telling(q, r)
            /\ Telling(q, r)' => exec'[q].outcome = exec[q].outcome
      BY <2>1 DEF On, Telling, Reporting
    <3>3. QED
      BY <1>o, <2>1, <2>2, <3>1, <3>2, ToldKept
  <2>3. QED
    BY <1>o, <2>2, LoopLocks
<1>2. CASE ClaimForExecution(w)
  <2>1. PICK c \in Runs : c = exec[w].run
    BY <1>2, <1>p, BusyCall DEF ClaimForExecution
  <2>2. /\ exec'[w].pc = "stream" /\ exec'[w].run = c
        /\ \A q \in Processes \ {w} : exec'[q] = exec[q]
    BY <1>2, <1>p, <2>1, StreamStarts DEF ClaimForExecution
  <2>3. /\ row[c].status = "queued" /\ row'[c].status = "running"
        /\ \A q \in Runs \ {c} : row'[q] = row[q]
    BY <1>2, <2>1, WriteRow DEF ClaimForExecution, Claimable, Status, TypeOK
  <2>4. ASSUME Told(c)  PROVE Told(c)'
    <3>1. Silent(c)
      BY <2>3, <2>4, NotYetTold DEF Terminal
    <3>2. QED
      BY <1>o, <2>2, <2>3, <3>1, SilentKept DEF On, Telling, Reporting
  <2>5. ASSUME NEW q \in Runs \ {c}, Told(q)  PROVE Told(q)'
    <3>1. exec[w].pc = "claim"
      BY <1>2 DEF ClaimForExecution
    <3>2. \A d \in Processes : On(d, q, Active)' => On(d, q, Active)
      BY <2>2 DEF On
    <3>3. \A d \in Processes :
            /\ Telling(d, q)' = Telling(d, q)
            /\ Telling(d, q)' => exec'[d].outcome = exec[d].outcome
      BY <2>2, <3>1 DEF On, Telling, Reporting
    <3>4. QED
      BY <1>o, <2>3, <2>5, <3>2, <3>3, ToldKept
  <2>6. QED
    BY <1>o, <2>4, <2>5, LoopLocks
<1>3. QED
  BY <1>1, <1>2

\* A step of a call touches the call's process and its run, and nothing else.
LEMMA StreamFrame ==
  ASSUME TypeOK, NEW p \in Processes, StreamStep(p), NEW r \in Runs, r = exec[p].run,
         exec[p] \in [pc : Pcs, run : Runs, seq : Nat,
                      outcome : Terminal \cup {"none", "paused"}]
  PROVE  /\ \A q \in Processes \ {p} : exec'[q] = exec[q]
         /\ \A q \in Runs \ {r} :
              /\ row'[q] = row[q] /\ log'[q] = log[q]
              /\ checkpoint'[q] = checkpoint[q] /\ reported'[q] = reported[q]
         /\ UNCHANGED <<resumed, overlapped, untold>>
         /\ exec'[p] = Idle \/ exec'[p].run = r
<1> USE DEF dbVars, historyVars
<1>0. /\ row \in [Runs -> Rows] /\ log \in [Runs -> Nat]
      /\ checkpoint \in [Runs -> Nat] /\ exec \in [Processes -> Calls]
      /\ reported \in [Runs -> Seq(Terminal)]
  BY DEF TypeOK
<1>1. CASE PersistEvent(p)
  BY <1>0, <1>1 DEF PersistEvent, Insert
<1>2. CASE PersistTerminalEvent(p)
  BY <1>0, <1>2 DEF PersistTerminalEvent, Close, Write, Insert
<1>3. CASE StopStream(p)
  BY <1>0, <1>3 DEF StopStream, Close
<1>4. CASE AbandonStream(p)
  BY <1>0, <1>4 DEF AbandonStream, Return
<1>5. CASE StreamRaises(p)
  BY <1>0, <1>5 DEF StreamRaises
<1>6. CASE FailRun(p)
  BY <1>0, <1>6 DEF FailRun, Write, Insert
<1>7. CASE StreamEnds(p)
  BY <1>0, <1>7 DEF StreamEnds
<1>8. CASE CompleteRun(p)
  BY <1>0, <1>8 DEF CompleteRun, Close, Write
<1>9. CASE AppendNotices(p)
  BY <1>0, <1>9 DEF AppendNotices, Return, Insert
<1>10. CASE ReportOutcome(p)
  BY <1>0, <1>10 DEF ReportOutcome, Return
<1>11. QED
  BY <1>1, <1>2, <1>3, <1>4, <1>5, <1>6, <1>7, <1>8, <1>9, <1>10
     DEF StreamStep

LEMMA StreamReports ==
  ASSUME ReportInv, NEW p \in Processes, StreamStep(p)
  PROVE  ReportInv'
<1> USE DEF ReportInv, LockInv, dbVars, historyVars
<1>1. exec[p].pc # "idle"
  BY DEF StreamStep, PersistEvent, PersistTerminalEvent, StopStream, Streaming,
         AbandonStream, Active, StreamRaises, FailRun, StreamEnds, CompleteRun,
         AppendNotices, ReportOutcome, Reporting
<1>2. PICK r \in Runs : r = exec[p].run
  BY <1>1, BusyCall
<1>t. exec[p] \in [pc : Pcs, run : Runs, seq : Nat, outcome : Terminal \cup {"none", "paused"}]
  BY <1>1, BusyCall
<1>3. /\ \A q \in Processes \ {p} : exec'[q] = exec[q]
      /\ \A q \in Runs \ {r} : row'[q] = row[q] /\ reported'[q] = reported[q]
      /\ UNCHANGED <<overlapped, untold>>
  BY <1>2, <1>t, StreamFrame
<1>4. exec'[p] = Idle \/ exec'[p].run = r
  BY <1>2, <1>t, StreamFrame
<1>5. ASSUME NEW q \in Runs \ {r}, Told(q)  PROVE Told(q)'
  <2>1. \A c \in Processes : On(c, q, Active)' => On(c, q, Active)
    BY <1>2, <1>3, <1>4 DEF On, Idle, Active
  <2>2. \A c \in Processes :
          /\ Telling(c, q)' = Telling(c, q)
          /\ Telling(c, q)' => exec'[c].outcome = exec[c].outcome
    BY <1>2, <1>3, <1>4 DEF On, Idle, Telling, Reporting
  <2>3. QED
    BY <1>3, <1>5, <2>1, <2>2, ToldKept
<1>6. ASSUME r \notin overlapped  PROVE Told(r)'
  <2>1. Told(r) /\ Locked(r)
    BY <1>6
  <2>2. ASSUME On(p, r, Active)
        PROVE  Silent(r) /\ row[r].status \notin {"completed", "failed"}
    <3>1. Executing(r)
      BY <2>2 DEF Executing
    <3>2. QED
      BY <2>1, <3>1, NotYetTold DEF Locked
  <2>3. CASE PersistEvent(p) \/ StreamRaises(p) \/ StreamEnds(p)
    <3>1. /\ exec[p].pc = "stream" /\ exec'[p].pc \notin Reporting
          /\ UNCHANGED <<row, reported>>
      <4>1. exec \in [Processes -> Calls]
        BY DEF TypeOK
      <4>2. CASE PersistEvent(p)
        BY <1>t, <4>1, <4>2 DEF PersistEvent, Streaming, Reporting
      <4>3. CASE StreamRaises(p)
        BY <1>t, <4>1, <4>3 DEF StreamRaises, Reporting
      <4>4. CASE StreamEnds(p)
        BY <1>t, <4>1, <4>4 DEF StreamEnds, Reporting
      <4>5. QED
        BY <2>3, <4>2, <4>3, <4>4
    <3>2. Silent(r) /\ row[r].status \notin {"completed", "failed"}
      BY <1>2, <2>2, <3>1 DEF On, Active
    <3>3. \A c \in Processes : Telling(c, r)' => Telling(c, r)
      BY <1>3, <3>1 DEF Telling, On
    <3>4. QED
      BY <3>1, <3>2, <3>3, SilentKept
  <2>4. CASE PersistTerminalEvent(p)
    <3>1. PICK s \in Terminal : Write(r, s) /\ Close(p, s)
      BY <1>2, <2>4 DEF PersistTerminalEvent
    <3>2. row'[r].status = s
      BY <3>1, WriteRow DEF TypeOK, Status
    <3>3. exec'[p].pc \in Reporting /\ exec'[p].outcome = s /\ exec'[p].run = r
      BY <1>2, <1>t, <3>1 DEF Close, Reporting, TypeOK
    <3>4. On(p, r, Active) /\ reported' = reported
      BY <1>2, <2>4 DEF PersistTerminalEvent, Streaming, On, Active
    <3>5. QED
      BY <1>3, <2>1, <2>2, <3>2, <3>3, <3>4, OutcomeTold
  <2>5. CASE StopStream(p)
    <3>1. Close(p, row[r].status) /\ row' = row /\ reported' = reported
      BY <1>2, <2>5 DEF StopStream
    <3>2. /\ exec'[p].pc \in Reporting /\ exec'[p].outcome = row'[r].status
          /\ exec'[p].run = r
      BY <1>2, <1>t, <3>1 DEF Close, Reporting, TypeOK
    <3>3. On(p, r, Active) /\ row[r].status \in Terminal \cup {"paused"}
      BY <1>2, <2>5 DEF StopStream, Streaming, On, Active, Halting, Terminal
    <3>4. QED
      BY <1>3, <2>1, <2>2, <3>1, <3>2, <3>3, OutcomeTold
  <2>6. CASE CompleteRun(p)
    <3>1. Write(r, "completed") /\ Close(p, "completed") /\ reported' = reported
      BY <1>2, <2>6 DEF CompleteRun
    <3>2. row'[r].status = "completed" /\ "completed" \in Terminal
      BY <3>1, WriteRow DEF TypeOK, Status, Terminal
    <3>3. exec'[p].pc \in Reporting /\ exec'[p].outcome = "completed" /\ exec'[p].run = r
      BY <1>2, <1>t, <3>1 DEF Close, Reporting, TypeOK
    <3>4. On(p, r, Active)
      BY <1>2, <2>6 DEF CompleteRun, On, Active
    <3>5. QED
      BY <1>3, <2>1, <2>2, <3>1, <3>2, <3>3, <3>4, OutcomeTold
  <2>7. CASE FailRun(p)
    <3>1. /\ On(p, r, Active) /\ reported' = reported
          /\ IF row[r].status \in Terminal THEN row' = row ELSE Write(r, "failed")
          /\ exec' = [exec EXCEPT ![p].pc = "report",
                        ![p].outcome = IF row[r].status \in Terminal
                                         THEN row[r].status ELSE "failed"]
      BY <1>2, <2>7 DEF FailRun, On, Active
    <3>2. /\ exec'[p].pc \in Reporting /\ exec'[p].run = r
          /\ exec'[p].outcome = IF row[r].status \in Terminal THEN row[r].status ELSE "failed"
      BY <1>2, <1>t, <3>1 DEF Reporting, TypeOK
    <3>3. row'[r].status = exec'[p].outcome /\ exec'[p].outcome \in Terminal
      <4>1. CASE row[r].status \in Terminal
        BY <3>1, <3>2, <4>1
      <4>2. CASE row[r].status \notin Terminal
        BY <3>1, <3>2, <4>2, WriteRow DEF TypeOK, Status, Terminal
      <4>3. QED
        BY <4>1, <4>2
    <3>4. QED
      BY <1>3, <2>1, <2>2, <3>1, <3>2, <3>3, OutcomeTold
  <2>8. CASE AbandonStream(p)
    <3>1. exec[p].pc \in Active /\ exec'[p] = Idle /\ row' = row /\ reported' = reported
      BY <2>8 DEF AbandonStream, Return, TypeOK
    <3>2. \A c \in Processes : On(c, r, Active)' => On(c, r, Active)
      BY <1>3, <3>1 DEF On, Idle, Active
    <3>3. \A c \in Processes :
            /\ Telling(c, r)' = Telling(c, r)
            /\ Telling(c, r)' => exec'[c].outcome = exec[c].outcome
      BY <1>3, <3>1 DEF On, Idle, Active, Telling, Reporting
    <3>4. QED
      BY <1>3, <2>1, <3>1, <3>2, <3>3, ToldKept
  <2>9. CASE AppendNotices(p)
    <3>1. /\ exec[p].pc = "closing" /\ row' = row /\ reported' = reported
          /\ \/ exec'[p] = Idle /\ ~Exists(r)
             \/ /\ exec'[p].pc = "report" /\ exec'[p].outcome = exec[p].outcome
                /\ exec'[p].run = r
      BY <1>2, <1>t, <2>9 DEF AppendNotices, Return, TypeOK
    <3>2. \A c \in Processes : On(c, r, Active)' => On(c, r, Active)
      BY <1>3, <3>1 DEF On, Idle, Active
    <3>3. \A c \in Processes :
             Telling(c, r)' => Telling(c, r) /\ exec'[c].outcome = exec[c].outcome
      BY <1>2, <1>3, <3>1 DEF On, Idle, Telling, Reporting
    <3>4. \A c \in Processes \ {p} : Telling(c, r) => Telling(c, r)'
      BY <1>3 DEF Telling, On
    <3>5. Telling(p, r) => Telling(p, r)' \/ row'[r].status = "deleted"
      <4>1. CASE exec'[p].pc = "report" /\ exec'[p].outcome = exec[p].outcome
                   /\ exec'[p].run = r
        BY <4>1 DEF Telling, On, Reporting
      <4>2. CASE ~Exists(r)
        BY <2>1, <3>1, <4>2 DEF Told, Telling, Exists, Terminal
      <4>3. QED
        BY <3>1, <4>1, <4>2
    <3>6. QED
      BY <1>3, <2>1, <3>1, <3>2, <3>3, <3>4, <3>5, ToldKept
  <2>10. CASE ReportOutcome(p)
    <3>1. /\ On(p, r, Reporting) /\ exec'[p] = Idle /\ row' = row
          /\ reported'[r] = IF exec[p].outcome \in Terminal
                              THEN Append(reported[r], exec[p].outcome)
                              ELSE reported[r]
      BY <1>2, <2>10 DEF ReportOutcome, Return, On, TypeOK
    <3>2. \A c \in Processes : On(c, r, Active)' => On(c, r, Active)
      BY <1>3, <3>1 DEF On, Idle, Active
    <3>3. \A c \in Processes :
             Telling(c, r)' => Telling(c, r) /\ c # p /\ exec'[c].outcome = exec[c].outcome
      BY <1>3, <3>1 DEF On, Idle, Telling, Reporting
    <3>4. Executing(r)' => Executing(r)
      BY <3>2 DEF Executing
    <3>5. CASE exec[p].outcome \in Terminal
      <4>1. Telling(p, r)
        BY <3>1, <3>5 DEF Telling
      <4>2. \A c \in Processes : ~Telling(c, r)'
        BY <2>1, <3>3, <4>1 DEF Told
      <4>3. /\ Len(reported'[r]) = 1 /\ reported'[r] # <<>>
            /\ \A i \in DOMAIN reported'[r] : reported'[r][i] = exec[p].outcome
        <5>1. reported[r] = <<>>
          BY <2>1, <4>1 DEF Told
        <5>2. reported'[r] = Append(<<>>, exec[p].outcome)
          BY <3>1, <3>5, <5>1
        <5>3. QED
          BY <3>5, <5>2, AppendProperties, EmptySeq
      <4>4. row'[r].status \in {exec[p].outcome, "deleted"}
        BY <2>1, <3>1, <4>1 DEF Told
      <4>5. ~Executing(r)'
        BY <2>1, <3>4, <4>1 DEF Told, Silent
      <4>6. ToldAtAll(r)'
        BY <4>3 DEF ToldAtAll
      <4>7. QED
        BY <4>2, <4>3, <4>4, <4>5, <4>6 DEF Told
    <3>6. CASE exec[p].outcome \notin Terminal
      <4>1. \A c \in Processes : Telling(c, r) => Telling(c, r)'
        BY <1>3, <3>6 DEF Telling, On
      <4>2. QED
        BY <1>3, <2>1, <3>1, <3>2, <3>3, <3>6, <4>1, ToldKept
    <3>7. QED
      BY <3>5, <3>6
  <2>11. QED
    BY <2>3, <2>4, <2>5, <2>6, <2>7, <2>8, <2>9, <2>10 DEF StreamStep
<1>7. QED
  BY <1>3, <1>5, <1>6, StreamLocks

LEMMA OtherReports ==
  ASSUME ReportInv,
         \/ \E p \in Operators, r \in Runs : Recover(p, r)
         \/ \E p \in Processes : Crash(p) \/ LoseCall(p)
  PROVE  ReportInv'
<1> USE DEF ReportInv
<1>l. LockInv' /\ TypeOK
  BY OtherLocks DEF LockInv
<1>1. ASSUME NEW p \in Operators, NEW r \in Runs, Recover(p, r)  PROVE ReportInv'
  <2>1. /\ p \in Processes /\ row[r].status = "running" /\ exec[p] = Idle
        /\ UNCHANGED <<overlapped, reported>>
        /\ untold \subseteq untold'
    BY <1>1 DEF Recover, Processes
  <2>2. \A q \in Runs \ {r} : row'[q] = row[q]
    BY <1>1, <1>l DEF Recover, Write, TypeOK
  <2>3. \/ exec' = exec
        \/ /\ exec'[p].pc = "stream" /\ exec'[p].run = r
           /\ \A q \in Processes \ {p} : exec'[q] = exec[q]
    <3>1. exec' = exec \/ StartStream(p, r)
      BY <1>1 DEF Recover
    <3>2. QED
      BY <1>l, <2>1, <3>1, StreamStarts
  <2>4. ASSUME Told(r)  PROVE Told(r)'
    <3>1. Silent(r)
      BY <1>l, <2>1, <2>4, NotYetTold DEF Terminal
    <3>2. row'[r].status # "completed" /\ (row'[r].status = "failed" => r \in untold')
      BY <1>1, <1>l, <2>1, WriteRow DEF Recover, TypeOK, Status, Rows
    <3>3. \A c \in Processes : Telling(c, r)' => Telling(c, r)
      BY <2>3 DEF Telling, On, Reporting
    <3>4. QED
      BY <2>1, <3>1, <3>2, <3>3, SilentKept
  <2>5. ASSUME NEW q \in Runs \ {r}, Told(q)  PROVE Told(q)'
    <3>1. \A c \in Processes : On(c, q, Active)' => On(c, q, Active)
      BY <2>3 DEF On
    <3>2. \A c \in Processes :
            /\ Telling(c, q)' = Telling(c, q)
            /\ Telling(c, q)' => exec'[c].outcome = exec[c].outcome
      BY <2>1, <2>3 DEF Telling, On, Reporting, Idle
    <3>3. QED
      BY <2>1, <2>2, <2>5, <3>1, <3>2, ToldKept
  <2>6. QED
    BY <1>l, <2>1, <2>4, <2>5
<1>2. ASSUME NEW p \in Processes, Crash(p) \/ LoseCall(p)  PROVE ReportInv'
  <2>1. /\ \A q \in Processes : exec'[q] = exec[q] \/ exec'[q] = Idle
        /\ UNCHANGED <<row, overlapped, reported>>
    BY <1>2, <1>l DEF Crash, LoseCall, Return, dbVars, TypeOK
  <2>2. /\ untold \subseteq untold'
        /\ \A q \in Processes \ {p} : exec'[q] = exec[q]
    BY <1>2, <1>l DEF Crash, LoseCall, Return, TypeOK
  <2>3. \A q \in Runs : On(p, q, Reporting) => q \in untold'
    BY <1>2 DEF Crash, LoseCall, On, Reporting
  <2>4. ASSUME NEW q \in Runs, Told(q)  PROVE Told(q)'
    <3>1. \A c \in Processes : On(c, q, Active)' => On(c, q, Active)
      BY <2>1 DEF On, Idle, Active
    <3>2. \A c \in Processes :
             Telling(c, q)' => Telling(c, q) /\ exec'[c].outcome = exec[c].outcome
      BY <2>1 DEF On, Idle, Telling, Reporting
    <3>3. \A c \in Processes : Telling(c, q) => Telling(c, q)' \/ q \in untold'
      BY <2>2, <2>3 DEF Telling, On
    <3>4. QED
      BY <2>1, <2>2, <2>4, <3>1, <3>2, <3>3, ToldKept
  <2>5. QED
    BY <1>l, <2>1, <2>4
<1>3. QED
  BY <1>1, <1>2

\* Hermes and the terminal hooks are told once, and what the row says, unless
\* the run was queued again under its executor; a run that completed or failed
\* is told of, unless a crash, a lost call or a recovery took the report away.
THEOREM ReportsTrue == Spec => []ReportsAgree
<1>1. Init => ReportInv
  <2>1. ASSUME Init, NEW r \in Runs  PROVE Told(r)
    <3>1. reported[r] = <<>> /\ row[r].status = "none"
      BY <2>1 DEF Init
    <3>2. \A p \in Processes : exec[p].run # r
      BY <2>1, RunAssumption DEF Init, Idle
    <3>3. QED
      BY <3>1, <3>2 DEF Told, Telling, On, Executing, ToldAtAll
  <2>2. QED
    BY <2>1, InitLocks DEF ReportInv
<1>2. ReportInv /\ [Next]_vars => ReportInv'
  <2>1. CASE UNCHANGED vars
    BY <2>1, NextLocks DEF vars, ReportInv, Told, Silent, Telling, ToldAtAll, On,
                           Executing
  <2>2. CASE Next
    BY <2>2, UserReports, LoopReports, StreamReports, OtherReports DEF Next
  <2>3. QED
    BY <2>1, <2>2
<1>3. ReportInv => ReportsAgree
  BY DEF ReportInv, Told, ToldOnce, ReportsAgree, Exists
<1>4. QED
  BY <1>1, <1>2, <1>3, PTL DEF Spec

(***************************************************************************)
(* Events.                                                                 *)
(***************************************************************************)
Engaged == Active \cup {"closing"}      \* the calls that may still write events

\* A run no worker has claimed yet.
Unstarted(r) ==
    \/ row[r].status \in {"none", "waiting_user_mode"}
    \/ row[r].status = "waiting_approval" /\ row[r].approval = "none"
    \/ row[r].status = "queued" /\ r \notin resumed

Unengaged(r) == \A p \in Processes : ~On(p, r, Engaged)

Fresh(r) == log[r] = 0 /\ checkpoint[r] = 0 /\ Unengaged(r)

Past == Terminal \cup {"paused", "deleted"}

\* One call writes the events of a run, numbers what follows the log, and
\* once it closes the run is not taken up again.
Alone(r) ==
    /\ \A p, q \in Processes : On(p, r, Engaged) /\ On(q, r, Engaged) => p = q
    /\ \A p \in Processes : On(p, r, {"closing"}) => row[r].status \in Past
    /\ \A p \in Processes : On(p, r, {"stream"}) => log[r] < exec[p].seq

EventInv ==
    /\ TypeOK
    /\ \A r \in Runs : Unstarted(r) => Fresh(r)
    /\ \A r \in Runs \ resumed : Alone(r)

LEMMA FreshKept ==
  ASSUME NEW r \in Runs, Unstarted(r) => Fresh(r), Unstarted(r)' => Unstarted(r),
         log'[r] \in {log[r], 0}, checkpoint'[r] \in {checkpoint[r], 0},
         \A p \in Processes : On(p, r, Engaged)' => On(p, r, Engaged)
  PROVE  Unstarted(r)' => Fresh(r)'
<1>1. SUFFICES ASSUME Unstarted(r)'  PROVE Fresh(r)'
  OBVIOUS
<1>2. Fresh(r)
  BY <1>1
<1>3. Unengaged(r)'
  BY <1>2 DEF Fresh, Unengaged
<1>4. QED
  BY <1>2, <1>3 DEF Fresh

LEMMA AloneKept ==
  ASSUME TypeOK, NEW r \in Runs, Alone(r), log'[r] \in {log[r], 0},
         row[r].status \in Past => row'[r].status \in Past,
         \A p \in Processes : On(p, r, Engaged)' => exec'[p] = exec[p]
  PROVE  Alone(r)'
<1>1. \A p \in Processes : On(p, r, Engaged)' => On(p, r, Engaged)
  BY DEF On
<1>2. \A p \in Processes : On(p, r, {"closing"})' => On(p, r, {"closing"})
  BY DEF On, Engaged
<1>3. \A p \in Processes : On(p, r, {"stream"})' => On(p, r, {"stream"}) /\ exec'[p] = exec[p]
  BY DEF On, Engaged, Active
<1>4. ASSUME NEW p \in Processes, On(p, r, {"stream"})'  PROVE log'[r] < exec'[p].seq
  <2>1. log[r] < exec[p].seq /\ exec'[p] = exec[p]
    BY <1>3, <1>4 DEF Alone
  <2>2. exec[p].seq \in Nat /\ log[r] \in Nat
    BY <1>3, <1>4, BusyCall DEF On, TypeOK
  <2>3. QED
    BY <2>1, <2>2
<1>5. QED
  BY <1>1, <1>2, <1>4 DEF Alone

\* The call of r that writes is the only one: what it leaves is alone again.
LEMMA AloneAgain ==
  ASSUME NEW r \in Runs, Alone(r), NEW p \in Processes, On(p, r, Engaged),
         \A q \in Processes \ {p} : exec'[q] = exec[q],
         On(p, r, {"closing"})' => row'[r].status \in Past,
         On(p, r, {"stream"})' => log'[r] < exec'[p].seq
  PROVE  Alone(r)'
<1>1. \A q \in Processes : On(q, r, Engaged)' => q = p
  BY DEF Alone, On
<1>2. QED
  BY <1>1 DEF Alone, On, Engaged, Active

LEMMA UserEvents ==
  ASSUME EventInv, NEW r \in Runs, UserStep(r)
  PROVE  EventInv'
<1> USE DEF EventInv, dbVars, memVars, historyVars
<1>d. UserStep(r) =>
        \/ SubmitQueued(r) \/ SubmitWaiting(r)
        \/ ChooseMode(r) /\ Requeue(r)
        \/ DecideTemporaryAgent(r) /\ Requeue(r)
        \/ Resume(r) /\ Requeue(r)
        \/ Pause(r) \/ Cancel(r) \/ DeleteRun(r)
        \/ BeginCapabilityApproval(r) \/ ResolveCapabilityApproval(r)
  BY DEF UserStep, ChooseMode, DecideTemporaryAgent, Resume
<1>t. TypeOK'
  BY UserTypes
<1>1. /\ UNCHANGED exec
      /\ \A q \in Runs \ {r} : row'[q] = row[q]
      /\ \A q \in Runs : log'[q] \in {log[q], 0} /\ checkpoint'[q] \in {checkpoint[q], 0}
      /\ resumed \subseteq resumed'
  BY <1>d DEF SubmitQueued, SubmitWaiting, SubmitAs, Requeue, Pause, Cancel,
              DeleteRun, BeginCapabilityApproval, ResolveCapabilityApproval,
              Write, TypeOK
<1>2. Unstarted(r)' => Unstarted(r)
  <2>1. CASE SubmitQueued(r) \/ SubmitWaiting(r)
    BY <2>1 DEF SubmitQueued, SubmitWaiting, SubmitAs, Unstarted
  <2>2. CASE (ChooseMode(r) \/ DecideTemporaryAgent(r) \/ Resume(r)) /\ Requeue(r)
    <3>1. row[r].approval \in {"none", "pending"}
      BY DEF TypeOK, Rows, Approvals
    <3>2. row'[r].status = "queued"
      BY <2>2, WriteRow DEF Requeue, TypeOK, Status
    <3>3. row[r].status \in {"waiting_user_mode", "waiting_approval", "paused"}
      BY <2>2 DEF ChooseMode, DecideTemporaryAgent, Resume
    <3>4. row[r].status = "paused" \/ AwaitsApproval(r) => r \in resumed'
      BY <2>2 DEF Requeue
    <3>5. QED
      BY <3>1, <3>2, <3>3, <3>4 DEF Unstarted, AwaitsApproval
  <2>3. CASE Pause(r) \/ Cancel(r)
    BY <2>3, WriteRow DEF Pause, Cancel, TypeOK, Status, Terminal, Unstarted
  <2>4. CASE DeleteRun(r) \/ BeginCapabilityApproval(r) \/ ResolveCapabilityApproval(r)
    BY <2>4 DEF DeleteRun, BeginCapabilityApproval, ResolveCapabilityApproval,
                TypeOK, Rows, Unstarted
  <2>5. QED
    BY <1>d, <2>1, <2>2, <2>3, <2>4
<1>3. row[r].status \in Past => row'[r].status \in Past \/ r \in resumed'
  <2>1. CASE SubmitQueued(r) \/ SubmitWaiting(r) \/ ChooseMode(r) \/ DecideTemporaryAgent(r)
    BY <2>1 DEF SubmitQueued, SubmitWaiting, SubmitAs, ChooseMode,
                DecideTemporaryAgent, Past, Terminal
  <2>2. CASE Resume(r) /\ Requeue(r)
    BY <2>2 DEF Resume, Requeue
  <2>3. CASE Pause(r) \/ Cancel(r)
    BY <2>3, WriteRow DEF Pause, Cancel, TypeOK, Status, Terminal, Past
  <2>4. CASE DeleteRun(r) \/ BeginCapabilityApproval(r) \/ ResolveCapabilityApproval(r)
    BY <2>4 DEF DeleteRun, BeginCapabilityApproval, ResolveCapabilityApproval,
                AwaitsApproval, TypeOK, Rows, Past, Terminal
  <2>5. QED
    BY <1>d, <2>1, <2>2, <2>3, <2>4
<1>4. ASSUME NEW q \in Runs  PROVE Unstarted(q)' => Fresh(q)'
  <2>1. Unstarted(q)' => Unstarted(q)
    BY <1>1, <1>2 DEF Unstarted
  <2>2. QED
    BY <1>1, <2>1, FreshKept DEF On
<1>5. ASSUME NEW q \in Runs \ resumed'  PROVE Alone(q)'
  <2>1. Alone(q)
    BY <1>1
  <2>2. row[q].status \in Past => row'[q].status \in Past
    BY <1>1, <1>3
  <2>3. QED
    BY <1>1, <2>1, <2>2, AloneKept DEF On
<1>6. QED
  BY <1>t, <1>4, <1>5

LEMMA LoopEvents ==
  ASSUME EventInv, NEW w \in Workers, LoopStep(w)
  PROVE  EventInv'
<1> USE DEF EventInv, dbVars, historyVars
<1>t. TypeOK'
  BY LoopTypes
<1>p. w \in Processes
  BY DEF Processes
<1>o. UNCHANGED <<log, checkpoint, resumed>>
  BY DEF LoopStep, Deliver, DeliverUncommitted, StartDrain, TakeNext, DrainDone,
         ClaimForExecution, ClaimRefused
<1>1. CASE ~ClaimForExecution(w)
  <2>1. /\ UNCHANGED row
        /\ \A q \in Processes :
             exec'[q] = exec[q] \/ exec'[q].pc \in {"idle", "claim"}
    BY <1>1, <1>p DEF LoopStep, Deliver, DeliverUncommitted, StartDrain,
         TakeNext, DrainDone, ClaimRefused, Return, Idle, TypeOK
  <2>2. ASSUME NEW q \in Runs, NEW c \in Processes, On(c, q, Engaged)'
        PROVE  exec'[c] = exec[c] /\ On(c, q, Engaged)
    BY <2>1, <2>2 DEF On, Engaged, Active
  <2>3. ASSUME NEW q \in Runs  PROVE Unstarted(q)' => Fresh(q)'
    <3>1. Unstarted(q)' => Unstarted(q)
      BY <1>o, <2>1 DEF Unstarted
    <3>2. QED
      BY <1>o, <2>2, <3>1, FreshKept
  <2>4. ASSUME NEW q \in Runs \ resumed  PROVE Alone(q)'
    BY <1>o, <2>1, <2>2, AloneKept
  <2>5. QED
    BY <1>t, <1>o, <2>3, <2>4
<1>2. CASE ClaimForExecution(w)
  <2>1. PICK r \in Runs : r = exec[w].run
    BY <1>2, <1>p, BusyCall DEF ClaimForExecution
  <2>2. /\ exec'[w].pc = "stream" /\ exec'[w].run = r
        /\ \A q \in Processes \ {w} : exec'[q] = exec[q]
    BY <1>2, <1>p, <2>1, StreamStarts DEF ClaimForExecution
  <2>3. /\ row[r].status = "queued" /\ row'[r].status = "running"
        /\ \A q \in Runs \ {r} : row'[q] = row[q]
    BY <1>2, <2>1, WriteRow DEF ClaimForExecution, Claimable, Status, TypeOK
  <2>4. ASSUME NEW q \in Runs \ {r}, NEW c \in Processes, On(c, q, Engaged)'
        PROVE  exec'[c] = exec[c] /\ On(c, q, Engaged)
    BY <2>2, <2>4 DEF On
  <2>5. ASSUME NEW q \in Runs  PROVE Unstarted(q)' => Fresh(q)'
    <3>1. CASE q = r
      BY <2>3, <3>1 DEF Unstarted
    <3>2. CASE q # r
      <4>1. Unstarted(q)' => Unstarted(q)
        BY <1>o, <2>3, <3>2 DEF Unstarted
      <4>2. QED
        BY <1>o, <2>4, <3>2, <4>1, FreshKept
    <3>3. QED
      BY <3>1, <3>2
  <2>6. ASSUME r \notin resumed  PROVE Alone(r)'
    <3>1. Fresh(r)
      BY <2>3, <2>6 DEF Unstarted
    <3>2. exec'[w].seq = 1
      BY <1>2, <1>p, <2>1, <3>1 DEF ClaimForExecution, StartStream, Fresh, TypeOK
    <3>3. \A c \in Processes : On(c, r, Engaged)' => c = w
      BY <2>2, <3>1 DEF Fresh, Unengaged, On
    <3>4. ~On(w, r, {"closing"})'
      BY <2>2 DEF On
    <3>5. log'[r] < exec'[w].seq
      BY <1>o, <3>1, <3>2 DEF Fresh
    <3>6. QED
      BY <3>3, <3>4, <3>5 DEF Alone, On, Engaged, Active
  <2>7. ASSUME NEW q \in Runs \ resumed, q # r  PROVE Alone(q)'
    BY <1>o, <2>3, <2>4, <2>7, AloneKept
  <2>8. QED
    BY <1>t, <1>o, <2>5, <2>6, <2>7
<1>3. QED
  BY <1>1, <1>2

\* Where a step of a call leaves it: only three of them lead to the closing
\* phase, and only persisting an event stays in the stream.
LEMMA StreamPc ==
  ASSUME TypeOK, NEW p \in Processes, StreamStep(p),
         exec[p] \in [pc : Pcs, run : Runs, seq : Nat,
                      outcome : Terminal \cup {"none", "paused"}]
  PROVE  /\ exec'[p].pc = "closing" =>
              PersistTerminalEvent(p) \/ StopStream(p) \/ CompleteRun(p)
         /\ exec'[p].pc = "stream" => PersistEvent(p)
<1>1. exec \in [Processes -> Calls]
  BY DEF TypeOK
<1>2. CASE PersistEvent(p)
  <2>1. exec'[p].pc = "stream"
    BY <1>1, <1>2 DEF PersistEvent, Streaming
  <2>2. QED
    BY <1>2, <2>1
<1>3. CASE PersistTerminalEvent(p)
  <2>1. exec'[p].pc = "closing"
    BY <1>1, <1>3 DEF PersistTerminalEvent, Close
  <2>2. QED
    BY <1>3, <2>1
<1>4. CASE StopStream(p)
  <2>1. exec'[p].pc = "closing"
    BY <1>1, <1>4 DEF StopStream, Close
  <2>2. QED
    BY <1>4, <2>1
<1>5. CASE AbandonStream(p)
  <2>1. exec'[p].pc = "idle"
    BY <1>1, <1>5 DEF AbandonStream, Return, Idle
  <2>2. QED
    BY <2>1
<1>6. CASE StreamRaises(p)
  <2>1. exec'[p].pc = "failing"
    BY <1>1, <1>6 DEF StreamRaises
  <2>2. QED
    BY <2>1
<1>7. CASE FailRun(p)
  <2>1. exec'[p].pc = "report"
    BY <1>1, <1>7 DEF FailRun
  <2>2. QED
    BY <2>1
<1>8. CASE StreamEnds(p)
  <2>1. exec'[p].pc = "ended"
    BY <1>1, <1>8 DEF StreamEnds
  <2>2. QED
    BY <2>1
<1>9. CASE CompleteRun(p)
  <2>1. exec'[p].pc = "closing"
    BY <1>1, <1>9 DEF CompleteRun, Close
  <2>2. QED
    BY <1>9, <2>1
<1>10. CASE AppendNotices(p)
  <2>1. exec'[p].pc \in {"report", "idle"}
    BY <1>1, <1>10 DEF AppendNotices, Return, Idle
  <2>2. QED
    BY <2>1
<1>11. CASE ReportOutcome(p)
  <2>1. exec'[p].pc = "idle"
    BY <1>1, <1>11 DEF ReportOutcome, Return, Idle
  <2>2. QED
    BY <2>1
<1>12. QED
  BY <1>2, <1>3, <1>4, <1>5, <1>6, <1>7, <1>8, <1>9, <1>10, <1>11
     DEF StreamStep

LEMMA StreamEvents ==
  ASSUME EventInv, NEW p \in Processes, StreamStep(p)
  PROVE  EventInv'
<1> USE DEF EventInv, dbVars, historyVars
<1>y. TypeOK'
  BY StreamTypes
<1>1. exec[p].pc # "idle"
  BY DEF StreamStep, PersistEvent, PersistTerminalEvent, StopStream, Streaming,
         AbandonStream, Active, StreamRaises, FailRun, StreamEnds, CompleteRun,
         AppendNotices, ReportOutcome, Reporting
<1>2. PICK r \in Runs : r = exec[p].run
  BY <1>1, BusyCall
<1>t. exec[p] \in [pc : Pcs, run : Runs, seq : Nat, outcome : Terminal \cup {"none", "paused"}]
  BY <1>1, BusyCall
<1>3. /\ \A q \in Processes \ {p} : exec'[q] = exec[q]
      /\ \A q \in Runs \ {r} :
           row'[q] = row[q] /\ log'[q] = log[q] /\ checkpoint'[q] = checkpoint[q]
      /\ UNCHANGED resumed
  BY <1>2, <1>t, StreamFrame
<1>4. exec'[p] = Idle \/ exec'[p].run = r
  BY <1>2, <1>t, StreamFrame
<1>5. ASSUME NEW q \in Runs \ {r}
      PROVE  (Unstarted(q)' => Fresh(q)') /\ (Alone(q) => Alone(q)')
  <2>1. ASSUME NEW c \in Processes, On(c, q, Engaged)'
        PROVE  exec'[c] = exec[c] /\ On(c, q, Engaged)
    BY <1>3, <1>4, <2>1 DEF On, Idle, Engaged, Active
  <2>2. Unstarted(q)' => Unstarted(q)
    BY <1>3 DEF Unstarted
  <2>3. QED
    BY <1>3, <2>1, <2>2, FreshKept, AloneKept
<1>6. CASE exec[p].pc = "report"
  <2>1. exec'[p] = Idle /\ UNCHANGED dbVars
    BY <1>6 DEF StreamStep, PersistEvent, PersistTerminalEvent, StopStream,
         Streaming, AbandonStream, Active, StreamRaises, FailRun, StreamEnds,
         CompleteRun, AppendNotices, ReportOutcome, Return, TypeOK
  <2>2. ASSUME NEW c \in Processes, On(c, r, Engaged)'
        PROVE  exec'[c] = exec[c] /\ On(c, r, Engaged)
    BY <1>3, <2>1, <2>2 DEF On, Idle, Engaged, Active
  <2>3. Unstarted(r)' => Unstarted(r)
    BY <1>3, <2>1 DEF Unstarted
  <2>4. (Unstarted(r)' => Fresh(r)') /\ (Alone(r) => Alone(r)')
    BY <2>1, <2>2, <2>3, FreshKept, AloneKept
  <2>5. QED
    BY <1>y, <1>3, <1>5, <2>4
<1>7. CASE exec[p].pc # "report"
  <2>1. On(p, r, Engaged)
    BY <1>2, <1>7 DEF StreamStep, PersistEvent, PersistTerminalEvent, StopStream,
         Streaming, AbandonStream, Active, StreamRaises, FailRun, StreamEnds,
         CompleteRun, AppendNotices, ReportOutcome, Reporting, On, Engaged
  <2>2. ~Unstarted(r)
    BY <2>1 DEF Fresh, Unengaged
  <2>3. \/ row'[r] = row[r]
        \/ row'[r].status \in Terminal
    <3>1. CASE UNCHANGED row
      BY <3>1
    <3>2. CASE PersistTerminalEvent(p)
      <4>1. PICK s \in Terminal : Write(r, s)
        BY <1>2, <3>2 DEF PersistTerminalEvent
      <4>2. QED
        BY <4>1, WriteRow DEF TypeOK, Status
    <3>3. CASE FailRun(p)
      BY <1>2, <3>3, WriteRow DEF FailRun, TypeOK, Status, Terminal
    <3>4. CASE CompleteRun(p)
      BY <1>2, <3>4, WriteRow DEF CompleteRun, TypeOK, Status, Terminal
    <3>5. QED
      BY <3>1, <3>2, <3>3, <3>4 DEF StreamStep, PersistEvent, StopStream,
         AbandonStream, StreamRaises, StreamEnds, AppendNotices, ReportOutcome
  <2>4. ~Unstarted(r)'
    BY <1>3, <2>2, <2>3 DEF Unstarted, Terminal
  <2>5. ASSUME r \notin resumed  PROVE Alone(r)'
    <3>1. Alone(r)
      BY <2>5
    <3>2. On(p, r, {"closing"})' => row'[r].status \in Past
      <4>1. CASE PersistTerminalEvent(p)
        BY <1>2, <4>1, WriteRow DEF PersistTerminalEvent, TypeOK, Status, Past
      <4>2. CASE StopStream(p)
        BY <1>2, <4>2 DEF StopStream, Streaming, Halting, Past, Terminal
      <4>3. CASE CompleteRun(p)
        BY <1>2, <4>3, WriteRow DEF CompleteRun, TypeOK, Status, Terminal, Past
      <4>4. CASE ~PersistTerminalEvent(p) /\ ~StopStream(p) /\ ~CompleteRun(p)
        <5>1. exec'[p].pc # "closing"
          BY <1>t, <4>4, StreamPc
        <5>2. QED
          BY <5>1 DEF On
      <4>5. QED
        BY <4>1, <4>2, <4>3, <4>4
    <3>3. On(p, r, {"stream"})' => log'[r] < exec'[p].seq
      <4>1. CASE PersistEvent(p)
        <5>1. log[r] < exec[p].seq
          BY <1>2, <3>1, <4>1 DEF PersistEvent, Streaming, Alone, On
        <5>2. exec[p].seq \in Nat /\ log[r] \in Nat
          BY <1>t DEF TypeOK
        <5>3. log'[r] = exec[p].seq
          BY <1>2, <4>1, <5>1, <5>2 DEF PersistEvent, Insert, TypeOK
        <5>4. exec'[p].seq = exec[p].seq + 1
          BY <1>t, <4>1 DEF PersistEvent, TypeOK
        <5>5. QED
          BY <5>2, <5>3, <5>4
      <4>2. CASE ~PersistEvent(p)
        <5>1. exec'[p].pc # "stream"
          BY <1>t, <4>2, StreamPc
        <5>2. QED
          BY <5>1 DEF On
      <4>3. QED
        BY <4>1, <4>2
    <3>4. QED
      BY <1>3, <2>1, <3>1, <3>2, <3>3, AloneAgain
  <2>6. QED
    BY <1>y, <1>3, <1>5, <2>4, <2>5
<1>8. QED
  BY <1>6, <1>7

\* Recovery goes on from a checkpoint that no event follows.
LEMMA OtherEvents ==
  ASSUME EventInv,
         \/ \E p \in Operators, r \in Runs : Recover(p, r)
         \/ \E p \in Processes : Crash(p) \/ LoseCall(p)
  PROVE  EventInv'
<1> USE DEF EventInv, dbVars
<1>t. TypeOK'
  BY NextTypes DEF Next
<1>1. ASSUME NEW p \in Operators, NEW r \in Runs, Recover(p, r)  PROVE EventInv'
  <2>1. /\ p \in Processes /\ row[r].status = "running" /\ exec[p] = Idle
        /\ ~Executing(r)
        /\ UNCHANGED <<log, checkpoint, resumed>>
    BY <1>1 DEF Recover, Processes
  <2>2. /\ \A q \in Runs \ {r} : row'[q] = row[q]
        /\ row'[r].status \in {"failed", "running"}
    BY <1>1 DEF Recover, Write, TypeOK, Rows
  <2>3. \/ exec' = exec
        \/ /\ ~Uncertain(r) /\ StartStream(p, r)
           /\ exec'[p].pc = "stream" /\ exec'[p].run = r
           /\ \A q \in Processes \ {p} : exec'[q] = exec[q]
    <3>1. exec' = exec \/ (~Uncertain(r) /\ StartStream(p, r))
      BY <1>1 DEF Recover
    <3>2. QED
      BY <2>1, <3>1, StreamStarts
  <2>4. ASSUME NEW q \in Runs \ {r}, NEW c \in Processes, On(c, q, Engaged)'
        PROVE  exec'[c] = exec[c] /\ On(c, q, Engaged)
    BY <2>3, <2>4 DEF On
  <2>5. ASSUME NEW q \in Runs  PROVE Unstarted(q)' => Fresh(q)'
    <3>1. CASE q = r
      BY <2>2, <3>1 DEF Unstarted
    <3>2. CASE q # r
      <4>1. Unstarted(q)' => Unstarted(q)
        BY <2>1, <2>2, <3>2 DEF Unstarted
      <4>2. QED
        BY <2>1, <2>4, <3>2, <4>1, FreshKept
    <3>3. QED
      BY <3>1, <3>2
  <2>6. ASSUME r \notin resumed  PROVE Alone(r)'
    <3>1. \A c \in Processes : ~On(c, r, Engaged)
      <4>1. \A c \in Processes : ~On(c, r, {"closing"})
        BY <2>1, <2>6 DEF Alone, Past, Terminal
      <4>2. \A c \in Processes : ~On(c, r, Active)
        BY <2>1 DEF Executing
      <4>3. QED
        BY <4>1, <4>2 DEF On, Engaged
    <3>2. CASE exec' = exec
      BY <3>1, <3>2 DEF Alone, On, Engaged, Active
    <3>3. CASE ~Uncertain(r) /\ StartStream(p, r)
      <4>1. PICK n \in {checkpoint[r] + 1, checkpoint[r] + 2} : exec'[p].seq = n
        BY <2>1, <3>3 DEF StartStream, TypeOK
      <4>2. log[r] \in Nat /\ checkpoint[r] \in Nat
        BY DEF TypeOK
      <4>3. log'[r] < exec'[p].seq
        BY <2>1, <3>3, <4>1, <4>2 DEF Uncertain
      <4>4. /\ exec'[p].pc = "stream" /\ exec'[p].run = r
            /\ \A q \in Processes \ {p} : exec'[q] = exec[q]
        BY <2>1, <3>3, StreamStarts
      <4>5. \A c \in Processes : On(c, r, Engaged)' => c = p
        BY <3>1, <4>4 DEF On
      <4>6. QED
        BY <4>3, <4>4, <4>5 DEF Alone, On, Engaged, Active
    <3>4. QED
      BY <2>3, <3>2, <3>3
  <2>7. ASSUME NEW q \in Runs \ resumed, q # r  PROVE Alone(q)'
    BY <2>1, <2>2, <2>4, <2>7, AloneKept
  <2>8. QED
    BY <1>t, <2>1, <2>5, <2>6, <2>7
<1>2. ASSUME NEW p \in Processes, Crash(p) \/ LoseCall(p)  PROVE EventInv'
  <2>1. /\ \A q \in Processes : exec'[q] = exec[q] \/ exec'[q] = Idle
        /\ UNCHANGED <<row, log, checkpoint, resumed>>
    BY <1>2 DEF Crash, LoseCall, Return, TypeOK
  <2>2. ASSUME NEW q \in Runs, NEW c \in Processes, On(c, q, Engaged)'
        PROVE  exec'[c] = exec[c] /\ On(c, q, Engaged)
    BY <2>1, <2>2 DEF On, Idle, Engaged, Active
  <2>3. ASSUME NEW q \in Runs  PROVE Unstarted(q)' => Fresh(q)'
    <3>1. Unstarted(q)' => Unstarted(q)
      BY <2>1 DEF Unstarted
    <3>2. QED
      BY <2>1, <2>2, <3>1, FreshKept
  <2>4. ASSUME NEW q \in Runs \ resumed  PROVE Alone(q)'
    BY <2>1, <2>2, <2>4, AloneKept
  <2>5. QED
    BY <1>t, <2>1, <2>3, <2>4
<1>3. QED
  BY <1>1, <1>2

\* No executor of a run that was never paused and resumed writes an event
\* under a number the log has, whatever crashes and recoveries came between.
THEOREM EventsUnique == Spec => []NoEventReplayed
<1>1. Init => EventInv
  BY InitTypes DEF Init, EventInv, Fresh, Unengaged, Alone, On, Idle, Engaged, Active
<1>2. EventInv /\ [Next]_vars => EventInv'
  <2>1. CASE UNCHANGED vars
    BY <2>1, NextTypes DEF vars, EventInv, Unstarted, Fresh, Unengaged, Alone, On
  <2>2. CASE Next
    BY <2>2, UserEvents, LoopEvents, StreamEvents, OtherEvents DEF Next, EventInv
  <2>3. QED
    BY <2>1, <2>2
<1>3. EventInv => NoEventReplayed
  <2>1. SUFFICES ASSUME EventInv, NEW p \in Processes,
                        exec[p].pc = "stream", exec[p].run \notin resumed
                 PROVE  log[exec[p].run] < exec[p].seq
    BY DEF NoEventReplayed
  <2>2. exec[p].run \in Runs
    BY <2>1, BusyCall DEF EventInv
  <2>3. QED
    BY <2>1, <2>2 DEF EventInv, Alone, On
<1>4. QED
  BY <1>1, <1>2, <1>3, PTL DEF Spec
=============================================================================
