------------------------ MODULE DispatchLedgerProofs ------------------------
(***************************************************************************)
(* What the checkpoints of a dispatch run are worth, for every plan, any   *)
(* number of retries, rounds and restarts: between a coordinator's ledger  *)
(* and the checkpoint the service has persisted lies a trail of ledgers,   *)
(* each valid, each going on from the one before it.                       *)
(***************************************************************************)
EXTENDS DispatchProofs, WellFoundedInduction

\* A step's call that the ledger knows the answer of.
Has(led, s, t, purpose, n) ==
    <<s, t.att, purpose, n>> \in Answered(led, s, t.att, purpose)

\* What the ledger knows of a step that has a task.
Placed(p, led, s, t) ==
    t.pc # "none" =>
      /\ s \in DOMAIN p.after \ led.done
      /\ p.after[s] \subseteq led.done
      /\ led.retry[s] <= t.att
      /\ t.idx > 0 => Has(led, s, t, "step", t.idx - 1)
      /\ t.pc \in {"tool", "tooling"} => Has(led, s, t, "step", t.idx)
      /\ t.pc = "tooling" /\ Spending(led) => led.tool[ToolKey(s, t)] = "running"
      /\ t.pc \in {"review", "reviewing", "done"} => Answered(led, s, t.att, "step") # {}
      /\ t.got > 0 => Has(led, s, t, "review", t.got - 1)
      /\ t.pc = "reviewing" => Cardinality(Answered(led, s, t.att, "review")) = t.got

\* A running coordinator's ledger.
Sound(p, r) ==
    r.pc = "run" => Valid(p, r.led) /\ \A s \in Steps : Placed(p, r.led, s, r.task[s])

\* Reading the queue q leads from the checkpoint d to the checkpoint l.
Trail(p, d, q, l) ==
    \E h \in [0..Len(q) -> Books] :
      /\ h[0] = d /\ h[Len(q)] = l
      /\ \A n \in 0..Len(q) : Valid(p, h[n])
      /\ \A n \in 1..Len(q) :
           /\ h[n] = IF q[n].kind = "checkpoint" THEN q[n].led ELSE h[n - 1]
           /\ Progressed(h[n - 1], h[n])

\* The ledger knows every call the coordinator made.
Covered(led, r) ==
    Spending(led) => /\ \A k \in r.asked : led.model[k] # "none"
                     /\ \A k \in r.ran : led.tool[k] # "none"

\* The queue leads from d to the ledger, and to the coordinator's calls.
Keeps(p, d, r) ==
    \E l \in Books : /\ Trail(p, d, r.queue, l)
                     /\ r.pc = "run" => l = r.led
                     /\ Covered(l, r)

LedgerInv ==
    /\ \A i \in Instances :
         /\ Sound(plan, rt[i])
         /\ \/ rt[i].pc # "run" /\ rt[i].queue = <<>>
            \/ \E d \in Books : Keeps(plan, d, rt[i])
    /\ reader # 0 => reader = starts /\ status = "running"
    /\ status = "completed" => starts # 0 /\ reader = 0
    /\ reader # 0 \/ status = "completed" => Keeps(plan, durable, rt[starts])
    /\ Valid(plan, durable)

(***************************************************************************)
(* Trails.                                                                 *)
(***************************************************************************)
LEMMA LedgerTypes ==
  ASSUME NEW l \in Books
  PROVE  /\ l.spent \in Nat /\ l.done \subseteq Steps /\ l.phase \in Phases
         /\ \A s \in Steps : l.retry[s] \in Nat /\ l.retry[s] \in Attempts
         /\ \A k \in ModelKeys : l.model[k] \in States
         /\ \A k \in ToolKeys : l.tool[k] \in ToolStates
BY Bounds DEF Books, Ledgers, Phases, Attempts, States, ToolStates

LEMMA ProgressedItself == ASSUME NEW l \in Books PROVE Progressed(l, l)
BY LedgerTypes DEF Progressed

LEMMA TrailStarts ==
  ASSUME NEW p, NEW d \in Books, Valid(p, d)
  PROVE  Trail(p, d, <<>>, d)
<1> DEFINE h == [n \in 0..0 |-> d]
<1>1. h \in [0..Len(<<>>) -> Books] /\ h[0] = d /\ Len(<<>>) = 0
  OBVIOUS
<1>2. \A n \in 0..0 : h[n] = d
  OBVIOUS
<1> HIDE DEF h
<1>3. QED
  BY <1>1, <1>2 DEF Trail

LEMMA TrailEnds ==
  ASSUME NEW p, NEW d, NEW l, Trail(p, d, <<>>, l)
  PROVE  d = l
BY DEF Trail

LEMMA TrailSteps ==
  ASSUME NEW p, NEW d, NEW l \in Books, NEW q \in Seq(BookItems), NEW e \in BookItems,
         NEW m \in Books, m = IF e.kind = "checkpoint" THEN e.led ELSE l,
         Trail(p, d, q, l), Valid(p, m), Progressed(l, m)
  PROVE  Trail(p, d, Append(q, e), m)
<1>1. PICK h \in [0..Len(q) -> Books] :
        /\ h[0] = d /\ h[Len(q)] = l
        /\ \A n \in 0..Len(q) : Valid(p, h[n])
        /\ \A n \in 1..Len(q) :
             /\ h[n] = IF q[n].kind = "checkpoint" THEN q[n].led ELSE h[n - 1]
             /\ Progressed(h[n - 1], h[n])
  BY DEF Trail
<1> DEFINE z == Append(q, e)
           g == [n \in 0..(Len(q) + 1) |-> IF n = Len(q) + 1 THEN m ELSE h[n]]
<1>2. /\ Len(q) \in Nat /\ Len(z) = Len(q) + 1 /\ z[Len(q) + 1] = e
      /\ \A n \in 1..Len(q) : z[n] = q[n]
  OBVIOUS
<1>3. /\ g \in [0..Len(z) -> Books] /\ g[Len(z)] = m
      /\ \A n \in 0..Len(q) : g[n] = h[n]
  BY <1>2
<1> HIDE DEF g, z
<1>4. g[0] = d /\ \A n \in 0..Len(z) : Valid(p, g[n])
  <2>1. 0 \in 0..Len(q)
    BY <1>2
  <2>2. \A n \in 0..Len(z) : n \in 0..Len(q) \/ n = Len(z)
    BY <1>2
  <2>3. QED
    BY <1>1, <1>3, <2>1, <2>2
<1>5. ASSUME NEW n \in 1..Len(z)
      PROVE  /\ g[n] = IF z[n].kind = "checkpoint" THEN z[n].led ELSE g[n - 1]
             /\ Progressed(g[n - 1], g[n])
  <2>1. CASE n = Len(z)
    <3>1. g[n] = m /\ g[n - 1] = l /\ z[n] = e
      BY <1>1, <1>2, <1>3, <2>1
    <3>2. QED
      BY <3>1
  <2>2. CASE n # Len(z)
    <3>1. n \in 1..Len(q) /\ n \in 0..Len(q) /\ n - 1 \in 0..Len(q)
      BY <1>2, <2>2
    <3>2. g[n] = h[n] /\ g[n - 1] = h[n - 1] /\ z[n] = q[n]
      BY <1>2, <1>3, <3>1
    <3>3. QED
      BY <1>1, <3>1, <3>2
  <2>3. QED
    BY <2>1, <2>2
<1>6. Trail(p, d, z, m)
  BY <1>3, <1>4, <1>5 DEF Trail
<1>7. QED
  BY <1>6 DEF z

LEMMA TrailRead ==
  ASSUME NEW p, NEW d, NEW l, NEW q \in Seq(BookItems), q # <<>>, Trail(p, d, q, l)
  PROVE  LET e == Head(q)
             m == IF e.kind = "checkpoint" THEN e.led ELSE d
         IN  m \in Books /\ Trail(p, m, Tail(q), l) /\ Progressed(d, m) /\ Valid(p, m)
<1>1. PICK h \in [0..Len(q) -> Books] :
        /\ h[0] = d /\ h[Len(q)] = l
        /\ \A n \in 0..Len(q) : Valid(p, h[n])
        /\ \A n \in 1..Len(q) :
             /\ h[n] = IF q[n].kind = "checkpoint" THEN q[n].led ELSE h[n - 1]
             /\ Progressed(h[n - 1], h[n])
  BY DEF Trail
<1> DEFINE e == Head(q)
           m == IF e.kind = "checkpoint" THEN e.led ELSE d
           z == Tail(q)
           g == [n \in 0..(Len(q) - 1) |-> h[n + 1]]
<1>2. /\ Len(q) \in Nat \ {0} /\ Len(z) = Len(q) - 1 /\ e = q[1]
      /\ \A n \in 1..Len(z) : z[n] = q[n + 1]
  OBVIOUS
<1>3. h[1] = m /\ Progressed(d, m) /\ Valid(p, m) /\ m \in Books
  <2>1. 1 \in 1..Len(q) /\ 1 \in 0..Len(q) /\ 1 - 1 = 0
    BY <1>2
  <2>2. h[1] = m
    BY <1>1, <1>2, <2>1
  <2>3. Progressed(h[0], h[1]) /\ Valid(p, h[1]) /\ h[1] \in Books
    <3>1. Progressed(h[1 - 1], h[1]) /\ Valid(p, h[1]) /\ h[1] \in Books
      BY <1>1, <2>1
    <3>2. QED
      BY <2>1, <3>1
  <2>4. QED
    BY <1>1, <2>2, <2>3
<1>4. /\ g \in [0..Len(z) -> Books] /\ g[0] = m /\ g[Len(z)] = l
      /\ \A n \in 0..Len(z) : g[n] = h[n + 1]
  BY <1>1, <1>2, <1>3
<1> HIDE DEF g, z, m, e
<1>5. \A n \in 0..Len(z) : Valid(p, g[n])
  <2>1. \A n \in 0..Len(z) : n + 1 \in 0..Len(q)
    BY <1>2
  <2>2. QED
    BY <1>1, <1>4, <2>1
<1>6. ASSUME NEW n \in 1..Len(z)
      PROVE  /\ g[n] = IF z[n].kind = "checkpoint" THEN z[n].led ELSE g[n - 1]
             /\ Progressed(g[n - 1], g[n])
  <2>1. /\ n + 1 \in 1..Len(q) /\ n \in 0..Len(z) /\ n - 1 \in 0..Len(z)
        /\ (n + 1) - 1 = n /\ (n - 1) + 1 = n
    BY <1>2
  <2>2. g[n] = h[n + 1] /\ g[n - 1] = h[n] /\ z[n] = q[n + 1]
    BY <1>2, <1>4, <2>1
  <2>3. /\ h[n + 1] = IF q[n + 1].kind = "checkpoint" THEN q[n + 1].led ELSE h[(n + 1) - 1]
        /\ Progressed(h[(n + 1) - 1], h[n + 1])
    BY <1>1, <2>1
  <2>4. QED
    BY <2>1, <2>2, <2>3
<1>7. Trail(p, m, z, l)
  BY <1>4, <1>5, <1>6 DEF Trail
<1>8. QED
  BY <1>3, <1>7 DEF m, e, z

(***************************************************************************)
(* Ledgers.                                                                *)
(***************************************************************************)
\* How a task of step s changes the ledger it shares with the others.
Local(s, old, new) ==
    /\ \A k \in ModelKeys : k[1] # s => new.model[k] = old.model[k]
    /\ \A k \in ToolKeys : k[1] # s => new.tool[k] = old.tool[k]
    /\ \A u \in Steps \ {s} : new.retry[u] = old.retry[u] /\ (u \in new.done => u \in old.done)
    /\ old.done \subseteq new.done
    /\ Spending(new) => Spending(old)

Advances(p, s, old, new) == Local(s, old, new) /\ Progressed(old, new) /\ Valid(p, new)

LEMMA AdvancesItself ==
  ASSUME NEW p, NEW s, NEW l \in Books, Valid(p, l)
  PROVE  Advances(p, s, l, l)
BY ProgressedItself DEF Advances, Local

LEMMA ProgressedOn ==
  ASSUME NEW a \in Books, NEW b \in Books, NEW c \in Books,
         Progressed(a, b), Progressed(b, c)
  PROVE  Progressed(a, c)
<1>1. \A k \in ModelKeys :
         /\ a.model[k] \in Succeeded => c.model[k] \in Succeeded
         /\ a.model[k] = "running" => c.model[k] \in {"running"} \cup Succeeded
         /\ a.model[k] = "prepared" => c.model[k] # "none"
  <2>1. TAKE k \in ModelKeys
  <2>2. b.model[k] \in States /\ "none" \notin Succeeded
    BY LedgerTypes DEF Succeeded, Answers, Verdicts
  <2>3. QED
    BY <2>2 DEF Progressed, States
<1>2. \A k \in ToolKeys :
         /\ a.tool[k] \in {"succeeded", "uncertain"} => c.tool[k] = a.tool[k]
         /\ a.tool[k] = "running" => \/ c.tool[k] \in {"running", "succeeded", "uncertain"}
                                     \/ c.tool[k] = "prepared" /\ Safe(k)
         /\ a.tool[k] = "prepared" => c.tool[k] # "none"
  <2>1. TAKE k \in ToolKeys
  <2>2. b.tool[k] \in ToolStates /\ c.tool[k] \in ToolStates
    BY LedgerTypes
  <2>3. QED
    BY <2>2 DEF Progressed, ToolStates
<1>3. /\ a.done \subseteq c.done /\ a.spent <= c.spent
      /\ a.phase # "running" => c.phase = a.phase
      /\ \A s \in Steps : a.retry[s] <= c.retry[s]
  BY LedgerTypes DEF Progressed
<1>4. QED
  BY <1>1, <1>2, <1>3 DEF Progressed

LEMMA AdvancesOn ==
  ASSUME NEW p, NEW s, NEW a \in Books, NEW b \in Books, NEW c \in Books,
         Advances(p, s, a, b), Advances(p, s, b, c)
  PROVE  Advances(p, s, a, c)
<1>1. Local(s, a, c)
  BY DEF Advances, Local
<1>2. QED
  BY <1>1, ProgressedOn DEF Advances

\* The fields that one more state in the model or the tool ledger leaves.
LEMMA ModelFields ==
  ASSUME NEW l \in Books, NEW k \in ModelKeys, NEW v
  PROVE  LET m == [l EXCEPT !.model[k] = v] IN
         /\ \A j \in ModelKeys : m.model[j] = IF j = k THEN v ELSE l.model[j]
         /\ m.tool = l.tool /\ m.done = l.done /\ m.retry = l.retry
         /\ m.spent = l.spent /\ m.phase = l.phase /\ m.compact = l.compact
BY DEF Books, Ledgers

LEMMA ToolFields ==
  ASSUME NEW l \in Books, NEW k \in ToolKeys, NEW v
  PROVE  LET m == [l EXCEPT !.tool[k] = v] IN
         /\ \A j \in ToolKeys : m.tool[j] = IF j = k THEN v ELSE l.tool[j]
         /\ m.model = l.model /\ m.done = l.done /\ m.retry = l.retry
         /\ m.spent = l.spent /\ m.phase = l.phase /\ m.compact = l.compact
BY DEF Books, Ledgers

\* A model call's state may change if the call before it was made, and if no
\* answer is taken back.
LEMMA ModelAdvances ==
  ASSUME NEW p, NEW l \in Books, Valid(p, l), NEW k \in ModelKeys, NEW v \in States,
         NEW m, m = [l EXCEPT !.model[k] = v],
         \/ v \in Succeeded
         \/ v \in {"prepared", "running"} /\ l.model[k] \in {"none", "prepared"},
         k[4] > 0 => l.model[<<k[1], k[2], k[3], k[4] - 1>>] # "none"
  PROVE  Advances(p, k[1], l, m)
<1>1. /\ \A j \in ModelKeys : m.model[j] = IF j = k THEN v ELSE l.model[j]
      /\ m.tool = l.tool /\ m.done = l.done /\ m.retry = l.retry
      /\ m.spent = l.spent /\ m.phase = l.phase
  BY ModelFields
<1>s. "none" \notin Succeeded /\ "prepared" \notin Succeeded /\ "running" \notin Succeeded
  BY DEF Succeeded, Answers, Verdicts
<1>2. \A j \in ModelKeys : /\ l.model[j] \in Succeeded => m.model[j] \in Succeeded
                           /\ l.model[j] # "none" => m.model[j] # "none"
  BY <1>1, <1>s
<1>3. \A s, a, u : Answered(l, s, a, u) \subseteq Answered(m, s, a, u)
  BY <1>2 DEF Answered
<1>4. StepsFounded(p, m)
  BY <1>1, <1>3 DEF Valid, StepsFounded
<1>5. CallsInOrder(m)
  <2>1. ASSUME NEW j \in ModelKeys, m.model[j] # "none", j[4] > 0
        PROVE  m.model[<<j[1], j[2], j[3], j[4] - 1>>] # "none"
    <3>1. l.model[<<j[1], j[2], j[3], j[4] - 1>>] # "none"
      BY <1>1, <2>1 DEF Valid, CallsInOrder
    <3>2. <<j[1], j[2], j[3], j[4] - 1>> \in ModelKeys
      BY <2>1, Bounds DEF ModelKeys
    <3>3. QED
      BY <1>2, <3>1, <3>2
  <2>2. ASSUME NEW j \in ToolKeys, m.tool[j] # "none"
        PROVE  m.model[<<j[1], j[2], "step", j[3]>>] \in Succeeded
    <3>1. l.model[<<j[1], j[2], "step", j[3]>>] \in Succeeded
      BY <1>1, <2>2 DEF Valid, CallsInOrder
    <3>2. <<j[1], j[2], "step", j[3]>> \in ModelKeys
      BY Bounds DEF ModelKeys, ToolKeys
    <3>3. QED
      BY <1>2, <3>1, <3>2
  <2>3. QED
    BY <2>1, <2>2 DEF CallsInOrder
<1>6. PhaseTrue(p, m)
  BY <1>1 DEF Valid, PhaseTrue, Spending
<1>7. Progressed(l, m)
  <2>1. \A j \in ModelKeys :
          /\ l.model[j] = "running" => m.model[j] \in {"running"} \cup Succeeded
    BY <1>1
  <2>2. Progressed(l, l)
    BY ProgressedItself
  <2>3. QED
    BY <1>1, <1>2, <2>1, <2>2 DEF Progressed
<1>8. Local(k[1], l, m)
  BY <1>1 DEF Local, Spending
<1>9. QED
  BY <1>4, <1>5, <1>6, <1>7, <1>8 DEF Advances, Valid

LEMMA ToolAdvances ==
  ASSUME NEW p, NEW l \in Books, Valid(p, l), NEW k \in ToolKeys, NEW v \in ToolStates,
         NEW m, m = [l EXCEPT !.tool[k] = v],
         l.model[<<k[1], k[2], "step", k[3]>>] \in Succeeded,
         \/ l.tool[k] \in {"none", "prepared"} /\ v # "none"
         \/ l.tool[k] = "running" /\ v \in {"running", "succeeded", "uncertain"}
         \/ l.tool[k] = "running" /\ v = "prepared" /\ Safe(k)
  PROVE  Advances(p, k[1], l, m)
<1>1. /\ \A j \in ToolKeys : m.tool[j] = IF j = k THEN v ELSE l.tool[j]
      /\ m.model = l.model /\ m.done = l.done /\ m.retry = l.retry
      /\ m.spent = l.spent /\ m.phase = l.phase
  BY ToolFields
<1>2. StepsFounded(p, m) /\ PhaseTrue(p, m)
  BY <1>1 DEF Valid, StepsFounded, PhaseTrue, Answered, Spending
<1>3. CallsInOrder(m)
  BY <1>1 DEF Valid, CallsInOrder
<1>4. Progressed(l, m)
  <2>1. Progressed(l, l)
    BY ProgressedItself
  <2>2. QED
    BY <1>1, <2>1 DEF Progressed
<1>5. Local(k[1], l, m)
  BY <1>1 DEF Local, Spending
<1>6. QED
  BY <1>2, <1>3, <1>4, <1>5 DEF Advances, Valid

LEMMA ModelAnswers ==
  ASSUME NEW l \in Books, NEW k \in ModelKeys, NEW v, NEW m, m = [l EXCEPT !.model[k] = v]
  PROVE  /\ v \in Succeeded => /\ k \in Answered(m, k[1], k[2], k[3])
                               /\ \A s, a, u : Answered(l, s, a, u) \subseteq Answered(m, s, a, u)
         /\ v \notin Succeeded /\ l.model[k] \notin Succeeded
              => \A s, a, u : Answered(m, s, a, u) = Answered(l, s, a, u)
<1>1. \A j \in ModelKeys : m.model[j] = IF j = k THEN v ELSE l.model[j]
  BY ModelFields
<1>2. QED
  BY <1>1 DEF Answered

LEMMA RetryAdvances ==
  ASSUME NEW p, NEW l \in Books, Valid(p, l), NEW s \in Steps, NEW n \in Attempts,
         l.retry[s] <= n, NEW m, m = [l EXCEPT !.retry[s] = n]
  PROVE  /\ Advances(p, s, l, m)
         /\ m.retry[s] = n /\ m.model = l.model /\ m.tool = l.tool /\ m.done = l.done
<1>1. /\ \A u \in Steps : m.retry[u] = IF u = s THEN n ELSE l.retry[u]
      /\ m.model = l.model /\ m.tool = l.tool /\ m.done = l.done
      /\ m.spent = l.spent /\ m.phase = l.phase
  BY DEF Books, Ledgers
<1>2. Valid(p, m)
  BY <1>1 DEF Valid, StepsFounded, CallsInOrder, PhaseTrue, Answered, Spending
<1>3. Progressed(l, m)
  <2>1. Progressed(l, l)
    BY ProgressedItself
  <2>2. QED
    BY <1>1, <2>1 DEF Progressed
<1>4. Local(s, l, m)
  BY <1>1 DEF Local, Spending
<1>5. QED
  BY <1>1, <1>2, <1>3, <1>4 DEF Advances

\* A step that is founded may be completed.
LEMMA DoneAdvances ==
  ASSUME NEW p, NEW l \in Books, Valid(p, l), NEW s \in Steps,
         s \in DOMAIN p.after \ l.done, p.after[s] \subseteq l.done,
         \E a \in Attempts : Answered(l, s, a, "step") # {},
         Spending(l), NEW b \in BOOLEAN, NEW m,
         m = [l EXCEPT !.done = l.done \cup {s},
                       !.phase = IF l.done \cup {s} = DOMAIN p.after THEN "completed"
                                 ELSE "running",
                       !.torn = b]
  PROVE  /\ Advances(p, s, l, m)
         /\ m.retry = l.retry /\ m.model = l.model /\ m.tool = l.tool
<1>1. /\ m.done = l.done \cup {s} /\ m.retry = l.retry /\ m.model = l.model
      /\ m.tool = l.tool /\ m.spent = l.spent
      /\ m.phase = IF l.done \cup {s} = DOMAIN p.after THEN "completed" ELSE "running"
  BY DEF Books, Ledgers
<1>2. l.phase = "running"
  <2>1. l.phase # "completed"
    BY DEF Valid, PhaseTrue
  <2>2. QED
    BY <2>1, LedgerTypes DEF Phases, Spending
<1>3. Valid(p, m)
  <2>1. StepsFounded(p, m)
    BY <1>1 DEF Valid, StepsFounded, Answered
  <2>2. CallsInOrder(m)
    BY <1>1 DEF Valid, CallsInOrder
  <2>3. PhaseTrue(p, m)
    BY <1>1 DEF Valid, PhaseTrue, Spending, Exhausted
  <2>4. QED
    BY <2>1, <2>2, <2>3 DEF Valid
<1>4. Progressed(l, m)
  <2>1. Progressed(l, l)
    BY ProgressedItself
  <2>2. QED
    BY <1>1, <1>2, <2>1 DEF Progressed
<1>5. Local(s, l, m)
  BY <1>1 DEF Local, Spending
<1>6. QED
  BY <1>1, <1>3, <1>4, <1>5 DEF Advances

\* An answer, its cost and the phase it leads to.
LEMMA AccountedAdvances ==
  ASSUME plan \in Plans, NEW l \in Books, Valid(plan, l), l.phase # "completed",
         NEW k \in ModelKeys, NEW v \in Succeeded, NEW usage \in BOOLEAN,
         k[4] > 0 => l.model[<<k[1], k[2], k[3], k[4] - 1>>] # "none",
         NEW a, a = Accounted(l, k, v, usage)
  PROVE  /\ Advances(plan, k[1], l, a)
         /\ k \in Answered(a, k[1], k[2], k[3])
         /\ \A s, n, u : Answered(l, s, n, u) \subseteq Answered(a, s, n, u)
         /\ a.retry = l.retry /\ a.done = l.done /\ a.tool = l.tool
<1> DEFINE m == [l EXCEPT !.model[k] = v]
<1>1. /\ Advances(plan, k[1], l, m)
      /\ m.tool = l.tool /\ m.done = l.done /\ m.retry = l.retry
      /\ m.spent = l.spent /\ m.phase = l.phase
  BY ModelAdvances, ModelFields DEF States
<1>2. /\ a.model = m.model /\ a.tool = l.tool /\ a.done = l.done /\ a.retry = l.retry
      /\ a.spent = IF usage THEN l.spent + 1 ELSE l.spent
      /\ a.phase = IF l.phase # "running" THEN l.phase
                   ELSE IF ~usage THEN "unaccounted"
                   ELSE IF a.spent > plan.budget THEN "budget_exhausted"
                   ELSE "running"
  BY DEF Accounted, Books, Ledgers
<1>3. k \in Answered(m, k[1], k[2], k[3])
      /\ \A s, n, u : Answered(l, s, n, u) \subseteq Answered(m, s, n, u)
  BY ModelAnswers
<1>4. l.spent \in Nat /\ plan.budget \in Nat /\ l.phase \in Phases
  BY LedgerTypes, DispatchAssumption
<1>t. a.spent \in Nat /\ l.spent <= a.spent
  BY <1>2, <1>4
<1> HIDE DEF m
<1>5. Valid(plan, a)
  <2>1. StepsFounded(plan, a) /\ CallsInOrder(a)
    BY <1>1, <1>2 DEF Advances, Valid, StepsFounded, CallsInOrder, Answered
  <2>2. PhaseTrue(plan, a)
    <3>1. l.phase = "budget_exhausted" => l.spent > plan.budget
      BY DEF Valid, PhaseTrue
    <3>2. CASE l.phase = "running"
      BY <1>2, <1>4, <1>t, <3>2 DEF PhaseTrue, Spending, Exhausted
    <3>3. CASE l.phase # "running"
      <4>1. a.phase = l.phase /\ l.phase \in Exhausted
        BY <1>2, <1>4, <3>3 DEF Phases
      <4>2. QED
        BY <1>4, <1>t, <3>1, <4>1 DEF PhaseTrue, Spending, Exhausted
    <3>4. QED
      BY <3>2, <3>3
  <2>3. QED
    BY <2>1, <2>2 DEF Valid
<1>6. Progressed(l, a)
  BY <1>1, <1>2, <1>t DEF Advances, Progressed
<1>7. Local(k[1], l, a)
  <2>1. Spending(a) => Spending(l)
    BY <1>2 DEF Spending, Exhausted
  <2>2. QED
    BY <1>1, <1>2, <2>1 DEF Advances, Local
<1>8. QED
  BY <1>2, <1>3, <1>5, <1>6, <1>7 DEF Advances, Answered

\* Every set of numbers has a least one.
LEMMA Least ==
  ASSUME NEW T \in SUBSET Nat, T # {}
  PROVE  \E n \in T : \A m \in T : n <= m
<1> DEFINE R == {ss \in Nat \X Nat : ss[1] < ss[2]}
<1>1. IsWellFoundedOn(R, Nat)
  BY NatLessThanWellFounded DEF OpToRel
<1>2. PICK n \in T : \A m \in T : ~ (<<m, n>> \in R)
  <2> HIDE DEF R
  <2>1. QED
    BY <1>1, WFMin
<1>3. ASSUME NEW m \in T  PROVE n <= m
  <2>1. ~(m < n)
    BY <1>2
  <2>2. QED
    BY <2>1
<1>4. QED
  BY <1>3

\* A text in the place of an answer that did not come.
LEMMA FallbackAdvances ==
  ASSUME NEW p, NEW l \in Books, Valid(p, l), NEW s \in Steps, NEW t,
         t.att \in Attempts, t.att > 0 => s \in Reviewed,
         NEW f, f = Fallback(l, s, t)
  PROVE  /\ Advances(p, s, l, f)
         /\ Answered(f, s, t.att, "step") # {}
         /\ \A u, a, r : Answered(l, u, a, r) \subseteq Answered(f, u, a, r)
         /\ f.retry = l.retry /\ f.done = l.done /\ f.tool = l.tool
<1> DEFINE open == {k \in ModelKeys : /\ k[1] = s /\ k[2] = t.att /\ k[3] = "step"
                                       /\ l.model[k] \in {"prepared", "running"}}
           key == IF open = {} THEN <<s, t.att, "step", 0>>
                  ELSE CHOOSE k \in open : \A j \in open : k[4] <= j[4]
           torn == l.torn \/ Answered(l, s, t.att, "step") # {}
           m == [l EXCEPT !.model[key] = "text"]
<1>1. /\ key \in ModelKeys /\ key[1] = s /\ key[2] = t.att /\ key[3] = "step"
      /\ key \in open \/ key[4] = 0
  <2>1. CASE open = {}
    BY <2>1, Bounds DEF ModelKeys
  <2>2. CASE open # {}
    <3> DEFINE T == {k[4] : k \in open}
    <3>1. T \in SUBSET Nat /\ T # {}
      BY <2>2, Bounds DEF ModelKeys
    <3>2. PICK n \in T : \A j \in T : n <= j
      BY <3>1, Least
    <3>3. \E k \in open : \A j \in open : k[4] <= j[4]
      BY <3>2
    <3>4. key \in open
      BY <2>2, <3>3
    <3>5. QED
      BY <3>4
  <2>3. QED
    BY <2>1, <2>2
<1>2. /\ f = [l EXCEPT !.model[key] = "text", !.torn = torn] /\ torn \in BOOLEAN
  BY DEF Fallback
<1> HIDE DEF key, torn
<1>3. key[4] > 0 => l.model[<<key[1], key[2], key[3], key[4] - 1>>] # "none"
  <2>1. key[4] > 0 => key \in open
    BY <1>1
  <2>2. key[4] > 0 => l.model[key] # "none"
    BY <2>1
  <2>3. QED
    BY <1>1, <2>2 DEF Valid, CallsInOrder
<1>4. Advances(p, s, l, m)
  BY <1>1, <1>3, ModelAdvances DEF States, Succeeded, Answers
<1>5. key \in Answered(m, s, t.att, "step")
      /\ \A u, a, r : Answered(l, u, a, r) \subseteq Answered(m, u, a, r)
  BY <1>1, ModelAnswers DEF Succeeded, Answers
<1>6. /\ f.model = m.model /\ f.tool = m.tool /\ f.done = m.done /\ f.retry = m.retry
      /\ f.spent = m.spent /\ f.phase = m.phase
      /\ m.tool = l.tool /\ m.done = l.done /\ m.retry = l.retry
  BY <1>2 DEF Books, Ledgers
<1> HIDE DEF m
<1>7. Advances(p, s, l, f)
  BY <1>4, <1>6 DEF Advances, Local, Progressed, Valid, StepsFounded, CallsInOrder,
        PhaseTrue, Answered, Spending
<1>8. QED
  BY <1>5, <1>6, <1>7 DEF Answered

(***************************************************************************)
(* Steps of a coordinator.                                                 *)
(***************************************************************************)
\* What the ledger knows of a step is not disturbed by the task of another.
LEMMA PlacedElsewhere ==
  ASSUME NEW p, NEW s \in Steps, NEW old \in Books, NEW new \in Books, Local(s, old, new),
         NEW u \in Steps \ {s}, NEW t \in Tasks, Proper(u, t), Placed(p, old, u, t)
  PROVE  Placed(p, new, u, t)
<1>1. \A a, r : Answered(new, u, a, r) = Answered(old, u, a, r)
  <2>1. \A k \in ModelKeys : k[1] = u => new.model[k] = old.model[k]
    BY DEF Local
  <2>2. QED
    BY <2>1 DEF Answered
<1>2. t.pc = "tooling" => new.tool[ToolKey(u, t)] = old.tool[ToolKey(u, t)]
  BY KeyTypes DEF Local, Proper
<1>3. /\ new.retry[u] = old.retry[u] /\ old.done \subseteq new.done
      /\ u \in new.done => u \in old.done
      /\ Spending(new) => Spending(old)
  BY DEF Local
<1>4. QED
  BY <1>1, <1>2, <1>3 DEF Placed, Has

LEMMA CoveredOn ==
  ASSUME NEW a \in Books, NEW b \in Books, Progressed(a, b), NEW r,
         r.asked \subseteq ModelKeys, r.ran \subseteq ToolKeys, Covered(a, r)
  PROVE  Covered(b, r)
<1>1. Spending(b) => Spending(a)
  BY DEF Progressed, Spending, Exhausted
<1>2. \A k \in ModelKeys : a.model[k] # "none" => b.model[k] # "none"
  <2>1. TAKE k \in ModelKeys
  <2>2. a.model[k] \in States /\ "none" \notin Succeeded
    BY LedgerTypes DEF Succeeded, Answers, Verdicts
  <2>3. QED
    BY <2>2 DEF Progressed, States
<1>3. \A k \in ToolKeys : a.tool[k] # "none" => b.tool[k] # "none"
  <2>1. TAKE k \in ToolKeys
  <2>2. a.tool[k] \in ToolStates
    BY LedgerTypes
  <2>3. QED
    BY <2>2 DEF Progressed, ToolStates
<1>4. QED
  BY <1>1, <1>2, <1>3 DEF Covered

LEMMA LedgerKept ==
  ASSUME DispatchInv, LedgerInv, NEW i \in Instances, rt[i].pc = "run", NEW n,
         rt' = [rt EXCEPT ![i] = n], UnchangedRun, Sound(plan, n),
         \A d \in Books : Keeps(plan, d, rt[i]) => Keeps(plan, d, n)
  PROVE  LedgerInv'
<1>1. /\ \A j \in Instances : rt'[j] = IF j = i THEN n ELSE rt[j]
      /\ plan' = plan /\ status' = status /\ durable' = durable
      /\ starts' = starts /\ reader' = reader
  BY DEF DispatchInv, TypeOK, UnchangedRun
<1>2. \E d \in Books : Keeps(plan, d, n)
  BY DEF LedgerInv
<1>3. \A j \in Instances :
        /\ Sound(plan, rt'[j])
        /\ \/ rt'[j].pc # "run" /\ rt'[j].queue = <<>>
           \/ \E d \in Books : Keeps(plan, d, rt'[j])
  BY <1>1, <1>2 DEF LedgerInv
<1>4. reader # 0 \/ status = "completed" => Keeps(plan, durable, rt'[starts])
  <2>1. SUFFICES ASSUME reader # 0 \/ status = "completed"
                 PROVE  Keeps(plan, durable, rt'[starts])
    OBVIOUS
  <2>2. starts \in Instances /\ durable \in Books /\ Keeps(plan, durable, rt[starts])
    BY <2>1, Bounds DEF LedgerInv, DispatchInv, TypeOK, Instances
  <2>3. QED
    BY <1>1, <2>2
<1>5. QED
  BY <1>1, <1>3, <1>4 DEF LedgerInv

\* One step of one task: its ledger goes on along the trail, and knows the calls
\* it makes.
Moves(p, s, t, r, n) ==
    /\ n.pc = "run" /\ n.task = [r.task EXCEPT ![s] = t]
    /\ n.led \in Books /\ Advances(p, s, r.led, n.led) /\ Placed(p, n.led, s, t)
    /\ \A d \in Books : Trail(p, d, r.queue, r.led) => Trail(p, d, n.queue, n.led)
    /\ Spending(n.led) => /\ \A k \in n.asked \ r.asked : n.led.model[k] # "none"
                          /\ \A k \in n.ran \ r.ran : n.led.tool[k] # "none"

LEMMA TaskWrites ==
  ASSUME NEW p, NEW r, CoordInv(r), r.pc = "run", Sound(p, r),
         NEW s \in Steps, NEW t, NEW n, Moves(p, s, t, r, n)
  PROVE  /\ Sound(p, n)
         /\ \A d \in Books : Keeps(p, d, r) => Keeps(p, d, n)
<1>0. /\ n.pc = "run" /\ n.task = [r.task EXCEPT ![s] = t]
      /\ n.led \in Books /\ Advances(p, s, r.led, n.led) /\ Placed(p, n.led, s, t)
  BY DEF Moves
<1>1. r \in Coordinators /\ r.led \in Books /\ \A u \in Steps : Proper(u, r.task[u])
  BY DEF CoordInv
<1>2. r.task \in [Steps -> Tasks] /\ r.asked \subseteq ModelKeys /\ r.ran \subseteq ToolKeys
  BY <1>1 DEF Coordinators
<1>3. Sound(p, n)
  <2>1. ASSUME NEW u \in Steps \ {s}  PROVE Placed(p, n.led, u, n.task[u])
    <3>1. Local(s, r.led, n.led) /\ Placed(p, r.led, u, r.task[u])
      BY <1>0 DEF Advances, Sound
    <3>2. r.task[u] \in Tasks /\ Proper(u, r.task[u]) /\ n.task[u] = r.task[u]
      BY <1>0, <1>1, <1>2
    <3>3. QED
      BY <1>0, <1>1, <3>1, <3>2, PlacedElsewhere
  <2>2. n.task[s] = t
    BY <1>0, <1>2
  <2>3. QED
    BY <1>0, <2>1, <2>2 DEF Sound, Advances
<1>4. ASSUME NEW d \in Books, Keeps(p, d, r)  PROVE Keeps(p, d, n)
  <2>1. Trail(p, d, r.queue, r.led) /\ Covered(r.led, r)
    BY <1>4 DEF Keeps
  <2>2. Covered(n.led, r)
    BY <1>0, <1>1, <1>2, <2>1, CoveredOn DEF Advances
  <2>3. Covered(n.led, n)
    BY <2>2 DEF Covered, Moves
  <2>4. QED
    BY <1>0, <2>1, <2>3 DEF Keeps, Moves
<1>5. QED
  BY <1>3, <1>4

LEMMA Written ==
  ASSUME DispatchInv, LedgerInv, NEW i \in Instances, rt[i].pc = "run",
         NEW n, rt' = [rt EXCEPT ![i] = n], UnchangedRun,
         NEW s \in Steps, NEW t, Moves(plan, s, t, rt[i], n)
  PROVE  LedgerInv'
<1>1. CoordInv(rt[i]) /\ Sound(plan, rt[i])
  BY DEF DispatchInv, LedgerInv
<1>2. Sound(plan, n) /\ \A d \in Books : Keeps(plan, d, rt[i]) => Keeps(plan, d, n)
  BY <1>1, TaskWrites
<1>3. QED
  BY <1>2, LedgerKept

(***************************************************************************)
(* What the boundaries queue.                                              *)
(***************************************************************************)
LEMMA TrailEvent ==
  ASSUME NEW p, NEW d, NEW l \in Books, NEW q \in Seq(BookItems), NEW e \in BookItems,
         e.kind # "checkpoint", Trail(p, d, q, l)
  PROVE  Append(q, e) \in Seq(BookItems) /\ Trail(p, d, Append(q, e), l)
<1>1. Valid(p, l)
  <2>1. PICK h \in [0..Len(q) -> Books] :
          h[Len(q)] = l /\ \A n \in 0..Len(q) : Valid(p, h[n])
    BY DEF Trail
  <2>2. Len(q) \in 0..Len(q)
    OBVIOUS
  <2>3. QED
    BY <2>1, <2>2
<1>2. QED
  BY <1>1, ProgressedItself, TrailSteps

LEMMA TrailCheckpoint ==
  ASSUME NEW p, NEW d, NEW l \in Books, NEW q \in Seq(BookItems), NEW s, NEW m \in Books,
         Advances(p, s, l, m), Trail(p, d, q, l)
  PROVE  Append(q, Checkpoint(m)) \in Seq(BookItems) /\ Trail(p, d, Append(q, Checkpoint(m)), m)
<1>1. /\ Checkpoint(m) \in BookItems
      /\ Checkpoint(m).kind = "checkpoint" /\ Checkpoint(m).led = m
  BY ItemTypes DEF Checkpoint
<1>2. QED
  BY <1>1, TrailSteps DEF Advances

LEMMA Appended ==
  ASSUME NEW q \in Seq(BookItems)
  PROVE  /\ q \o <<>> = q
         /\ \A a \in BookItems : q \o <<a>> = Append(q, a)
         /\ \A a, b \in BookItems : q \o <<a, b>> = Append(Append(q, a), b)
         /\ \A a, b, c \in BookItems :
              q \o <<a, b, c>> = Append(Append(Append(q, a), b), c)
OBVIOUS

LEMMA TrailPauses ==
  ASSUME NEW p, NEW l \in Books, NEW q \in Seq(BookItems), NEW w \in {<<>>, <<Event>>}
  PROVE  /\ q \o w \in Seq(BookItems)
         /\ \A d : Trail(p, d, q, l) => Trail(p, d, q \o w, l)
<1>1. Event \in BookItems /\ Event.kind # "checkpoint"
  BY ItemTypes DEF Event
<1>2. CASE w = <<>>
  <2>1. q \o w = q
    BY <1>2
  <2>2. QED
    BY <2>1
<1>3. CASE w = <<Event>>
  <2>1. q \o w = Append(q, Event) /\ Append(q, Event) \in Seq(BookItems)
    BY <1>1, <1>3
  <2>2. QED
    BY <1>1, <2>1, TrailEvent
<1>4. QED
  BY <1>2, <1>3

LEMMA NoteWrites ==
  ASSUME DispatchInv, LedgerInv, NEW i \in Instances, rt[i].pc = "run", NEW s \in Steps,
         NEW t, Placed(plan, rt[i].led, s, t), Note(i, s, t), UnchangedRun
  PROVE  LedgerInv'
<1> DEFINE r == rt[i]
           n == [r EXCEPT !.task[s] = t, !.queue = Append(@, Event)]
<1>1. /\ r \in Coordinators /\ r.led \in Books /\ r.queue \in Seq(BookItems)
      /\ Valid(plan, r.led) /\ rt \in [Instances -> Coordinators]
  BY DEF DispatchInv, CoordInv, LedgerInv, Sound, TypeOK
<1>2. rt' = [rt EXCEPT ![i] = n]
  BY <1>1 DEF Note, Coordinators
<1>3. /\ n.pc = "run" /\ n.task = [r.task EXCEPT ![s] = t] /\ n.led = r.led
      /\ n.queue = Append(r.queue, Event)
      /\ n.asked = r.asked /\ n.ran = r.ran
  BY <1>1 DEF Coordinators
<1> HIDE DEF n
<1>4. \A d \in Books : Trail(plan, d, r.queue, r.led) => Trail(plan, d, n.queue, n.led)
  BY <1>1, <1>3, TrailEvent, ItemTypes DEF Event
<1>5. Advances(plan, s, r.led, n.led)
  BY <1>1, <1>3, AdvancesItself
<1>6. Moves(plan, s, t, r, n)
  BY <1>1, <1>3, <1>4, <1>5 DEF Moves
<1>7. QED
  BY <1>2, <1>6, Written

\* A record, with what is queued for it.
LEMMA LedWrites ==
  ASSUME DispatchInv, LedgerInv, NEW i \in Instances, rt[i].pc = "run", NEW s \in Steps,
         NEW t, NEW led \in Books, Advances(plan, s, rt[i].led, led),
         Placed(plan, led, s, t), NEW q,
         \A d \in Books : Trail(plan, d, rt[i].queue, rt[i].led) => Trail(plan, d, q, led),
         rt' = [rt EXCEPT ![i] = [rt[i] EXCEPT !.task[s] = t, !.led = led, !.queue = q]],
         UnchangedRun
  PROVE  LedgerInv'
<1> DEFINE r == rt[i]
           n == [r EXCEPT !.task[s] = t, !.led = led, !.queue = q]
<1>1. r \in Coordinators
  BY DEF DispatchInv, CoordInv
<1>2. /\ n.pc = "run" /\ n.task = [r.task EXCEPT ![s] = t] /\ n.led = led
      /\ n.queue = q /\ n.asked = r.asked /\ n.ran = r.ran
  BY <1>1 DEF Coordinators
<1>3. rt' = [rt EXCEPT ![i] = n]
  OBVIOUS
<1> HIDE DEF n
<1>4. Moves(plan, s, t, r, n)
  BY <1>2 DEF Moves
<1>5. QED
  BY <1>3, <1>4, Written

LEMMA Pauses == <<>> \in {<<>>, <<Event>>} /\ <<Event>> \in {<<>>, <<Event>>}
OBVIOUS

LEMMA RecordWrites ==
  ASSUME DispatchInv, LedgerInv, NEW i \in Instances, rt[i].pc = "run", NEW s \in Steps,
         NEW t, NEW led \in Books,
         Spending(rt[i].led) => Advances(plan, s, rt[i].led, led) /\ Placed(plan, led, s, t),
         ~Spending(rt[i].led) => Placed(plan, rt[i].led, s, t),
         NEW before \in {<<>>, <<Event>>}, NEW after \in {<<>>, <<Event>>},
         Record(i, s, t, led, before, after), UnchangedRun
  PROVE  LedgerInv'
<1> DEFINE r == rt[i]
<1>1. r.led \in Books /\ r.queue \in Seq(BookItems) /\ Valid(plan, r.led)
  BY DEF DispatchInv, CoordInv, LedgerInv, Sound
<1>e. /\ Event \in BookItems /\ Event.kind # "checkpoint"
      /\ \A l \in Books : Checkpoint(l) \in BookItems
  BY ItemTypes DEF Event
<1>2. PICK a \in Seq(BookItems) :
        /\ a = r.queue \o before
        /\ \A d \in Books : Trail(plan, d, r.queue, r.led) => Trail(plan, d, a, r.led)
  BY <1>1, TrailPauses
<1>3. CASE Spending(r.led)
  <2>1. PICK b \in Seq(BookItems) :
          /\ b = a \o <<Checkpoint(led)>>
          /\ \A d \in Books : Trail(plan, d, a, r.led) => Trail(plan, d, b, led)
    <3>1. Advances(plan, s, r.led, led)
      BY <1>3
    <3>2. a \o <<Checkpoint(led)>> = Append(a, Checkpoint(led))
      BY <1>e, Appended
    <3>3. Append(a, Checkpoint(led)) \in Seq(BookItems)
      BY <1>e
    <3> HIDE DEF r
    <3>4. QED
      BY <1>1, <3>1, <3>2, <3>3, TrailCheckpoint
  <2>2. PICK q \in Seq(BookItems) :
          /\ q = b \o after
          /\ \A d \in Books : Trail(plan, d, b, led) => Trail(plan, d, q, led)
    BY TrailPauses
  <2>3. rt' = [rt EXCEPT ![i] = [r EXCEPT !.task[s] = t, !.led = led, !.queue = q]]
    BY <1>2, <1>3, <2>1, <2>2 DEF Record
  <2>4. \A d \in Books : Trail(plan, d, r.queue, r.led) => Trail(plan, d, q, led)
    BY <1>2, <2>1, <2>2
  <2>5. QED
    BY <1>3, <2>3, <2>4, LedWrites
<1>4. CASE ~Spending(r.led)
  <2>1. PICK q \in Seq(BookItems) :
          /\ q = a \o after
          /\ \A d \in Books : Trail(plan, d, a, r.led) => Trail(plan, d, q, r.led)
    BY <1>1, TrailPauses
  <2>2. a \o <<>> = a
    BY Appended
  <2>3. rt' = [rt EXCEPT ![i] = [r EXCEPT !.task[s] = t, !.led = r.led, !.queue = q]]
    BY <1>2, <1>4, <2>1, <2>2 DEF Record
  <2>4. \A d \in Books : Trail(plan, d, r.queue, r.led) => Trail(plan, d, q, r.led)
    BY <1>2, <2>1
  <2>5. Advances(plan, s, r.led, r.led)
    BY <1>1, AdvancesItself
  <2>6. QED
    BY <1>1, <1>4, <2>3, <2>4, <2>5, LedWrites
<1>5. QED
  BY <1>3, <1>4

LEMMA TrailCommit ==
  ASSUME NEW p, NEW l \in Books, NEW q \in Seq(BookItems), NEW s, NEW m \in Books,
         Advances(p, s, l, m)
  PROVE  /\ q \o <<Event, Checkpoint(m)>> \in Seq(BookItems)
         /\ \A d : Trail(p, d, q, l) => Trail(p, d, q \o <<Event, Checkpoint(m)>>, m)
<1>1. Event \in BookItems /\ Event.kind # "checkpoint" /\ Checkpoint(m) \in BookItems
  BY ItemTypes DEF Event
<1>2. PICK a \in Seq(BookItems) : a = Append(q, Event)
  BY QueueTypes, PieceTypes
<1>3. q \o <<Event, Checkpoint(m)>> = Append(a, Checkpoint(m))
  BY <1>1, <1>2, Appended
<1>4. Append(a, Checkpoint(m)) \in Seq(BookItems)
  BY <1>1
<1>5. ASSUME NEW d, Trail(p, d, q, l)  PROVE Trail(p, d, Append(a, Checkpoint(m)), m)
  <2>1. Trail(p, d, a, l)
    BY <1>1, <1>2, <1>5, TrailEvent
  <2>2. QED
    BY <2>1, TrailCheckpoint
<1>6. QED
  BY <1>3, <1>4, <1>5

LEMMA CommitWrites ==
  ASSUME DispatchInv, LedgerInv, NEW i \in Instances, rt[i].pc = "run", NEW s \in Steps,
         NEW t, NEW led \in Books, Advances(plan, s, rt[i].led, led),
         Placed(plan, led, s, t), Commit(i, s, t, led), UnchangedRun
  PROVE  LedgerInv'
<1>1. /\ rt[i].queue \in Seq(BookItems) /\ rt \in [Instances -> Coordinators]
      /\ rt[i].led \in Books
  BY DEF DispatchInv, CoordInv, TypeOK
<1>2. PICK q \in Seq(BookItems) :
        /\ q = rt[i].queue \o <<Event, Checkpoint(led)>>
        /\ \A d : Trail(plan, d, rt[i].queue, rt[i].led) => Trail(plan, d, q, led)
  BY <1>1, TrailCommit
<1>3. rt' = [rt EXCEPT ![i] = [rt[i] EXCEPT !.task[s] = t, !.led = led, !.queue = q]]
  BY <1>1, <1>2 DEF Commit, Coordinators
<1>4. QED
  BY <1>2, <1>3, LedWrites

LEMMA FailWrites ==
  ASSUME DispatchInv, LedgerInv, NEW i \in Instances, rt[i].pc = "run", NEW s \in Steps,
         NEW t \in Tasks, t.att > 0 => s \in Reviewed,
         NEW led \in Books, Advances(plan, s, rt[i].led, led),
         Placed(plan, led, s, [t EXCEPT !.pc = "failed"]),
         FailWith(i, s, t, led), UnchangedRun
  PROVE  LedgerInv'
<1> DEFINE r == rt[i]
           w == IF led = r.led THEN <<>> ELSE <<Event, Checkpoint(led)>>
<1>1. r.led \in Books /\ r.queue \in Seq(BookItems)
  BY DEF DispatchInv, CoordInv
<1>2. PICK a \in Seq(BookItems) :
        /\ a = r.queue \o w
        /\ \A d \in Books : Trail(plan, d, r.queue, r.led) => Trail(plan, d, a, led)
  <2>1. CASE led = r.led
    BY <1>1, <2>1, Appended
  <2>2. CASE led # r.led
    BY <1>1, <2>2, TrailCommit
  <2>3. QED
    BY <2>1, <2>2
<1>3. CASE s \in Optional
  <2> DEFINE c == IF Spending(led) THEN "done" ELSE "failed"
             u == [t EXCEPT !.pc = c]
  <2>1. PICK f \in Books : f = Fallback(led, s, t)
    BY FallbackBook
  <2>2. /\ Advances(plan, s, led, f) /\ Answered(f, s, t.att, "step") # {}
        /\ \A v, b, x : Answered(led, v, b, x) \subseteq Answered(f, v, b, x)
        /\ f.retry = led.retry /\ f.done = led.done /\ f.tool = led.tool
    <3>1. Valid(plan, led) /\ t.att \in Attempts
      BY DEF Advances, Tasks
    <3>2. QED
      BY <2>1, <3>1, FallbackAdvances
  <2>3. Advances(plan, s, r.led, f)
    BY <1>1, <2>2, AdvancesOn
  <2>4. PICK q \in Seq(BookItems) :
          /\ q = a \o <<Event, Checkpoint(f)>>
          /\ \A d : Trail(plan, d, a, led) => Trail(plan, d, q, f)
    <3>1. Advances(plan, s, led, f)
      BY <2>2
    <3> HIDE DEF w, r
    <3>2. QED
      BY <3>1, TrailCommit
  <2>5. Placed(plan, f, s, u)
    <3>1. /\ u.pc \in {"done", "failed"} /\ u.att = t.att /\ u.idx = t.idx /\ u.got = t.got
          /\ t.idx \in Nat /\ t.got \in Nat
      BY Bounds DEF Tasks
    <3>2. LET z == [t EXCEPT !.pc = "failed"] IN
          z.pc = "failed" /\ z.att = t.att /\ z.idx = t.idx /\ z.got = t.got
      BY DEF Tasks
    <3> HIDE DEF u
    <3>3. QED
      BY <2>2, <3>1, <3>2 DEF Placed, Has
  <2>6. rt' = [rt EXCEPT ![i] = [r EXCEPT !.task[s] = u, !.led = f, !.queue = q]]
    BY <1>2, <1>3, <2>1, <2>4 DEF FailWith
  <2>7. \A d \in Books : Trail(plan, d, r.queue, r.led) => Trail(plan, d, q, f)
    BY <1>2, <2>4
  <2> HIDE DEF u
  <2>8. QED
    BY <2>3, <2>5, <2>6, <2>7, LedWrites
<1>4. CASE s \notin Optional
  <2> DEFINE u == [t EXCEPT !.pc = "failed"]
  <2>1. PICK q \in Seq(BookItems) :
          /\ q = a \o <<Event>>
          /\ \A d : Trail(plan, d, a, led) => Trail(plan, d, q, led)
    BY TrailPauses
  <2>2. rt' = [rt EXCEPT ![i] = [r EXCEPT !.task[s] = u, !.led = led, !.queue = q]]
    BY <1>2, <1>4, <2>1 DEF FailWith
  <2>3. \A d \in Books : Trail(plan, d, r.queue, r.led) => Trail(plan, d, q, led)
    BY <1>2, <2>1
  <2>4. Placed(plan, led, s, u)
    OBVIOUS
  <2> HIDE DEF u
  <2>5. QED
    BY <2>2, <2>3, <2>4, LedWrites
<1>5. QED
  BY <1>3, <1>4

\* The call goes into the ledger before it is made.
LEMMA CallWrites ==
  ASSUME DispatchInv, LedgerInv, NEW i \in Instances, rt[i].pc = "run", NEW s \in Steps,
         NEW c, NEW k \in ModelKeys, NEW prepared \in Books, NEW running \in Books,
         Advances(plan, s, rt[i].led, prepared), Advances(plan, s, prepared, running),
         running.model[k] # "none",
         Spending(rt[i].led) => Placed(plan, running, s, [rt[i].task[s] EXCEPT !.pc = c]),
         ~Spending(rt[i].led) => Placed(plan, rt[i].led, s, [rt[i].task[s] EXCEPT !.pc = c]),
         CallModel(i, s, c, k, prepared, running), UnchangedRun
  PROVE  LedgerInv'
<1> DEFINE r == rt[i]
           t == [r.task[s] EXCEPT !.pc = c]
           w == IF Spending(r.led) THEN <<Checkpoint(prepared), Checkpoint(running)>> ELSE <<>>
<1>1. /\ r \in Coordinators /\ r.led \in Books /\ r.queue \in Seq(BookItems)
      /\ Valid(plan, r.led)
  BY DEF DispatchInv, CoordInv, LedgerInv, Sound
<1>2. PICK led \in Books : /\ led = IF Spending(r.led) THEN running ELSE r.led
                           /\ Advances(plan, s, r.led, led) /\ Placed(plan, led, s, t)
  BY <1>1, AdvancesOn, AdvancesItself
<1>3. PICK a \in Seq(BookItems) :
        /\ a = r.queue \o <<Event>>
        /\ \A d : Trail(plan, d, r.queue, r.led) => Trail(plan, d, a, r.led)
  BY <1>1, TrailPauses
<1>4. PICK q \in Seq(BookItems) :
        /\ q = a \o w
        /\ \A d : Trail(plan, d, a, r.led) => Trail(plan, d, q, led)
  <2> HIDE DEF r
  <2>1. CASE Spending(r.led)
    <3>1. PICK b \in Seq(BookItems) :
            /\ b = Append(a, Checkpoint(prepared))
            /\ \A d : Trail(plan, d, a, r.led) => Trail(plan, d, b, prepared)
      <4>1. Append(a, Checkpoint(prepared)) \in Seq(BookItems)
        BY ItemTypes
      <4>2. Advances(plan, s, r.led, prepared)
        BY DEF r
      <4>3. QED
        BY <1>1, <4>1, <4>2, TrailCheckpoint
    <3>2. Append(b, Checkpoint(running)) \in Seq(BookItems)
      BY ItemTypes
    <3>3. \A d : Trail(plan, d, b, prepared) => Trail(plan, d, Append(b, Checkpoint(running)), running)
      BY TrailCheckpoint
    <3>4. a \o w = Append(b, Checkpoint(running)) /\ led = running
      BY <1>2, <2>1, <3>1, ItemTypes, Appended
    <3>5. QED
      BY <3>1, <3>2, <3>3, <3>4
  <2>2. CASE ~Spending(r.led)
    BY <1>2, <2>2, Appended
  <2>3. QED
    BY <2>1, <2>2
<1> DEFINE n == [r EXCEPT !.task[s].pc = c, !.asked = @ \cup {k}, !.led = led, !.queue = q]
<1>5. rt' = [rt EXCEPT ![i] = n]
  BY <1>2, <1>3, <1>4 DEF CallModel
<1>6. /\ n.pc = "run" /\ n.task = [r.task EXCEPT ![s] = t] /\ n.led = led /\ n.queue = q
      /\ n.asked = r.asked \cup {k} /\ n.ran = r.ran
  BY <1>1 DEF Coordinators
<1>7. Spending(led) => led.model[k] # "none"
  BY <1>2
<1>8. \A d \in Books : Trail(plan, d, r.queue, r.led) => Trail(plan, d, q, led)
  BY <1>3, <1>4
<1> HIDE DEF n, t
<1>9. Moves(plan, s, t, r, n)
  BY <1>2, <1>6, <1>7, <1>8 DEF Moves
<1>10. QED
  BY <1>5, <1>9, Written

(***************************************************************************)
(* The calls to models.                                                    *)
(***************************************************************************)
\* What the ledger knows of the task that takes a step.
LEMMA AtPlaced ==
  ASSUME DispatchInv, LedgerInv, NEW i \in Instances, NEW s \in Steps, NEW pc,
         At(i, s, pc), pc # "none"
  PROVE  LET led == rt[i].led
             t == rt[i].task[s]
         IN  /\ Valid(plan, led) /\ plan \in Plans /\ DOMAIN plan.after \subseteq Steps
             /\ s \in DOMAIN plan.after \ led.done
             /\ plan.after[s] \subseteq led.done /\ led.phase # "completed"
             /\ Placed(plan, led, s, t)
             /\ led.retry[s] <= t.att
             /\ t.idx > 0 => Has(led, s, t, "step", t.idx - 1)
             /\ t.got > 0 => Has(led, s, t, "review", t.got - 1)
<1>1. Sound(plan, rt[i]) /\ rt[i].pc = "run" /\ rt[i].task[s].pc = pc /\ plan \in Plans
  BY DEF LedgerInv, DispatchInv, TypeOK, At, Runs
<1>2. Valid(plan, rt[i].led) /\ Placed(plan, rt[i].led, s, rt[i].task[s])
  BY <1>1 DEF Sound
<1>3. QED
  BY <1>1, <1>2, DispatchAssumption DEF Placed, Valid, PhaseTrue

\* Its phase, its flags and its tries are the task's own.
LEMMA PlacedAgain ==
  ASSUME NEW p, NEW led, NEW s, NEW t, t.pc # "none", Placed(p, led, s, t), NEW u,
         u.att = t.att, u.got = t.got, u.idx = t.idx \/ u.idx = 0,
         u.pc \in {"waiting", "ask", "calling", "failed"}
  PROVE  Placed(p, led, s, u)
BY DEF Placed, Has

LEMMA FailLed ==
  ASSUME DispatchInv, LedgerInv, NEW i \in Instances, NEW s \in Steps, NEW pc,
         At(i, s, pc), pc # "none", Fail(i, s, rt[i].task[s]), UnchangedRun
  PROVE  LedgerInv'
<1> DEFINE t == rt[i].task[s]
           u == [t EXCEPT !.pc = "failed"]
<1>1. /\ rt[i].pc = "run" /\ rt[i].led \in Books
      /\ t \in Tasks /\ Proper(s, t) /\ t.pc = pc
  BY AtStep
<1>2. Valid(plan, rt[i].led) /\ Placed(plan, rt[i].led, s, t)
  BY AtPlaced
<1>3. u.pc = "failed" /\ u.att = t.att /\ u.idx = t.idx /\ u.got = t.got
  BY <1>1 DEF Tasks
<1> HIDE DEF u, t
<1>4. Placed(plan, rt[i].led, s, u)
  BY <1>1, <1>2, <1>3, PlacedAgain
<1>5. FailWith(i, s, t, rt[i].led) /\ (t.att > 0 => s \in Reviewed)
  BY <1>1 DEF Fail, Proper, t
<1>6. Advances(plan, s, rt[i].led, rt[i].led)
  BY <1>1, <1>2, AdvancesItself
<1>7. QED
  BY <1>1, <1>4, <1>5, <1>6, FailWrites DEF u

LEMMA EnterLed ==
  ASSUME DispatchInv, LedgerInv, NEW i \in Instances, NEW s \in Steps, Enter(i, s)
  PROVE  LedgerInv'
<1> DEFINE t == rt[i].task[s]
           u == [t EXCEPT !.pc = "ask"]
<1>1. At(i, s, "waiting") /\ Note(i, s, u) /\ UnchangedRun
  BY DEF Enter
<1>2. rt[i].pc = "run" /\ t \in Tasks /\ t.pc = "waiting" /\ Placed(plan, rt[i].led, s, t)
  BY <1>1, AtStep, AtPlaced
<1>3. u.pc = "ask" /\ u.att = t.att /\ u.idx = t.idx /\ u.got = t.got
  BY <1>2 DEF Tasks
<1> HIDE DEF u, t
<1>4. Placed(plan, rt[i].led, s, u)
  BY <1>2, <1>3, PlacedAgain
<1>5. QED
  BY <1>1, <1>2, <1>4, NoteWrites

\* The call before a task's next one was answered.
LEMMA Before ==
  ASSUME NEW led, NEW s \in Steps, NEW t \in Tasks, Proper(s, t),
         t.idx > 0 => Has(led, s, t, "step", t.idx - 1)
  PROVE  LET k == StepKey(s, t) IN
         /\ k \in ModelKeys /\ k[1] = s
         /\ k[4] > 0 => led.model[<<k[1], k[2], k[3], k[4] - 1>>] # "none"
<1>1. StepKey(s, t) \in ModelKeys
  BY KeyTypes
<1>2. StepKey(s, t) = <<s, t.att, "step", t.idx>>
  BY DEF StepKey
<1>3. "none" \notin Succeeded
  BY DEF Succeeded, Answers, Verdicts
<1>4. t.idx > 0 => led.model[<<s, t.att, "step", t.idx - 1>>] \in Succeeded
  BY DEF Has, Answered
<1>5. QED
  BY <1>1, <1>2, <1>3, <1>4

LEMMA AskLed ==
  ASSUME DispatchInv, LedgerInv, NEW i \in Instances, NEW s \in Steps, Ask(i, s)
  PROVE  LedgerInv'
<1> DEFINE r == rt[i]
           t == r.task[s]
           u == [t EXCEPT !.pc = "calling"]
           k == StepKey(s, t)
           comp == IF t.compact THEN r.led.compact \cup {k} ELSE r.led.compact
           marked == [r.led EXCEPT !.model[k] = "prepared"]
           prepared == [marked EXCEPT !.compact = comp]
           running == [prepared EXCEPT !.model[k] = "running"]
<1>1. /\ At(i, s, "ask") /\ r.led.model[k] \in {"none", "prepared"} /\ UnchangedRun
      /\ CallModel(i, s, "calling", k, prepared, running)
  BY DEF Ask
<1>2. /\ r.pc = "run" /\ t \in Tasks /\ Proper(s, t) /\ t.pc = "ask" /\ r.led \in Books
      /\ Valid(plan, r.led) /\ Placed(plan, r.led, s, t)
      /\ t.idx > 0 => Has(r.led, s, t, "step", t.idx - 1)
  BY <1>1, AtStep, AtPlaced
<1>3. /\ k \in ModelKeys /\ k[1] = s
      /\ k[4] > 0 => r.led.model[<<k[1], k[2], k[3], k[4] - 1>>] # "none"
  BY <1>2, Before
<1>u. u.pc = "calling" /\ u.att = t.att /\ u.idx = t.idx /\ u.got = t.got
  BY <1>2 DEF Tasks
<1>4. comp \in SUBSET ModelKeys
  BY <1>2, <1>3 DEF Books, Ledgers
<1> HIDE DEF r, t, k, u, comp
<1>5. marked \in Books /\ Advances(plan, s, r.led, marked) /\ marked.model[k] = "prepared"
  <2>1. marked \in Books
    BY <1>2, SetModel DEF States
  <2>2. Advances(plan, s, r.led, marked)
    BY <1>1, <1>2, <1>3, ModelAdvances DEF States
  <2>3. marked.model[k] = "prepared"
    BY <1>2, <1>3, ModelFields
  <2>4. QED
    BY <2>1, <2>2, <2>3
<1> HIDE DEF marked
<1>6. /\ prepared \in Books /\ prepared.model = marked.model /\ prepared.tool = marked.tool
      /\ prepared.done = marked.done /\ prepared.retry = marked.retry
      /\ prepared.spent = marked.spent /\ prepared.phase = marked.phase
  <2>1. prepared \in Books
    BY <1>4, <1>5, SetCompact
  <2>2. QED
    BY <1>5, <2>1 DEF Books, Ledgers
<1> HIDE DEF prepared
<1>7. Advances(plan, s, r.led, prepared)
  BY <1>5, <1>6 DEF Advances, Local, Progressed, Valid, StepsFounded, CallsInOrder,
        PhaseTrue, Answered, Spending
<1>8. /\ running \in Books /\ Advances(plan, s, prepared, running)
      /\ running.model[k] = "running"
  <2>1. running \in Books /\ Valid(plan, prepared) /\ prepared.model[k] = "prepared"
    BY <1>5, <1>6, <1>7, SetModel DEF States, Advances
  <2>2. k[4] > 0 => prepared.model[<<k[1], k[2], k[3], k[4] - 1>>] # "none"
    BY <1>3, <2>1 DEF Valid, CallsInOrder
  <2>3. Advances(plan, s, prepared, running)
    BY <1>3, <1>6, <2>1, <2>2, ModelAdvances DEF States
  <2>4. running.model[k] = "running"
    BY <1>3, <1>6, ModelFields
  <2>5. QED
    BY <2>1, <2>3, <2>4
<1> HIDE DEF running
<1>9. Placed(plan, r.led, s, u) /\ Placed(plan, running, s, u)
  <2>1. Placed(plan, r.led, s, u)
    BY <1>2, <1>u, PlacedAgain
  <2>2. running.done = r.led.done /\ running.retry = r.led.retry
    <3>1. marked.done = r.led.done /\ marked.retry = r.led.retry
      BY <1>2, <1>3, ModelFields DEF marked
    <3>2. running.done = prepared.done /\ running.retry = prepared.retry
      BY <1>3, <1>6, ModelFields DEF running
    <3>3. QED
      BY <1>6, <3>1, <3>2
  <2>3. \A v, a, x : Answered(r.led, v, a, x) \subseteq Answered(running, v, a, x)
    BY <1>7, <1>8 DEF Advances, Progressed, Answered
  <2>4. QED
    BY <1>u, <2>1, <2>2, <2>3 DEF Placed, Has
<1>10. /\ rt[i].pc = "run" /\ UnchangedRun /\ CallModel(i, s, "calling", k, prepared, running)
       /\ Advances(plan, s, rt[i].led, prepared) /\ running.model[k] # "none"
       /\ Placed(plan, running, s, [rt[i].task[s] EXCEPT !.pc = "calling"])
       /\ Placed(plan, rt[i].led, s, [rt[i].task[s] EXCEPT !.pc = "calling"])
  BY <1>1, <1>2, <1>7, <1>8, <1>9 DEF r, t, u
<1>11. QED
  BY <1>3, <1>6, <1>8, <1>10, CallWrites

\* A task goes on: to its next call, or with an answer.
LEMMA PlacedOn ==
  ASSUME NEW p, NEW l, NEW m, NEW s, NEW t, t.pc # "none", t.idx \in Nat, t.got \in Nat,
         Placed(p, l, s, t), m.done = l.done, m.retry = l.retry,
         \A a, x : Answered(l, s, a, x) \subseteq Answered(m, s, a, x),
         NEW u, u.att = t.att,
         u.idx = t.idx \/ u.idx = 0 \/ (u.idx = t.idx + 1 /\ Has(m, s, t, "step", t.idx)),
         u.got = t.got \/ (u.got = t.got + 1 /\ Has(m, s, t, "review", t.got)),
         u.pc \in {"ask", "tool", "review", "revise", "done", "failed"},
         u.pc = "tool" => u.idx = t.idx /\ Has(m, s, t, "step", t.idx),
         u.pc \in {"review", "done"} => Answered(m, s, t.att, "step") # {}
  PROVE  Placed(p, m, s, u)
<1>1. /\ s \in DOMAIN p.after \ m.done /\ p.after[s] \subseteq m.done
      /\ m.retry[s] <= u.att
  BY DEF Placed
<1>2. u.idx > 0 => Has(m, s, u, "step", u.idx - 1)
  <2>1. t.idx > 0 => Has(m, s, t, "step", t.idx - 1)
    BY DEF Placed, Has
  <2>2. (t.idx + 1) - 1 = t.idx
    OBVIOUS
  <2>3. QED
    BY <2>1, <2>2 DEF Has
<1>3. u.got > 0 => Has(m, s, u, "review", u.got - 1)
  <2>1. t.got > 0 => Has(m, s, t, "review", t.got - 1)
    BY DEF Placed, Has
  <2>2. (t.got + 1) - 1 = t.got
    OBVIOUS
  <2>3. QED
    BY <2>1, <2>2 DEF Has
<1>4. u.pc = "tool" => Has(m, s, u, "step", u.idx)
  BY DEF Has
<1>5. QED
  BY <1>1, <1>2, <1>3, <1>4 DEF Placed

\* The same, of a call that is answered.
LEMMA PlacedAnswered ==
  ASSUME NEW p, NEW l, NEW m, NEW s \in Steps, NEW t \in Tasks, Proper(s, t), t.pc # "none",
         Placed(p, l, s, t), m.done = l.done, m.retry = l.retry,
         \A a, x : Answered(l, s, a, x) \subseteq Answered(m, s, a, x),
         StepKey(s, t) \in Answered(m, s, t.att, "step")
  PROVE  /\ Placed(p, m, s, After(s, t))
         /\ Placed(p, m, s, [t EXCEPT !.pc = "tool"])
         /\ Placed(p, m, s, NextRound(t))
         /\ Placed(p, m, s, [NextRound(t) EXCEPT !.empty = TRUE])
<1>1. t.idx \in Nat /\ t.got \in Nat
  BY Bounds DEF Tasks
<1>2. Has(m, s, t, "step", t.idx)
  BY DEF Has, StepKey
<1>3. /\ After(s, t).pc \in {"review", "done"} /\ After(s, t).att = t.att
      /\ After(s, t).idx = t.idx /\ After(s, t).got = t.got
  BY DEF After, Tasks
<1>4. LET u == [t EXCEPT !.pc = "tool"] IN
      u.pc = "tool" /\ u.att = t.att /\ u.idx = t.idx /\ u.got = t.got
  BY DEF Tasks
<1>5. LET u == NextRound(t) IN
      u.pc = "ask" /\ u.att = t.att /\ u.idx = t.idx + 1 /\ u.got = t.got
  BY DEF NextRound, Tasks
<1>6. LET u == [NextRound(t) EXCEPT !.empty = TRUE] IN
      u.pc = "ask" /\ u.att = t.att /\ u.idx = t.idx + 1 /\ u.got = t.got
  BY DEF NextRound, Tasks
<1>7. Placed(p, m, s, After(s, t))
  BY <1>1, <1>3, PlacedOn
<1>8. Placed(p, m, s, [t EXCEPT !.pc = "tool"])
  BY <1>1, <1>2, <1>4, PlacedOn
<1>9. Placed(p, m, s, NextRound(t))
  BY <1>1, <1>2, <1>5, PlacedOn
<1>10. Placed(p, m, s, [NextRound(t) EXCEPT !.empty = TRUE])
  BY <1>1, <1>2, <1>6, PlacedOn
<1>11. QED
  BY <1>7, <1>8, <1>9, <1>10

LEMMA ReuseLed ==
  ASSUME DispatchInv, LedgerInv, NEW i \in Instances, NEW s \in Steps, Reuse(i, s)
  PROVE  LedgerInv'
<1> DEFINE led == rt[i].led
           t == rt[i].task[s]
           k == StepKey(s, t)
<1>1. At(i, s, "ask") /\ UnchangedRun
  BY DEF Reuse
<1>2. /\ rt[i].pc = "run" /\ t \in Tasks /\ Proper(s, t) /\ t.pc = "ask"
      /\ Placed(plan, led, s, t) /\ k \in ModelKeys
  BY <1>1, AtStep, AtPlaced, KeyTypes
<1>3. \/ led.model[k] = "text" /\ Note(i, s, After(s, t))
      \/ led.model[k] = "tool" /\ Note(i, s, [t EXCEPT !.pc = "tool"])
      \/ Fail(i, s, t)
  BY DEF Reuse
<1>4. CASE Fail(i, s, t)
  BY <1>1, <1>4, FailLed
<1>5. ASSUME led.model[k] \in {"text", "tool"}
      PROVE  Placed(plan, led, s, After(s, t)) /\ Placed(plan, led, s, [t EXCEPT !.pc = "tool"])
  <2>1. led.model[k] \in Succeeded
    BY <1>5 DEF Succeeded, Answers
  <2>2. k \in Answered(led, s, t.att, "step")
    BY <1>2, <2>1 DEF Answered, StepKey
  <2> HIDE DEF led, t
  <2>3. QED
    BY <1>2, <2>2, PlacedAnswered DEF k
<1>6. CASE led.model[k] = "text" /\ Note(i, s, After(s, t))
  <2>1. Placed(plan, rt[i].led, s, After(s, t))
    BY <1>5, <1>6
  <2> HIDE DEF led, t, k
  <2>2. QED
    BY <1>1, <1>2, <1>6, <2>1, NoteWrites
<1>7. CASE led.model[k] = "tool" /\ Note(i, s, [t EXCEPT !.pc = "tool"])
  <2>1. Placed(plan, rt[i].led, s, [t EXCEPT !.pc = "tool"])
    BY <1>5, <1>7
  <2> HIDE DEF led, t, k
  <2>2. QED
    BY <1>1, <1>2, <1>7, <2>1, NoteWrites
<1>8. QED
  BY <1>3, <1>4, <1>6, <1>7

LEMMA AnswerLed ==
  ASSUME DispatchInv, LedgerInv, NEW i \in Instances, NEW s \in Steps, Answer(i, s)
  PROVE  LedgerInv'
<1> DEFINE t == rt[i].task[s]
           k == StepKey(s, t)
<1>1. At(i, s, "calling") /\ UnchangedRun
  BY DEF Answer
<1>2. /\ rt[i].pc = "run" /\ t \in Tasks /\ Proper(s, t) /\ t.pc = "calling"
      /\ rt[i].led \in Books /\ Valid(plan, rt[i].led) /\ plan \in Plans
      /\ rt[i].led.phase # "completed" /\ Placed(plan, rt[i].led, s, t)
      /\ t.idx > 0 => Has(rt[i].led, s, t, "step", t.idx - 1)
  BY <1>1, AtStep, AtPlaced
<1>3. /\ k \in ModelKeys /\ k[1] = s
      /\ k[4] > 0 => rt[i].led.model[<<k[1], k[2], k[3], k[4] - 1>>] # "none"
  BY <1>2, Before
<1>4. PICK answer \in Answers, usage \in BOOLEAN :
        /\ answer = "tool" => s \in Tools
        /\ \/ FailWith(i, s, t, Accounted(rt[i].led, k, answer, usage))
           \/ Commit(i, s, After(s, t), Accounted(rt[i].led, k, answer, usage))
           \/ Commit(i, s, [t EXCEPT !.pc = "tool"], Accounted(rt[i].led, k, answer, usage))
           \/ Commit(i, s, [NextRound(t) EXCEPT !.empty = TRUE],
                        Accounted(rt[i].led, k, answer, usage))
  BY DEF Answer, Answers
<1> DEFINE led == Accounted(rt[i].led, k, answer, usage)
<1>k. k = <<s, t.att, "step", t.idx>>
  BY DEF StepKey
<1> HIDE DEF t, k
<1>5. led \in Books
  BY <1>2, <1>3, <1>4, AccountedBook DEF Succeeded
<1>6. /\ Advances(plan, k[1], rt[i].led, led) /\ k \in Answered(led, k[1], k[2], k[3])
      /\ \A v, n, x : Answered(rt[i].led, v, n, x) \subseteq Answered(led, v, n, x)
      /\ led.retry = rt[i].led.retry /\ led.done = rt[i].led.done
  <2>1. answer \in Succeeded
    BY DEF Succeeded
  <2>2. QED
    BY <1>2, <1>3, <2>1, AccountedAdvances
<1> HIDE DEF led
<1>7. Advances(plan, s, rt[i].led, led) /\ StepKey(s, t) \in Answered(led, s, t.att, "step")
  BY <1>3, <1>6, <1>k DEF k
<1>8. /\ Placed(plan, led, s, After(s, t)) /\ Placed(plan, led, s, [t EXCEPT !.pc = "tool"])
      /\ Placed(plan, led, s, [NextRound(t) EXCEPT !.empty = TRUE])
  BY <1>2, <1>6, <1>7, PlacedAnswered
<1>9. Placed(plan, led, s, [t EXCEPT !.pc = "failed"])
  <2> DEFINE u == [t EXCEPT !.pc = "failed"]
  <2>1. /\ u.pc = "failed" /\ u.att = t.att /\ u.idx = t.idx /\ u.got = t.got
        /\ t.idx \in Nat /\ t.got \in Nat
    BY <1>2, Bounds DEF Tasks
  <2> HIDE DEF u
  <2>2. Placed(plan, led, s, u)
    BY <1>2, <1>6, <2>1, PlacedOn
  <2>3. QED
    BY <2>2 DEF u
<1>10. CASE FailWith(i, s, t, led)
  BY <1>1, <1>2, <1>5, <1>7, <1>9, <1>10, FailWrites DEF Proper
<1>11. CASE Commit(i, s, After(s, t), led)
  BY <1>1, <1>2, <1>5, <1>7, <1>8, <1>11, CommitWrites
<1>12. CASE Commit(i, s, [t EXCEPT !.pc = "tool"], led)
  BY <1>1, <1>2, <1>5, <1>7, <1>8, <1>12, CommitWrites
<1>13. CASE Commit(i, s, [NextRound(t) EXCEPT !.empty = TRUE], led)
  BY <1>1, <1>2, <1>5, <1>7, <1>8, <1>13, CommitWrites
<1>14. QED
  BY <1>4, <1>10, <1>11, <1>12, <1>13 DEF led

(***************************************************************************)
(* The calls to tools.                                                     *)
(***************************************************************************)
\* How a tool's call that was made comes out.
LEMMA Settled ==
  ASSUME DispatchInv, LedgerInv, NEW i \in Instances, NEW s \in Steps, At(i, s, "tooling"),
         NEW v \in {"succeeded", "uncertain"}, NEW led,
         led = [rt[i].led EXCEPT !.tool[ToolKey(s, rt[i].task[s])] = v]
  PROVE  /\ led \in Books
         /\ Spending(rt[i].led) => Advances(plan, s, rt[i].led, led)
         /\ led.done = rt[i].led.done /\ led.retry = rt[i].led.retry
         /\ led.model = rt[i].led.model
         /\ Has(led, s, rt[i].task[s], "step", rt[i].task[s].idx)
<1> DEFINE t == rt[i].task[s]
           k == ToolKey(s, t)
<1>1. /\ t \in Tasks /\ Proper(s, t) /\ t.pc = "tooling" /\ rt[i].led \in Books
      /\ Valid(plan, rt[i].led) /\ Placed(plan, rt[i].led, s, t)
  BY AtStep, AtPlaced
<1>2. k \in ToolKeys /\ k[1] = s /\ k = <<s, t.att, t.idx>>
  BY <1>1, KeyTypes DEF Proper, ToolKey
<1>3. /\ Has(rt[i].led, s, t, "step", t.idx)
      /\ Spending(rt[i].led) => rt[i].led.tool[k] = "running"
  BY <1>1 DEF Placed
<1>4. rt[i].led.model[<<k[1], k[2], "step", k[3]>>] \in Succeeded
  BY <1>2, <1>3 DEF Has, Answered
<1> HIDE DEF k, t
<1>5. led \in Books
  BY <1>1, SetTool DEF ToolStates, t
<1>6. led = [rt[i].led EXCEPT !.tool[k] = v]
  BY DEF k, t
<1>7. /\ led.model = rt[i].led.model /\ led.done = rt[i].led.done
      /\ led.retry = rt[i].led.retry
  BY <1>1, <1>2, <1>6, ToolFields
<1>8. Spending(rt[i].led) => Advances(plan, s, rt[i].led, led)
  BY <1>1, <1>2, <1>3, <1>4, <1>6, ToolAdvances DEF ToolStates
<1>9. Has(led, s, t, "step", t.idx)
  BY <1>3, <1>7 DEF Has, Answered
<1>10. QED
  BY <1>5, <1>7, <1>8, <1>9 DEF t

LEMMA TimeoutLed ==
  ASSUME DispatchInv, LedgerInv, NEW i \in Instances, NEW s \in Steps, Timeout(i, s)
  PROVE  LedgerInv'
<1> DEFINE t == rt[i].task[s]
           again == [t EXCEPT !.pc = "ask", !.idx = 0, !.compact = TRUE, !.empty = FALSE]
           led == [rt[i].led EXCEPT !.tool[ToolKey(s, t)] = "uncertain"]
<1>1. PICK pc \in {"ask", "calling", "tooling"} : At(i, s, pc) /\ UnchangedRun
  BY DEF Timeout
<1>2. /\ rt[i].pc = "run" /\ t \in Tasks /\ t.pc = pc /\ Placed(plan, rt[i].led, s, t)
      /\ t.idx \in Nat /\ t.got \in Nat
  BY <1>1, AtStep, AtPlaced, Bounds DEF Tasks
<1>3. PICK next \in {again, [t EXCEPT !.pc = "failed"]} :
        \/ t.pc = "tooling" /\ Record(i, s, next, led, <<>>, <<Event>>)
        \/ Note(i, s, next)
  BY DEF Timeout
<1>4. /\ next.pc \in {"ask", "failed"} /\ next.att = t.att /\ next.got = t.got
      /\ next.idx = t.idx \/ next.idx = 0
  BY <1>2, <1>3 DEF Tasks
<1> HIDE DEF t, led, again
<1>5. Placed(plan, rt[i].led, s, next)
  BY <1>1, <1>2, <1>4, PlacedAgain
<1>6. CASE Note(i, s, next)
  BY <1>1, <1>2, <1>5, <1>6, NoteWrites
<1>7. CASE t.pc = "tooling" /\ Record(i, s, next, led, <<>>, <<Event>>)
  <2>1. At(i, s, "tooling")
    BY <1>1, <1>2, <1>7
  <2>2. /\ led \in Books
        /\ Spending(rt[i].led) => Advances(plan, s, rt[i].led, led)
        /\ led.done = rt[i].led.done /\ led.retry = rt[i].led.retry
        /\ led.model = rt[i].led.model
    BY <2>1, Settled DEF led, t
  <2>3. \A a, x : Answered(rt[i].led, s, a, x) \subseteq Answered(led, s, a, x)
    BY <2>2 DEF Answered
  <2>4. Placed(plan, led, s, next)
    BY <1>2, <1>4, <1>7, <2>2, <2>3, PlacedOn
  <2>5. Spending(rt[i].led) => Advances(plan, s, rt[i].led, led) /\ Placed(plan, led, s, next)
    BY <2>2, <2>4
  <2>6. QED
    BY <1>1, <1>2, <1>5, <1>7, <2>2, <2>5, Pauses, RecordWrites
<1>8. QED
  BY <1>3, <1>6, <1>7

LEMMA ModelStepLed ==
  ASSUME DispatchInv, LedgerInv, NEW i \in Instances, NEW s \in Steps, ModelStep(i, s)
  PROVE  LedgerInv'
<1>1. CASE Mismatch(i, s) \/ ModelFails(i, s)
  BY <1>1, FailLed DEF Mismatch, ModelFails
<1>2. QED
  BY <1>1, AskLed, ReuseLed, AnswerLed, TimeoutLed DEF ModelStep

LEMMA ToolReturnsLed ==
  ASSUME DispatchInv, LedgerInv, NEW i \in Instances, NEW s \in Steps, ToolReturns(i, s)
  PROVE  LedgerInv'
<1> DEFINE t == rt[i].task[s]
           led == [rt[i].led EXCEPT !.tool[ToolKey(s, t)] = "succeeded"]
           u == NextRound(t)
<1>1. At(i, s, "tooling") /\ UnchangedRun /\ Record(i, s, u, led, <<Event>>, <<>>)
  BY DEF ToolReturns
<1>2. /\ rt[i].pc = "run" /\ t \in Tasks /\ t.pc = "tooling" /\ Placed(plan, rt[i].led, s, t)
      /\ t.idx \in Nat /\ t.got \in Nat
  BY <1>1, AtStep, AtPlaced, Bounds DEF Tasks
<1>3. u.pc = "ask" /\ u.att = t.att /\ u.idx = t.idx + 1 /\ u.got = t.got
  BY <1>2 DEF NextRound, Tasks
<1> HIDE DEF t, u, led
<1>4. /\ led \in Books
      /\ Spending(rt[i].led) => Advances(plan, s, rt[i].led, led)
      /\ led.done = rt[i].led.done /\ led.retry = rt[i].led.retry
      /\ led.model = rt[i].led.model /\ Has(led, s, t, "step", t.idx)
  BY <1>1, Settled DEF led, t
<1>5. \A a, x : Answered(rt[i].led, s, a, x) = Answered(led, s, a, x)
  BY <1>4 DEF Answered
<1>6. Has(rt[i].led, s, t, "step", t.idx)
  BY <1>4, <1>5 DEF Has
<1>7. Placed(plan, led, s, u)
  BY <1>2, <1>3, <1>4, <1>5, PlacedOn
<1>8. Placed(plan, rt[i].led, s, u)
  BY <1>2, <1>3, <1>6, PlacedOn
<1>9. Spending(rt[i].led) => Advances(plan, s, rt[i].led, led) /\ Placed(plan, led, s, u)
  BY <1>4, <1>7
<1>10. QED
  BY <1>1, <1>2, <1>4, <1>8, <1>9, Pauses, RecordWrites

LEMMA ToolFailsLed ==
  ASSUME DispatchInv, LedgerInv, NEW i \in Instances, NEW s \in Steps, ToolFails(i, s)
  PROVE  LedgerInv'
<1> DEFINE t == rt[i].task[s]
           led == [rt[i].led EXCEPT !.tool[ToolKey(s, t)] = "uncertain"]
           u == [t EXCEPT !.pc = "failed"]
<1>1. At(i, s, "tooling") /\ UnchangedRun /\ Record(i, s, u, led, <<Event>>, <<Event>>)
  BY DEF ToolFails
<1>2. /\ rt[i].pc = "run" /\ t \in Tasks /\ t.pc = "tooling" /\ Placed(plan, rt[i].led, s, t)
      /\ t.idx \in Nat /\ t.got \in Nat
  BY <1>1, AtStep, AtPlaced, Bounds DEF Tasks
<1>3. u.pc = "failed" /\ u.att = t.att /\ u.idx = t.idx /\ u.got = t.got
  BY <1>2 DEF Tasks
<1> HIDE DEF t, u, led
<1>4. /\ led \in Books
      /\ Spending(rt[i].led) => Advances(plan, s, rt[i].led, led)
      /\ led.done = rt[i].led.done /\ led.retry = rt[i].led.retry
      /\ led.model = rt[i].led.model
  BY <1>1, Settled DEF led, t
<1>5. \A a, x : Answered(rt[i].led, s, a, x) \subseteq Answered(led, s, a, x)
  BY <1>4 DEF Answered
<1>6. Placed(plan, led, s, u)
  BY <1>2, <1>3, <1>4, <1>5, PlacedOn
<1>7. Placed(plan, rt[i].led, s, u)
  BY <1>2, <1>3, PlacedAgain
<1>8. Spending(rt[i].led) => Advances(plan, s, rt[i].led, led) /\ Placed(plan, led, s, u)
  BY <1>4, <1>6
<1>9. QED
  BY <1>1, <1>2, <1>4, <1>7, <1>8, Pauses, RecordWrites

LEMMA ReuseToolLed ==
  ASSUME DispatchInv, LedgerInv, NEW i \in Instances, NEW s \in Steps, ReuseTool(i, s)
  PROVE  LedgerInv'
<1> DEFINE t == rt[i].task[s]
           u == NextRound(t)
<1>1. /\ At(i, s, "tool") /\ UnchangedRun
      /\ Note(i, s, u) \/ Fail(i, s, t)
  BY DEF ReuseTool
<1>2. /\ rt[i].pc = "run" /\ t \in Tasks /\ t.pc = "tool" /\ Placed(plan, rt[i].led, s, t)
      /\ t.idx \in Nat /\ t.got \in Nat
  BY <1>1, AtStep, AtPlaced, Bounds DEF Tasks
<1>3. u.pc = "ask" /\ u.att = t.att /\ u.idx = t.idx + 1 /\ u.got = t.got
  BY <1>2 DEF NextRound, Tasks
<1>4. CASE Fail(i, s, t)
  BY <1>1, <1>4, FailLed
<1>5. CASE Note(i, s, u)
  <2> HIDE DEF t, u
  <2>1. Has(rt[i].led, s, t, "step", t.idx)
    BY <1>2 DEF Placed
  <2>2. Placed(plan, rt[i].led, s, u)
    BY <1>2, <1>3, <2>1, PlacedOn
  <2>3. QED
    BY <1>1, <1>2, <1>5, <2>2, NoteWrites
<1>6. QED
  BY <1>1, <1>4, <1>5

LEMMA StartToolLed ==
  ASSUME DispatchInv, LedgerInv, NEW i \in Instances, NEW s \in Steps, StartTool(i, s)
  PROVE  LedgerInv'
<1> DEFINE r == rt[i]
           t == r.task[s]
           u == [t EXCEPT !.pc = "tooling"]
           k == ToolKey(s, t)
           prepared == [r.led EXCEPT !.tool[k] = "prepared"]
           running == [prepared EXCEPT !.tool[k] = "running"]
           led == IF Spending(r.led) THEN running ELSE r.led
           w == IF Spending(r.led) THEN <<Checkpoint(prepared), Event, Checkpoint(running)>>
                ELSE <<Event>>
           n == [r EXCEPT !.task[s].pc = "tooling", !.ran = @ \cup {k}, !.led = led,
                          !.queue = @ \o w]
<1>1. /\ At(i, s, "tool") /\ UnchangedRun
      /\ r.led.tool[k] \in {"none", "prepared"} \/ (r.led.tool[k] = "running" /\ Safe(k))
      /\ rt' = [rt EXCEPT ![i] = n]
  BY DEF StartTool
<1>2. /\ r.pc = "run" /\ r \in Coordinators /\ t \in Tasks /\ Proper(s, t) /\ t.pc = "tool"
      /\ r.led \in Books /\ r.queue \in Seq(BookItems)
      /\ Valid(plan, r.led) /\ Placed(plan, r.led, s, t)
  BY <1>1, AtStep, AtPlaced
<1>3. k \in ToolKeys /\ k[1] = s /\ k = <<s, t.att, t.idx>> /\ ToolKey(s, t) = k
  BY <1>2, KeyTypes DEF Proper, ToolKey
<1>4. u.pc = "tooling" /\ u.att = t.att /\ u.idx = t.idx /\ u.got = t.got
  BY <1>2 DEF Tasks
<1>5. /\ n.pc = "run" /\ n.task = [r.task EXCEPT ![s] = u] /\ n.led = led
      /\ n.queue = r.queue \o w /\ n.asked = r.asked /\ n.ran = r.ran \cup {k}
  BY <1>2 DEF Coordinators
<1> HIDE DEF n, t, u, k
<1>6. Has(r.led, s, t, "step", t.idx)
  BY <1>2 DEF Placed
<1>7. r.led.model[<<k[1], k[2], "step", k[3]>>] \in Succeeded
  BY <1>3, <1>6 DEF Has, Answered
<1> HIDE DEF r
<1>8. /\ prepared \in Books /\ Advances(plan, s, r.led, prepared)
      /\ prepared.tool[k] = "prepared" /\ prepared.model = r.led.model
      /\ prepared.done = r.led.done /\ prepared.retry = r.led.retry
  <2>1. prepared \in Books
    BY <1>2, SetTool DEF ToolStates
  <2>2. Advances(plan, s, r.led, prepared)
    BY <1>1, <1>2, <1>3, <1>7, ToolAdvances DEF ToolStates
  <2>3. /\ prepared.tool[k] = "prepared" /\ prepared.model = r.led.model
        /\ prepared.done = r.led.done /\ prepared.retry = r.led.retry
    BY <1>2, <1>3 DEF Books, Ledgers
  <2>4. QED
    BY <2>1, <2>2, <2>3
<1> HIDE DEF prepared
<1>9. /\ running \in Books /\ Advances(plan, s, prepared, running)
      /\ running.tool[k] = "running" /\ running.model = prepared.model
      /\ running.done = prepared.done /\ running.retry = prepared.retry
  <2>1. running \in Books
    BY <1>8, SetTool DEF ToolStates
  <2>2. Valid(plan, prepared) /\ prepared.model[<<k[1], k[2], "step", k[3]>>] \in Succeeded
    BY <1>7, <1>8 DEF Advances
  <2>3. Advances(plan, s, prepared, running)
    BY <1>3, <1>8, <2>2, ToolAdvances DEF ToolStates
  <2>4. QED
    BY <1>3, <1>8, <2>1, <2>3, ToolFields
<1> HIDE DEF running
<1>10. led \in Books /\ Advances(plan, s, r.led, led)
  BY <1>2, <1>8, <1>9, AdvancesOn, AdvancesItself
<1>11. /\ led.model = r.led.model /\ led.done = r.led.done /\ led.retry = r.led.retry
       /\ Spending(led) => led.tool[k] = "running"
  BY <1>8, <1>9
<1>12. \A d : Trail(plan, d, r.queue, r.led) => Trail(plan, d, r.queue \o w, led)
  <2>1. CASE Spending(r.led)
    <3>1. PICK a \in Seq(BookItems) :
            /\ a = Append(r.queue, Checkpoint(prepared))
            /\ \A d : Trail(plan, d, r.queue, r.led) => Trail(plan, d, a, prepared)
      <4>1. Append(r.queue, Checkpoint(prepared)) \in Seq(BookItems)
        BY <1>2, <1>8, ItemTypes
      <4>2. QED
        BY <1>2, <1>8, <4>1, TrailCheckpoint
    <3>2. \A d : Trail(plan, d, a, prepared)
                   => Trail(plan, d, a \o <<Event, Checkpoint(running)>>, running)
      BY <1>8, <1>9, TrailCommit
    <3>3. r.queue \o w = a \o <<Event, Checkpoint(running)>> /\ led = running
      <4>1. PICK x, y, z \in BookItems :
              x = Checkpoint(prepared) /\ y = Event /\ z = Checkpoint(running)
        BY <1>8, <1>9, ItemTypes
      <4>2. r.queue \o <<x, y, z>> = Append(Append(Append(r.queue, x), y), z)
        BY <1>2, Appended
      <4>3. a \o <<y, z>> = Append(Append(a, y), z)
        BY Appended
      <4>4. QED
        BY <2>1, <3>1, <4>1, <4>2, <4>3
    <3>4. QED
      BY <3>1, <3>2, <3>3
  <2>2. CASE ~Spending(r.led)
    <3>1. \A d : Trail(plan, d, r.queue, r.led) => Trail(plan, d, r.queue \o <<Event>>, r.led)
      BY <1>2, Pauses, TrailPauses
    <3>2. QED
      BY <2>2, <3>1
  <2>3. QED
    BY <2>1, <2>2
<1> HIDE DEF led, w
<1>13. Placed(plan, led, s, u)
  <2>1. Has(led, s, u, "step", u.idx)
    BY <1>4, <1>6, <1>11 DEF Has, Answered
  <2>2. \A a, x : Answered(led, s, a, x) = Answered(r.led, s, a, x)
    BY <1>11 DEF Answered
  <2>3. ToolKey(s, u) = k
    BY <1>3, <1>4 DEF ToolKey
  <2>4. QED
    BY <1>2, <1>4, <1>11, <2>1, <2>2, <2>3 DEF Placed, Has
<1>14. Spending(n.led) => /\ \A j \in n.asked \ r.asked : n.led.model[j] # "none"
                          /\ \A j \in n.ran \ r.ran : n.led.tool[j] # "none"
  BY <1>5, <1>11
<1>15. Moves(plan, s, u, rt[i], n)
  BY <1>5, <1>10, <1>12, <1>13, <1>14 DEF Moves, r
<1>16. rt[i].pc = "run"
  BY <1>2 DEF r
<1>17. QED
  BY <1>1, <1>15, <1>16, Written

LEMMA ToolStepLed ==
  ASSUME DispatchInv, LedgerInv, NEW i \in Instances, NEW s \in Steps, ToolStep(i, s)
  PROVE  LedgerInv'
BY StartToolLed, ReuseToolLed, ToolReturnsLed, ToolFailsLed DEF ToolStep

(***************************************************************************)
(* Reviews.                                                                *)
(***************************************************************************)
LEMMA RetriedFields ==
  ASSUME NEW t \in Tasks
  PROVE  /\ Retried(t).pc \in {"review", "done"} /\ Retried(t).att = t.att
         /\ Retried(t).idx = t.idx /\ Retried(t).got = t.got
BY DEF Retried, Tasks

LEMMA ReviewFailsLed ==
  ASSUME DispatchInv, LedgerInv, NEW i \in Instances, NEW s \in Steps, ReviewFails(i, s)
  PROVE  LedgerInv'
<1> DEFINE t == rt[i].task[s]
           u == Retried(t)
<1>1. PICK pc \in {"review", "reviewing"} : At(i, s, pc) /\ UnchangedRun
  BY DEF ReviewFails
<1>2. /\ rt[i].pc = "run" /\ t \in Tasks /\ t.pc = pc /\ rt[i].led \in Books
      /\ Valid(plan, rt[i].led) /\ Placed(plan, rt[i].led, s, t)
      /\ t.idx \in Nat /\ t.got \in Nat
  BY <1>1, AtStep, AtPlaced, Bounds DEF Tasks
<1>3. \/ Note(i, s, u)
      \/ Record(i, s, u, rt[i].led, <<Event>>, <<>>)
  BY DEF ReviewFails
<1>4. u.pc \in {"review", "done"} /\ u.att = t.att /\ u.idx = t.idx /\ u.got = t.got
  BY <1>2, RetriedFields
<1> HIDE DEF t, u
<1>5. Answered(rt[i].led, s, t.att, "step") # {}
  BY <1>1, <1>2 DEF Placed
<1>6. Placed(plan, rt[i].led, s, u)
  BY <1>1, <1>2, <1>4, <1>5, PlacedOn
<1>7. Spending(rt[i].led) => /\ Advances(plan, s, rt[i].led, rt[i].led)
                             /\ Placed(plan, rt[i].led, s, u)
  BY <1>2, <1>6, AdvancesItself
<1>8. CASE Note(i, s, u)
  BY <1>1, <1>2, <1>6, <1>8, NoteWrites
<1>9. CASE Record(i, s, u, rt[i].led, <<Event>>, <<>>)
  BY <1>1, <1>2, <1>6, <1>7, <1>9, Pauses, RecordWrites
<1>10. QED
  BY <1>3, <1>8, <1>9

LEMMA ReviewLed ==
  ASSUME DispatchInv, LedgerInv, NEW i \in Instances, NEW s \in Steps, Review(i, s)
  PROVE  LedgerInv'
<1> DEFINE r == rt[i]
           t == r.task[s]
           u == [t EXCEPT !.pc = "reviewing"]
           k == ReviewKey(r.led, s, t)
           prepared == [r.led EXCEPT !.model[k] = "prepared"]
           running == [r.led EXCEPT !.model[k] = "running"]
<1>1. /\ At(i, s, "review") /\ k[4] = t.got /\ r.led.model[k] = "none" /\ UnchangedRun
      /\ CallModel(i, s, "reviewing", k, prepared, running)
  BY DEF Review
<1>2. /\ r.pc = "run" /\ t \in Tasks /\ Proper(s, t) /\ t.pc = "review" /\ r.led \in Books
      /\ Valid(plan, r.led) /\ Placed(plan, r.led, s, t)
      /\ t.got > 0 => Has(r.led, s, t, "review", t.got - 1)
  BY <1>1, AtStep, AtPlaced
<1>3. /\ k = <<s, t.att, "review", t.got>> /\ k \in ModelKeys /\ k[1] = s
      /\ Cardinality(Answered(r.led, s, t.att, "review")) = t.got
  <2>1. /\ k = <<s, t.att, "review", t.got>>
        /\ Cardinality(Answered(r.led, s, t.att, "review")) = t.got
    BY <1>1 DEF ReviewKey
  <2>2. /\ t.att \in Attempts /\ t.got \in 0..Retries
        /\ t.got \in 0..(Rounds + Retries) /\ s \in Reviewed
    BY <1>2, Bounds DEF Tasks, Proper
  <2>3. QED
    BY <2>1, <2>2 DEF ModelKeys
<1>s. "none" \notin Succeeded /\ "prepared" \notin Succeeded /\ "running" \notin Succeeded
  BY DEF Succeeded, Answers, Verdicts
<1>u. u.pc = "reviewing" /\ u.att = t.att /\ u.idx = t.idx /\ u.got = t.got
  BY <1>2 DEF Tasks
<1> HIDE DEF r, t, k, u
<1>4. k[4] > 0 => r.led.model[<<k[1], k[2], k[3], k[4] - 1>>] # "none"
  <2>1. t.got > 0 => r.led.model[<<s, t.att, "review", t.got - 1>>] \in Succeeded
    BY <1>2 DEF Has, Answered
  <2>2. QED
    BY <1>3, <1>s, <2>1
<1>5. /\ prepared \in Books /\ Advances(plan, s, r.led, prepared)
      /\ prepared.model[k] = "prepared"
  <2>1. prepared \in Books
    BY <1>2, SetModel DEF States
  <2>2. Advances(plan, s, r.led, prepared)
    BY <1>1, <1>2, <1>3, <1>4, ModelAdvances DEF States
  <2>3. prepared.model[k] = "prepared"
    BY <1>2, <1>3, ModelFields
  <2>4. QED
    BY <2>1, <2>2, <2>3
<1>6. running = [prepared EXCEPT !.model[k] = "running"]
  BY <1>2, <1>3 DEF Books, Ledgers
<1>7. \A v, a, x : Answered(running, v, a, x) = Answered(r.led, v, a, x)
  <2>1. PICK m : m = [r.led EXCEPT !.model[k] = "running"]
    OBVIOUS
  <2>2. r.led.model[k] \notin Succeeded
    BY <1>1, <1>s
  <2>3. \A v, a, x : Answered(m, v, a, x) = Answered(r.led, v, a, x)
    <3>1. \A j \in ModelKeys : m.model[j] = IF j = k THEN "running" ELSE r.led.model[j]
      BY <1>2, <1>3, <2>1, ModelFields
    <3>2. QED
      BY <1>s, <2>2, <3>1 DEF Answered
  <2>4. QED
    BY <2>1, <2>3
<1>8. /\ running.done = r.led.done /\ running.retry = r.led.retry
      /\ running.model[k] = "running"
  BY <1>2, <1>3, ModelFields
<1> HIDE DEF prepared, running
<1>9. running \in Books /\ Advances(plan, s, prepared, running)
  <2>1. running \in Books /\ Valid(plan, prepared)
    BY <1>5, <1>6, SetModel DEF States, Advances
  <2>2. k[4] > 0 => prepared.model[<<k[1], k[2], k[3], k[4] - 1>>] # "none"
    BY <1>3, <1>5, <2>1 DEF Valid, CallsInOrder
  <2>3. Advances(plan, s, prepared, running)
    BY <1>3, <1>5, <1>6, <2>1, <2>2, ModelAdvances DEF States
  <2>4. QED
    BY <2>1, <2>3
<1>10. Placed(plan, r.led, s, u) /\ Placed(plan, running, s, u)
  <2>1. Placed(plan, r.led, s, u)
    BY <1>2, <1>3, <1>u DEF Placed, Has
  <2>2. QED
    BY <1>u, <1>7, <1>8, <2>1 DEF Placed, Has
<1>11. /\ rt[i].pc = "run" /\ UnchangedRun
       /\ CallModel(i, s, "reviewing", k, prepared, running)
       /\ Advances(plan, s, rt[i].led, prepared) /\ running.model[k] # "none"
       /\ Placed(plan, running, s, [rt[i].task[s] EXCEPT !.pc = "reviewing"])
       /\ Placed(plan, rt[i].led, s, [rt[i].task[s] EXCEPT !.pc = "reviewing"])
  BY <1>1, <1>2, <1>5, <1>8, <1>10 DEF r, t, u
<1>12. QED
  BY <1>3, <1>5, <1>9, <1>11, CallWrites

LEMMA VerdictLed ==
  ASSUME DispatchInv, LedgerInv, NEW i \in Instances, NEW s \in Steps, Verdict(i, s)
  PROVE  LedgerInv'
<1> DEFINE u == rt[i].task[s]
           t == [u EXCEPT !.got = @ + 1]
           k == ReviewKey(rt[i].led, s, u)
           led(v, usage) == Accounted(rt[i].led, k, v, usage)
<1>1. At(i, s, "reviewing") /\ UnchangedRun
  BY DEF Verdict
<1>2. /\ rt[i].pc = "run" /\ u \in Tasks /\ Proper(s, u) /\ u.pc = "reviewing"
      /\ rt[i].led \in Books /\ Valid(plan, rt[i].led) /\ plan \in Plans
      /\ rt[i].led.phase # "completed" /\ Placed(plan, rt[i].led, s, u)
      /\ u.idx \in Nat /\ u.got \in Nat /\ u.att \in Attempts
  BY <1>1, AtStep, AtPlaced, Bounds DEF Tasks
<1>p. /\ s \in DOMAIN plan.after \ rt[i].led.done /\ plan.after[s] \subseteq rt[i].led.done
      /\ Answered(rt[i].led, s, u.att, "step") # {}
      /\ Cardinality(Answered(rt[i].led, s, u.att, "review")) = u.got
      /\ u.got > 0 => Has(rt[i].led, s, u, "review", u.got - 1)
  BY <1>2 DEF Placed
<1>3. /\ t.pc = "reviewing" /\ t.att = u.att /\ t.idx = u.idx
      /\ t.got = u.got + 1 /\ t \in Tasks
  <2>1. u.got + 1 \in 0..(Retries + 1)
    BY <1>2, Bounds DEF Tasks, Proper
  <2>2. QED
    BY <1>2, <2>1 DEF Tasks
<1>4. /\ k = <<s, u.att, "review", u.got>> /\ k \in ModelKeys /\ k[1] = s
  <2>1. k = <<s, u.att, "review", u.got>>
    BY <1>p DEF ReviewKey
  <2>2. u.got \in 0..Retries /\ u.got \in 0..(Rounds + Retries) /\ s \in Reviewed
    BY <1>2, Bounds DEF Tasks, Proper
  <2>3. QED
    BY <1>2, <2>1, <2>2 DEF ModelKeys
<1>5. k[4] > 0 => rt[i].led.model[<<k[1], k[2], k[3], k[4] - 1>>] # "none"
  <2>1. u.got > 0 => rt[i].led.model[<<s, u.att, "review", u.got - 1>>] \in Succeeded
    BY <1>p DEF Has, Answered
  <2>2. "none" \notin Succeeded
    BY DEF Succeeded, Answers, Verdicts
  <2>3. QED
    BY <1>4, <2>1, <2>2
<1>6. PICK verdict \in Verdicts, usage \in BOOLEAN :
        \/ Commit(i, s, Retried(t), led(verdict, usage))
        \/ Commit(i, s, [t EXCEPT !.pc = "done"], led(verdict, usage))
        \/ Commit(i, s, [t EXCEPT !.pc = "revise"], led(verdict, usage))
        \/ FailWith(i, s, t, led(verdict, usage))
  BY DEF Verdict, Verdicts
<1> DEFINE m == led(verdict, usage)
<1>7. \/ Commit(i, s, Retried(t), m)
      \/ Commit(i, s, [t EXCEPT !.pc = "done"], m)
      \/ Commit(i, s, [t EXCEPT !.pc = "revise"], m)
      \/ FailWith(i, s, t, m)
  BY <1>6
<1> HIDE DEF k
<1>8. m \in Books
  BY <1>2, <1>6, AccountedBook DEF Succeeded, Verdicts
<1>9. /\ Advances(plan, s, rt[i].led, m) /\ k \in Answered(m, s, u.att, "review")
      /\ \A v, a, x : Answered(rt[i].led, v, a, x) \subseteq Answered(m, v, a, x)
      /\ m.retry = rt[i].led.retry /\ m.done = rt[i].led.done
  <2>1. verdict \in Succeeded
    BY DEF Succeeded
  <2>2. /\ Advances(plan, k[1], rt[i].led, m) /\ k \in Answered(m, k[1], k[2], k[3])
        /\ \A v, a, x : Answered(rt[i].led, v, a, x) \subseteq Answered(m, v, a, x)
        /\ m.retry = rt[i].led.retry /\ m.done = rt[i].led.done
    BY <1>2, <1>4, <1>5, <2>1, AccountedAdvances
  <2> HIDE DEF m
  <2>3. k[2] = u.att /\ k[3] = "review"
    BY <1>4
  <2>4. QED
    BY <1>4, <2>2, <2>3
<1> HIDE DEF t, u, m
<1>10. Has(m, s, u, "review", u.got) /\ Answered(m, s, u.att, "step") # {}
  BY <1>4, <1>9, <1>p DEF Has
<1>11. ASSUME NEW x, x.pc \in {"review", "revise", "done", "failed"}, x.att = u.att, x.idx = u.idx,
              x.got = u.got + 1
       PROVE  Placed(plan, m, s, x)
  BY <1>2, <1>9, <1>10, <1>11, PlacedOn
<1>12. CASE Commit(i, s, Retried(t), m)
  <2>1. Placed(plan, m, s, Retried(t))
    BY <1>3, <1>11, RetriedFields
  <2>2. QED
    BY <1>1, <1>2, <1>8, <1>9, <1>12, <2>1, CommitWrites
<1>13. ASSUME NEW pc \in {"revise", "done"}, Commit(i, s, [t EXCEPT !.pc = pc], m)
       PROVE  LedgerInv'
  <2> DEFINE x == [t EXCEPT !.pc = pc]
  <2>1. x.pc = pc /\ x.att = t.att /\ x.idx = t.idx /\ x.got = t.got
    BY <1>3 DEF Tasks
  <2> HIDE DEF x
  <2>2. Placed(plan, m, s, x)
    BY <1>3, <1>11, <2>1
  <2>3. Commit(i, s, x, m)
    BY <1>13 DEF x
  <2>4. QED
    BY <1>1, <1>2, <1>8, <1>9, <2>2, <2>3, CommitWrites
<1>15. CASE FailWith(i, s, t, m)
  <2> DEFINE x == [t EXCEPT !.pc = "failed"]
  <2>1. x.pc = "failed" /\ x.att = t.att /\ x.idx = t.idx /\ x.got = t.got
    BY <1>3 DEF Tasks
  <2> HIDE DEF x
  <2>2. Placed(plan, m, s, x)
    BY <1>3, <1>11, <2>1
  <2>3. t.att > 0 => s \in Reviewed
    BY <1>2, <1>3 DEF Proper
  <2>4. QED
    BY <1>1, <1>2, <1>3, <1>8, <1>9, <1>15, <2>2, <2>3, FailWrites DEF x
<1>16. QED
  BY <1>7, <1>12, <1>13, <1>15

LEMMA ReviseLed ==
  ASSUME DispatchInv, LedgerInv, NEW i \in Instances, NEW s \in Steps, Revise(i, s)
  PROVE  LedgerInv'
<1> DEFINE u == rt[i].task[s]
           next(n) == [NoTask EXCEPT !.pc = "ask", !.att = n]
<1>1. /\ At(i, s, "revise") /\ UnchangedRun
      /\ Record(i, s, next(u.att + 1), [rt[i].led EXCEPT !.retry[s] = u.att + 1],
                <<Event>>, <<Event>>)
  BY DEF Revise
<1>2. /\ rt[i].pc = "run" /\ u \in Tasks /\ Proper(s, u) /\ u.pc = "revise"
      /\ rt[i].led \in Books /\ Valid(plan, rt[i].led) /\ Placed(plan, rt[i].led, s, u)
      /\ rt[i].led.retry[s] <= u.att
      /\ s \in DOMAIN plan.after \ rt[i].led.done /\ plan.after[s] \subseteq rt[i].led.done
  BY <1>1, AtStep, AtPlaced
<1>3. /\ s \in Reviewed /\ u.att \in Attempts /\ u.att < Retries
      /\ rt[i].led.retry[s] \in Nat
  BY <1>2, LedgerTypes DEF Proper, Tasks
<1> HIDE DEF u
<1>4. PICK n \in Attempts : n = u.att + 1 /\ rt[i].led.retry[s] <= n
  BY <1>2, <1>3, Bounds DEF Attempts
<1>5. PICK l \in Books : l = [rt[i].led EXCEPT !.retry[s] = n]
  BY <1>2, <1>3, SetRetry
<1>6. /\ Advances(plan, s, rt[i].led, l)
      /\ l.retry[s] = n /\ l.done = rt[i].led.done
  <2>1. PICK old \in Books : old = rt[i].led
    BY <1>2
  <2>2. Advances(plan, s, old, l)
    BY <1>2, <1>4, <1>5, <2>1, RetryAdvances
  <2>3. l.retry[s] = n /\ l.done = old.done
    BY <1>5, <2>1 DEF Books, Ledgers
  <2>4. QED
    BY <2>1, <2>2, <2>3
<1>7. next(n).pc = "ask" /\ next(n).att = n /\ next(n).idx = 0 /\ next(n).got = 0
  BY DEF NoTask
<1> HIDE DEF next
<1>8. n <= n
  BY DEF Attempts
<1>9. Placed(plan, rt[i].led, s, next(n)) /\ Placed(plan, l, s, next(n))
  BY <1>2, <1>4, <1>6, <1>7, <1>8 DEF Placed
<1>10. Record(i, s, next(n), l, <<Event>>, <<Event>>)
  BY <1>1, <1>4, <1>5
<1>11. QED
  BY <1>1, <1>2, <1>6, <1>9, <1>10, Pauses, RecordWrites

(***************************************************************************)
(* The frontier, and the ways a coordinator ends.                          *)
(***************************************************************************)
LEMMA CollectLed ==
  ASSUME DispatchInv, LedgerInv, NEW i \in Instances, NEW s \in Steps, Collect(i, s)
  PROVE  LedgerInv'
<1> DEFINE r == rt[i]
           t == r.task[s]
           done == r.led.done \cup {s}
           phase == IF done = PlanSteps THEN "completed" ELSE "running"
           torn == r.led.torn
                     \/ Cardinality(Answered(r.led, s, t.att, "review")) # t.got
           kept == [r.led EXCEPT !.retry[s] = t.att]
           led == [kept EXCEPT !.done = done, !.phase = phase, !.torn = torn]
<1>1. At(i, s, "done") /\ UnchangedRun
  BY DEF Collect
<1>2. /\ r.pc = "run" /\ t \in Tasks /\ Proper(s, t) /\ r.led \in Books
      /\ t.pc = "done" /\ Valid(plan, r.led) /\ Placed(plan, r.led, s, t)
      /\ s \in DOMAIN plan.after \ r.led.done /\ plan.after[s] \subseteq r.led.done
      /\ r.led.retry[s] <= t.att
  BY <1>1, AtStep, AtPlaced
<1>a. t.att \in Attempts /\ (t.att > 0 => s \in Reviewed) /\ t.att <= t.att
  BY <1>2 DEF Tasks, Proper, Attempts
<1>3. Record(i, s, NoTask, led, <<>>, <<>>)
  <2>1. led = [r.led EXCEPT !.done = done, !.retry[s] = t.att, !.phase = phase, !.torn = torn]
    <3>1. r.led \in Ledgers
      BY <1>2 DEF Books
    <3> HIDE DEF r, t, done, phase, torn
    <3>2. QED
      BY <3>1 DEF Ledgers, kept
  <2>2. QED
    BY <2>1 DEF Collect
<1>4. done \in SUBSET Steps /\ phase \in Phases /\ torn \in BOOLEAN
  BY <1>2 DEF Books, Ledgers, Phases
<1>5. Answered(r.led, s, t.att, "step") # {}
  BY <1>2 DEF Placed
<1> HIDE DEF r, t, torn
<1>6. kept \in Books
  BY <1>2, <1>a, SetRetry
<1>7. /\ Advances(plan, s, r.led, kept)
      /\ kept.model = r.led.model /\ kept.done = r.led.done /\ kept.phase = r.led.phase
  <2>1. Advances(plan, s, r.led, kept)
    BY <1>2, <1>a, RetryAdvances
  <2>2. kept.model = r.led.model /\ kept.done = r.led.done /\ kept.phase = r.led.phase
    BY <1>2 DEF Books, Ledgers
  <2>3. QED
    BY <2>1, <2>2
<1> HIDE DEF kept
<1>8. led \in Books
  <2> HIDE DEF done, phase
  <2>1. QED
    BY <1>4, <1>6, SetProgress
<1>9. Spending(r.led) => Advances(plan, s, r.led, led)
  <2>1. SUFFICES ASSUME Spending(r.led)  PROVE Advances(plan, s, r.led, led)
    OBVIOUS
  <2>2. Valid(plan, kept) /\ Spending(kept)
    BY <1>7, <2>1 DEF Advances, Spending
  <2>3. \E a \in Attempts : Answered(kept, s, a, "step") # {}
    BY <1>5, <1>7, <1>a DEF Answered
  <2>4. s \in DOMAIN plan.after \ kept.done /\ plan.after[s] \subseteq kept.done
    BY <1>2, <1>7
  <2>5. led = [kept EXCEPT !.done = kept.done \cup {s},
                           !.phase = IF kept.done \cup {s} = DOMAIN plan.after THEN "completed"
                                     ELSE "running",
                           !.torn = torn]
    BY <1>7 DEF PlanSteps
  <2> HIDE DEF led
  <2>6. Advances(plan, s, kept, led)
    BY <1>4, <1>6, <2>2, <2>3, <2>4, <2>5, DoneAdvances
  <2>7. QED
    BY <1>2, <1>6, <1>7, <1>8, <2>6, AdvancesOn
<1> HIDE DEF led
<1>10. \A l : Placed(plan, l, s, NoTask)
  BY DEF Placed, NoTask
<1>11. /\ Spending(rt[i].led) => Advances(plan, s, rt[i].led, led) /\ Placed(plan, led, s, NoTask)
       /\ Placed(plan, rt[i].led, s, NoTask) /\ rt[i].pc = "run"
  BY <1>2, <1>9, <1>10 DEF r
<1>12. QED
  BY <1>1, <1>3, <1>8, <1>11, Pauses, RecordWrites

LEMMA FrontierLed ==
  ASSUME DispatchInv, LedgerInv, NEW i \in Instances, Frontier(i)
  PROVE  LedgerInv'
<1> DEFINE r == rt[i]
           task == [s \in Steps |-> IF s \in Ready(r.led)
                                    THEN [NoTask EXCEPT !.pc = "waiting", !.att = r.led.retry[s]]
                                    ELSE NoTask]
           n == [r EXCEPT !.task = task]
<1>1. /\ r \in Coordinators /\ r.pc = "run" /\ Valid(plan, r.led)
  BY DEF Frontier, Runs, DispatchInv, CoordInv, LedgerInv, Sound
<1>2. rt' = [rt EXCEPT ![i] = n] /\ UnchangedRun
  BY DEF Frontier, DispatchInv, TypeOK, Coordinators
<1>3. ASSUME NEW s \in Steps
      PROVE  Placed(plan, r.led, s, task[s])
  <2>1. CASE s \in Ready(r.led)
    <3> DEFINE u == [NoTask EXCEPT !.pc = "waiting", !.att = r.led.retry[s]]
    <3>1. u.pc = "waiting" /\ u.att = r.led.retry[s] /\ u.idx = 0 /\ u.got = 0
      BY DEF NoTask
    <3>2. task[s] = u
      BY <2>1
    <3>3. s \in DOMAIN plan.after \ r.led.done /\ plan.after[s] \subseteq r.led.done
      BY <2>1 DEF Ready, PlanSteps
    <3>4. r.led.retry[s] \in Nat
      BY <1>1, LedgerTypes DEF Coordinators, Ledgers, Attempts
    <3>5. r.led.retry[s] <= u.att
      BY <3>1, <3>4
    <3> HIDE DEF u, task, r
    <3>6. QED
      BY <3>1, <3>2, <3>3, <3>5 DEF Placed
  <2>2. CASE s \notin Ready(r.led)
    <3>1. task[s] = NoTask
      BY <2>2
    <3> HIDE DEF task, r
    <3>2. QED
      BY <3>1 DEF Placed, NoTask
  <2>3. QED
    BY <2>1, <2>2
<1> HIDE DEF task
<1>4. /\ n.pc = "run" /\ n.led = r.led /\ n.queue = r.queue /\ n.task = task
      /\ n.asked = r.asked /\ n.ran = r.ran
  BY <1>1 DEF Coordinators
<1> HIDE DEF n, r
<1>5. Sound(plan, n)
  BY <1>1, <1>3, <1>4 DEF Sound
<1>6. \A d \in Books : Keeps(plan, d, r) => Keeps(plan, d, n)
  BY <1>1, <1>4 DEF Keeps, Covered
<1>7. QED
  BY <1>1, <1>2, <1>5, <1>6, LedgerKept DEF r

\* A coordinator that ends leaves a queue that leads as far as its ledger did.
LEMMA EndedLed ==
  ASSUME DispatchInv, LedgerInv, NEW i \in Instances, rt[i].pc = "run", UnchangedRun,
         NEW l \in Books, Progressed(rt[i].led, l), NEW q \in Seq(BookItems),
         \A d \in Books : Trail(plan, d, rt[i].queue, rt[i].led) => Trail(plan, d, q, l),
         NEW kind \in {"failed", "completed"},
         rt' = [rt EXCEPT ![i] = Ended(rt[i], Append(q, Final(kind)))]
  PROVE  LedgerInv'
<1> DEFINE r == rt[i]
           n == Ended(r, Append(q, Final(kind)))
<1>1. /\ r \in Coordinators /\ r.led \in Books
      /\ r.asked \subseteq ModelKeys /\ r.ran \subseteq ToolKeys
  BY DEF DispatchInv, CoordInv, Coordinators
<1>2. /\ n.pc = "ended" /\ n.queue = Append(q, Final(kind))
      /\ n.asked = r.asked /\ n.ran = r.ran
  BY DEF Ended, Off
<1>3. Final(kind) \in BookItems /\ Final(kind).kind # "checkpoint"
  BY ItemTypes DEF Final
<1> HIDE DEF n
<1>4. Sound(plan, n)
  BY <1>2 DEF Sound
<1>5. ASSUME NEW d \in Books, Keeps(plan, d, r)  PROVE Keeps(plan, d, n)
  <2>1. Trail(plan, d, r.queue, r.led) /\ Covered(r.led, r)
    BY <1>5 DEF Keeps
  <2>2. Trail(plan, d, n.queue, l)
    BY <1>2, <1>3, <2>1, TrailEvent
  <2>3. Covered(l, r)
    BY <1>1, <2>1, CoveredOn
  <2>4. Covered(l, n)
    BY <1>2, <2>3 DEF Covered
  <2>5. QED
    BY <1>2, <2>2, <2>4 DEF Keeps
<1>6. QED
  BY <1>4, <1>5, LedgerKept DEF n

LEMMA CompleteLed ==
  ASSUME DispatchInv, LedgerInv, NEW i \in Instances, Complete(i)
  PROVE  LedgerInv'
<1>1. /\ rt' = [rt EXCEPT ![i] = Ended(rt[i], Append(rt[i].queue, Final("completed")))]
      /\ UnchangedRun /\ rt[i].pc = "run"
  BY DEF Complete, Runs
<1>2. rt[i].led \in Books /\ rt[i].queue \in Seq(BookItems)
  BY DEF DispatchInv, CoordInv
<1>3. Progressed(rt[i].led, rt[i].led)
  BY <1>2, ProgressedItself
<1>4. QED
  BY <1>1, <1>2, <1>3, EndedLed

\* Of the tools that a failure cuts short, only those that ran become uncertain.
LEMMA CutAdvances ==
  ASSUME NEW p, NEW r, CoordInv(r), r.pc = "run", Sound(p, r), Spending(r.led),
         NEW cut \in SUBSET Steps, \A s \in cut : r.task[s].pc = "tooling", NEW led,
         led = [r.led EXCEPT !.tool = [k \in ToolKeys |->
                  IF \E s \in cut : k = ToolKey(s, r.task[s]) THEN "uncertain"
                  ELSE r.led.tool[k]]]
  PROVE  led \in Books /\ Progressed(r.led, led) /\ Valid(p, led)
<1>1. r.led \in Books /\ Valid(p, r.led)
  BY DEF CoordInv, Sound
<1>2. /\ led.model = r.led.model /\ led.done = r.led.done /\ led.retry = r.led.retry
      /\ led.spent = r.led.spent /\ led.phase = r.led.phase
      /\ \A k \in ToolKeys : led.tool[k] = IF \E s \in cut : k = ToolKey(s, r.task[s])
                                           THEN "uncertain" ELSE r.led.tool[k]
  BY <1>1 DEF Books, Ledgers
<1>3. led \in Books
  <2> DEFINE tool == [k \in ToolKeys |->
                        IF \E s \in cut : k = ToolKey(s, r.task[s]) THEN "uncertain"
                        ELSE r.led.tool[k]]
  <2>1. tool \in [ToolKeys -> ToolStates]
    BY <1>1, LedgerTypes DEF ToolStates
  <2>2. led = [r.led EXCEPT !.tool = tool]
    OBVIOUS
  <2> HIDE DEF tool
  <2>3. led \in Ledgers
    BY <1>1, <2>1, <2>2 DEF Books, Ledgers, ToolStates
  <2>4. QED
    BY <1>1, <1>2, <2>3 DEF Books
<1>4. ASSUME NEW s \in cut  PROVE r.led.tool[ToolKey(s, r.task[s])] = "running"
  <2>1. Placed(p, r.led, s, r.task[s]) /\ r.task[s].pc = "tooling"
    BY DEF Sound
  <2>2. QED
    BY <2>1 DEF Placed
<1>5. \A k \in ToolKeys : \/ led.tool[k] = r.led.tool[k]
                          \/ r.led.tool[k] = "running" /\ led.tool[k] = "uncertain"
  BY <1>2, <1>4
<1>6. Progressed(r.led, led)
  <2>1. Progressed(r.led, r.led)
    BY <1>1, ProgressedItself
  <2>2. QED
    BY <1>2, <1>5, <2>1 DEF Progressed
<1>7. Valid(p, led)
  <2>1. StepsFounded(p, led) /\ PhaseTrue(p, led)
    BY <1>1, <1>2 DEF Valid, StepsFounded, PhaseTrue, Answered, Spending
  <2>2. CallsInOrder(led)
    BY <1>1, <1>2, <1>5 DEF Valid, CallsInOrder
  <2>3. QED
    BY <2>1, <2>2 DEF Valid
<1>8. QED
  BY <1>3, <1>6, <1>7

LEMMA FailFastLed ==
  ASSUME DispatchInv, LedgerInv, NEW i \in Instances, NEW s \in Steps, FailFast(i, s)
  PROVE  LedgerInv'
<1> DEFINE r == rt[i]
           cut == {p \in Steps : r.task[p].pc = "tooling" /\ p \notin SafeTools}
           led == [r.led EXCEPT !.tool = [k \in ToolKeys |->
                     IF \E p \in cut : k = ToolKey(p, r.task[p]) THEN "uncertain"
                     ELSE r.led.tool[k]]]
           marks == cut # {} /\ Spending(r.led)
           w == IF marks THEN <<Checkpoint(led)>> ELSE <<>>
<1>1. /\ At(i, s, "failed") /\ UnchangedRun
      /\ rt' = [rt EXCEPT ![i] = Ended(r, r.queue \o w \o <<Final("failed")>>)]
  BY DEF FailFast
<1>2. /\ r.led \in Books /\ r.queue \in Seq(BookItems) /\ r.pc = "run"
      /\ CoordInv(r) /\ Sound(plan, r)
  BY <1>1, AtStep DEF DispatchInv, LedgerInv
<1>3. cut \in SUBSET Steps /\ \A p \in cut : r.task[p].pc = "tooling"
  OBVIOUS
<1> HIDE DEF cut, r
<1>4. Spending(r.led) => led \in Books /\ Progressed(r.led, led) /\ Valid(plan, led)
  BY <1>2, <1>3, CutAdvances
<1> HIDE DEF led
<1>5. PICK l \in Books, q \in Seq(BookItems) :
        /\ q = r.queue \o w /\ Progressed(r.led, l)
        /\ \A d \in Books : Trail(plan, d, r.queue, r.led) => Trail(plan, d, q, l)
  <2>1. CASE marks
    <3>1. led \in Books /\ Progressed(r.led, led) /\ Valid(plan, led)
      BY <1>4, <2>1
    <3>2. /\ Checkpoint(led) \in BookItems
          /\ Checkpoint(led).kind = "checkpoint" /\ Checkpoint(led).led = led
      BY <3>1, ItemTypes DEF Checkpoint
    <3>3. /\ Append(r.queue, Checkpoint(led)) \in Seq(BookItems)
          /\ r.queue \o w = Append(r.queue, Checkpoint(led))
      BY <1>2, <2>1, <3>2, Appended
    <3>4. \A d \in Books : Trail(plan, d, r.queue, r.led)
                             => Trail(plan, d, Append(r.queue, Checkpoint(led)), led)
      BY <1>2, <3>1, <3>2, TrailSteps
    <3>5. QED
      BY <3>1, <3>3, <3>4
  <2>2. CASE ~marks
    <3>1. r.queue \o w = r.queue /\ Progressed(r.led, r.led)
      BY <1>2, <2>2, Appended, ProgressedItself
    <3>2. QED
      BY <1>2, <3>1
  <2>3. QED
    BY <2>1, <2>2
<1>6. q \o <<Final("failed")>> = Append(q, Final("failed"))
  BY ItemTypes, Appended
<1>7. rt' = [rt EXCEPT ![i] = Ended(rt[i], Append(q, Final("failed")))]
  BY <1>1, <1>5, <1>6 DEF r
<1>8. QED
  BY <1>1, <1>2, <1>5, <1>7, EndedLed DEF r

LEMMA CoordinateLed ==
  ASSUME DispatchInv, LedgerInv, NEW i \in Instances, Coordinate(i)
  PROVE  LedgerInv'
<1>1. ASSUME NEW s \in Steps, ReviewStep(i, s)  PROVE LedgerInv'
  BY <1>1, ReviewLed, ReviewFailsLed, VerdictLed, ReviseLed DEF ReviewStep
<1>2. QED
  BY <1>1, FrontierLed, CompleteLed, EnterLed, CollectLed, FailFastLed,
     ModelStepLed, ToolStepLed DEF Coordinate

(***************************************************************************)
(* The service.                                                            *)
(***************************************************************************)
LEMMA GoneLed ==
  ASSUME NEW p, NEW r
  PROVE  Gone(r).pc # "run" /\ Gone(r).queue = <<>> /\ Sound(p, Gone(r))
<1>1. Gone(r).pc # "run" /\ Gone(r).queue = <<>>
  BY DEF Gone, Off
<1>2. QED
  BY <1>1 DEF Sound

LEMMA OpeningLed ==
  ASSUME NEW p, NEW d \in Books, Valid(p, d)
  PROVE  Sound(p, Opening(d)) /\ Keeps(p, d, Opening(d))
<1> DEFINE n == Opening(d)
           at == [Off EXCEPT !.base = d, !.led = d]
<1>1. /\ n.asked = {} /\ n.ran = {}
      /\ n.pc = "run" => n.led = d /\ n.task = [s \in Steps |-> NoTask]
      /\ n.queue \in {<<>>, <<Final("failed")>>, <<Final("completed")>>}
  BY DEF Opening, Ended, Off
<1> HIDE DEF n
<1>2. Sound(p, n)
  <2>1. ASSUME n.pc = "run", NEW s \in Steps  PROVE Placed(p, n.led, s, n.task[s])
    BY <1>1, <2>1 DEF Placed, NoTask
  <2>2. QED
    BY <1>1, <2>1 DEF Sound
<1>3. Trail(p, d, n.queue, d)
  <2>1. Trail(p, d, <<>>, d) /\ <<>> \in Seq(BookItems)
    BY TrailStarts, PieceTypes
  <2>2. ASSUME NEW kind \in {"failed", "completed"}  PROVE Trail(p, d, <<Final(kind)>>, d)
    <3>1. PICK e \in BookItems : e = Final(kind) /\ e.kind # "checkpoint"
      BY ItemTypes DEF Final
    <3>2. Append(<<>>, e) = <<e>>
      OBVIOUS
    <3>3. QED
      BY <2>1, <3>1, <3>2, TrailEvent
  <2>3. QED
    BY <1>1, <2>1, <2>2
<1>4. Covered(d, n)
  BY <1>1 DEF Covered
<1>5. Keeps(p, d, n)
  BY <1>1, <1>3, <1>4 DEF Keeps
<1>6. QED
  BY <1>2, <1>5 DEF n

LEMMA OpenLed ==
  ASSUME DispatchInv, LedgerInv, Open
  PROVE  LedgerInv'
<1>1. /\ starts \in 0..MaxStarts /\ starts < MaxStarts /\ MaxStarts \in Nat
      /\ starts' = starts + 1 /\ reader' = starts + 1 /\ status' = "running"
      /\ plan' = plan /\ durable' = durable /\ durable \in Books
  BY Bounds DEF DispatchInv, TypeOK, Open
<1>2. starts' \in Instances /\ starts' # 0
  BY <1>1 DEF Instances
<1>3. \A i \in Instances : rt'[i] = IF i = starts + 1 THEN Opening(durable)
                                    ELSE IF Runs(i) THEN rt[i] ELSE Gone(rt[i])
  BY DEF Open
<1>4. Valid(plan, durable)
  BY DEF LedgerInv
<1>5. Sound(plan, Opening(durable)) /\ Keeps(plan, durable, Opening(durable))
  BY <1>1, <1>4, OpeningLed
<1>6. \A i \in Instances :
        /\ Sound(plan, rt'[i])
        /\ \/ rt'[i].pc # "run" /\ rt'[i].queue = <<>>
           \/ \E d \in Books : Keeps(plan, d, rt'[i])
  <2>1. TAKE i \in Instances
  <2>2. CASE i = starts + 1
    BY <1>1, <1>3, <1>5, <2>2
  <2>3. CASE i # starts + 1 /\ Runs(i)
    BY <1>3, <2>3 DEF LedgerInv
  <2>4. CASE i # starts + 1 /\ ~Runs(i)
    BY <1>3, <2>4, GoneLed
  <2>5. QED
    BY <2>2, <2>3, <2>4
<1>7. Keeps(plan, durable, rt'[starts'])
  BY <1>1, <1>2, <1>3, <1>5
<1>8. QED
  BY <1>1, <1>2, <1>4, <1>6, <1>7 DEF LedgerInv

LEMMA ReadLed ==
  ASSUME NEW p, NEW d \in Books, NEW r, CoordInv(r), r.queue # <<>>, Sound(p, r),
         Keeps(p, d, r), NEW n, n = [r EXCEPT !.queue = Tail(@)],
         NEW m, m = IF Head(r.queue).kind = "checkpoint" THEN Head(r.queue).led ELSE d
  PROVE  m \in Books /\ Keeps(p, m, n) /\ Sound(p, n) /\ Progressed(d, m) /\ Valid(p, m)
<1>1. r \in Coordinators /\ r.queue \in Seq(BookItems)
  BY DEF CoordInv
<1>2. /\ n.pc = r.pc /\ n.led = r.led /\ n.queue = Tail(r.queue) /\ n.task = r.task
      /\ n.asked = r.asked /\ n.ran = r.ran
  BY <1>1 DEF Coordinators
<1>3. PICK l \in Books : /\ Trail(p, d, r.queue, l)
                         /\ r.pc = "run" => l = r.led
                         /\ Covered(l, r)
  BY DEF Keeps
<1>4. m \in Books /\ Trail(p, m, Tail(r.queue), l) /\ Progressed(d, m) /\ Valid(p, m)
  BY <1>1, <1>3, TrailRead
<1>5. Keeps(p, m, n)
  BY <1>2, <1>3, <1>4 DEF Keeps, Covered
<1>6. Sound(p, n)
  BY <1>2 DEF Sound
<1>7. QED
  BY <1>4, <1>5, <1>6

\* The coordinator whose stream is read, and what is durable.
LEMMA ReaderLed ==
  ASSUME DispatchInv, LedgerInv, reader # 0
  PROVE  /\ reader \in Instances /\ reader = starts /\ status = "running"
         /\ CoordInv(rt[reader]) /\ Sound(plan, rt[reader])
         /\ Keeps(plan, durable, rt[reader]) /\ durable \in Books /\ Valid(plan, durable)
         /\ \A n : rt' = [rt EXCEPT ![reader] = n]
                     => \A i \in Instances : rt'[i] = IF i = reader THEN n ELSE rt[i]
BY ReaderRuns DEF LedgerInv, DispatchInv, TypeOK

LEMMA PersistLed ==
  ASSUME DispatchInv, LedgerInv, Persist
  PROVE  LedgerInv' /\ Progressed(durable, durable')
<1> DEFINE r == rt[reader]
           item == Head(r.queue)
           n == [r EXCEPT !.queue = Tail(@)]
<1>1. /\ reader # 0 /\ r.queue # <<>> /\ plan' = plan /\ starts' = starts
      /\ durable' = IF item.kind = "checkpoint" THEN item.led ELSE durable
      /\ \/ reader' = reader /\ status' = status
         \/ reader' = 0 /\ status' \in {"failed", "completed"}
  BY DEF Persist
<1>2. /\ reader \in Instances /\ reader = starts /\ status = "running"
      /\ CoordInv(r) /\ Sound(plan, r) /\ Keeps(plan, durable, r) /\ durable \in Books
  BY <1>1, ReaderLed
<1>3. rt' = [rt EXCEPT ![reader] = n]
  BY <1>2 DEF Persist, DispatchInv, TypeOK
<1> HIDE DEF r
<1>4. /\ durable' \in Books /\ Keeps(plan, durable', n) /\ Sound(plan, n)
      /\ Progressed(durable, durable') /\ Valid(plan, durable')
  <2>1. PICK m : m = durable' /\ m = IF Head(r.queue).kind = "checkpoint"
                                     THEN Head(r.queue).led ELSE durable
    BY <1>1
  <2>2. PICK x : x = n /\ x = [r EXCEPT !.queue = Tail(@)]
    OBVIOUS
  <2>3. r.queue # <<>>
    BY <1>1
  <2> HIDE DEF n
  <2>4. /\ m \in Books /\ Keeps(plan, m, x) /\ Sound(plan, x)
        /\ Progressed(durable, m) /\ Valid(plan, m)
    BY <1>2, <2>1, <2>2, <2>3, ReadLed
  <2>5. QED
    BY <2>1, <2>2, <2>4
<1> HIDE DEF n
<1>5. \A i \in Instances : rt'[i] = IF i = reader THEN n ELSE rt[i]
  BY <1>1, <1>3, ReaderLed
<1>6. \A i \in Instances :
        /\ Sound(plan, rt'[i])
        /\ \/ rt'[i].pc # "run" /\ rt'[i].queue = <<>>
           \/ \E d \in Books : Keeps(plan, d, rt'[i])
  BY <1>4, <1>5 DEF LedgerInv
<1>7. Keeps(plan, durable', rt'[starts])
  BY <1>2, <1>4, <1>5
<1>8. LedgerInv'
  BY <1>1, <1>2, <1>4, <1>6, <1>7 DEF LedgerInv
<1>9. QED
  BY <1>4, <1>8

LEMMA LeaveLed ==
  ASSUME DispatchInv, LedgerInv, Pause \/ Cancel \/ Crash
  PROVE  LedgerInv'
<1> DEFINE r == rt[reader]
           read == [r EXCEPT !.queue = Tail(@)]
<1>1. /\ reader # 0 /\ reader' = 0 /\ plan' = plan /\ durable' = durable
      /\ status' \in {status, "paused", "cancelled"}
  BY DEF Pause, Cancel, Crash
<1>2. /\ reader \in Instances /\ status = "running"
      /\ CoordInv(r) /\ Sound(plan, r) /\ Keeps(plan, durable, r) /\ durable \in Books
      /\ Valid(plan, durable)
  BY <1>1, ReaderLed
<1>3. PICK n \in {read, Gone(r)} :
        /\ rt' = [rt EXCEPT ![reader] = n]
        /\ n = read => r.queue # <<>> \/ n = Gone(r)
  BY <1>2 DEF Pause, Cancel, Crash, DispatchInv, TypeOK
<1> HIDE DEF r
<1>4. /\ Sound(plan, n)
      /\ \/ n.pc # "run" /\ n.queue = <<>>
         \/ \E d \in Books : Keeps(plan, d, n)
  <2>1. CASE n = Gone(r)
    BY <2>1, GoneLed
  <2>2. CASE n = read /\ r.queue # <<>>
    <3>1. PICK m : m = IF Head(r.queue).kind = "checkpoint" THEN Head(r.queue).led ELSE durable
      OBVIOUS
    <3>2. n = [r EXCEPT !.queue = Tail(@)] /\ r.queue # <<>>
      BY <2>2
    <3> HIDE DEF read
    <3>3. m \in Books /\ Keeps(plan, m, n) /\ Sound(plan, n)
      BY <1>2, <3>1, <3>2, ReadLed
    <3>4. QED
      BY <3>3
  <2>3. QED
    BY <1>3, <2>1, <2>2
<1> HIDE DEF read
<1>5. \A i \in Instances : rt'[i] = IF i = reader THEN n ELSE rt[i]
  BY <1>1, <1>3, ReaderLed
<1>6. \A i \in Instances :
        /\ Sound(plan, rt'[i])
        /\ \/ rt'[i].pc # "run" /\ rt'[i].queue = <<>>
           \/ \E d \in Books : Keeps(plan, d, rt'[i])
  BY <1>4, <1>5 DEF LedgerInv
<1>7. QED
  BY <1>1, <1>2, <1>6 DEF LedgerInv

LEMMA ServiceLed ==
  ASSUME DispatchInv, LedgerInv, Service
  PROVE  LedgerInv'
<1>1. CASE Open
  BY <1>1, OpenLed
<1>2. CASE Persist
  BY <1>2, PersistLed
<1>3. CASE Resume \/ (Recover /\ ~Open)
  <2>1. /\ status' \in {"queued", "failed"} /\ reader = 0
        /\ UNCHANGED <<plan, durable, ahead, starts, reader, rt>>
    BY <1>3 DEF Resume, Recover, LedgerInv
  <2>2. QED
    BY <2>1 DEF LedgerInv
<1>4. CASE Pause \/ Cancel \/ Crash
  BY <1>4, LeaveLed
<1>5. QED
  BY <1>1, <1>2, <1>3, <1>4 DEF Service, Execute

(***************************************************************************)
(* The theorems.                                                           *)
(***************************************************************************)
LEMMA InitLedger == Init => LedgerInv
<1>1. SUFFICES ASSUME Init  PROVE LedgerInv
  OBVIOUS
<1>2. Valid(plan, Blank)
  <2>1. plan.budget \in Nat
    BY <1>1, DispatchAssumption DEF Init
  <2>2. StepsFounded(plan, Blank) /\ CallsInOrder(Blank)
    BY DEF StepsFounded, CallsInOrder, Blank
  <2>3. PhaseTrue(plan, Blank)
    BY <2>1 DEF PhaseTrue, Blank
  <2>4. QED
    BY <2>2, <2>3 DEF Valid
<1>3. \A i \in Instances : rt[i].pc # "run" /\ rt[i].queue = <<>>
  BY <1>1 DEF Init, Off
<1>4. QED
  BY <1>1, <1>2, <1>3 DEF Init, LedgerInv, Sound

LEMMA NextLedger == DispatchInv /\ LedgerInv /\ [Next]_vars => LedgerInv'
<1>1. SUFFICES ASSUME DispatchInv, LedgerInv, [Next]_vars  PROVE LedgerInv'
  OBVIOUS
<1>2. CASE UNCHANGED vars
  BY <1>1, <1>2 DEF vars, LedgerInv
<1>3. CASE Service
  BY <1>1, <1>3, ServiceLed
<1>4. QED
  BY <1>1, <1>2, <1>3, CoordinateLed DEF Next

LEMMA LedgerInvariant == Spec => [](DispatchInv /\ LedgerInv)
BY InitDispatch, NextDispatch, InitLedger, NextLedger, PTL DEF Spec

\* Every checkpoint on a trail is valid.
LEMMA TrailValid ==
  ASSUME NEW p, NEW d, NEW q, NEW l, Trail(p, d, q, l), NEW n \in 1..Len(q),
         q[n].kind = "checkpoint"
  PROVE  Valid(p, q[n].led)
<1>1. PICK h \in [0..Len(q) -> Books] :
        /\ \A j \in 0..Len(q) : Valid(p, h[j])
        /\ \A j \in 1..Len(q) :
             h[j] = IF q[j].kind = "checkpoint" THEN q[j].led ELSE h[j - 1]
  BY DEF Trail
<1>2. n \in 0..Len(q)
  OBVIOUS
<1>3. QED
  BY <1>1, <1>2

\* Whatever the plan, and between whatever steps of parallel tasks, timeouts,
\* reviews, failures and exhausted budgets a coordinator writes it, a checkpoint
\* does not contradict itself: it records no step completed before its
\* dependencies or without an answer, no call before the calls that led to it,
\* no phase it does not stand for.  So _validate_checkpoint refuses no restart;
\* that _hydrate_checkpoint does not is no part of this, for it refuses the
\* checkpoint of a call in doubt or of artifacts that are gone.
THEOREM CheckpointsConsistent == Spec => []CheckpointsValid
<1>1. LedgerInv => CheckpointsValid
  <2>1. SUFFICES ASSUME LedgerInv, NEW i \in Instances, NEW n \in 1..Len(rt[i].queue),
                        rt[i].queue[n].kind = "checkpoint"
                 PROVE  Valid(plan, rt[i].queue[n].led)
    BY DEF CheckpointsValid, LedgerInv
  <2>2. rt[i].queue # <<>>
    OBVIOUS
  <2>3. PICK d \in Books, l \in Books : Trail(plan, d, rt[i].queue, l)
    BY <2>1, <2>2 DEF LedgerInv, Keeps
  <2>4. QED
    BY <2>1, <2>3, TrailValid
<1>2. QED
  BY <1>1, LedgerInvariant, PTL

\* A call is in a checkpoint before it is made: once the service has read all
\* that a coordinator wrote, no call it made is missing from the durable ledger,
\* unless the accounting had ended.
THEOREM EffectsKnown == Spec => []EffectsRecorded
<1>1. DispatchInv /\ LedgerInv => EffectsRecorded
  <2>1. SUFFICES ASSUME DispatchInv, LedgerInv, NEW i \in Instances,
                        i = reader \/ (i = starts /\ status = "completed"),
                        rt[i].queue = <<>>, Spending(durable)
                 PROVE  /\ \A k \in rt[i].asked : durable.model[k] # "none"
                        /\ \A k \in rt[i].ran : durable.tool[k] # "none"
    BY DEF EffectsRecorded
  <2>2. Keeps(plan, durable, rt[i])
    <3>1. i # 0
      BY DEF Instances
    <3>2. QED
      BY <2>1, <3>1 DEF LedgerInv
  <2>3. PICK l \in Books : Trail(plan, durable, <<>>, l) /\ Covered(l, rt[i])
    BY <2>1, <2>2 DEF Keeps
  <2>4. durable = l
    BY <2>3, TrailEnds
  <2>5. QED
    BY <2>1, <2>3, <2>4 DEF Covered
<1>2. QED
  BY <1>1, LedgerInvariant, PTL

\* No pause, crash, restart or retry takes back what a checkpoint recorded: the
\* checkpoint that replaces it goes on from it.
THEOREM ProgressKept == Spec => DurableProgressKept
<1>1. DispatchInv /\ LedgerInv /\ [Next]_vars => [Progressed(durable, durable')]_durable
  <2>1. SUFFICES ASSUME DispatchInv, LedgerInv, [Next]_vars, durable' # durable
                 PROVE  Progressed(durable, durable')
    OBVIOUS
  <2>2. Persist
    <3>1. ASSUME NEW i \in Instances, Coordinate(i)  PROVE FALSE
      <4>1. ~UnchangedRun
        BY <2>1 DEF UnchangedRun
      <4>2. PICK s \in Steps :
              \/ Enter(i, s) \/ Collect(i, s) \/ FailFast(i, s)
              \/ ModelStep(i, s) \/ ToolStep(i, s) \/ ReviewStep(i, s)
        BY <3>1, <4>1 DEF Coordinate, Frontier, Complete
      <4>3. ~ModelStep(i, s)
        BY <4>1 DEF ModelStep, Ask, Reuse, Mismatch, Answer, ModelFails, Timeout
      <4>4. ~ToolStep(i, s) /\ ~ReviewStep(i, s)
        BY <4>1 DEF ToolStep, StartTool, ReuseTool, ToolReturns, ToolFails,
              ReviewStep, Review, ReviewFails, Verdict, Revise
      <4>5. QED
        BY <4>1, <4>2, <4>3, <4>4 DEF Enter, Collect, FailFast
    <3>2. Service
      BY <2>1, <3>1 DEF Next, vars
    <3>3. QED
      BY <2>1, <3>2 DEF Service, Execute, Recover, Open, Pause, Resume, Cancel, Crash
  <2>3. QED
    BY <2>1, <2>2, PersistLed
<1>2. QED
  BY <1>1, LedgerInvariant, PTL DEF Spec, DurableProgressKept
=============================================================================
