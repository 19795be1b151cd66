---------------------------- MODULE IngressProofs ---------------------------
(***************************************************************************)
(* For any deliveries and any ids: who may submit, how often a message has *)
(* an effect, what a delivery is told, and that with ids that agree and no *)
(* choices the ingress implements OnceOnly.                                *)
(***************************************************************************)
EXTENDS ChannelIngress, TLAPS

\* The unique constraints: no two rows are linked.
RowsApart ==
    \A d, e \in Deliveries :
      row[d] # Absent /\ row[e] # Absent /\ Linked(d, e) => d = e

\* A handler between reserve and mark has a reserved row.
HeldRows == \A d \in Deliveries : Holding(d) => row[d] = Reserved

\* An effect comes after the submission, is the only one of its delivery
\* and, unless it is a choice, what the idempotency key holds.
EffectsOnce ==
    \A x \in effects :
      /\ call[x[1]].pc \in {"mark", "release", "done", "dead"}
      /\ x[1] \notin Choices => keyed[EventOf[x[1]]] = x[2]
      /\ \A y \in effects : x[1] = y[1] => x[2] = y[2]

\* A run id that is about to be written, is written, or is answered.
RunsCaused ==
    \A d \in Deliveries :
      /\ call[d].pc \in {"look", "choose"} => d \in Choices
      /\ At(d, "choose") => call[d].run \in RunIds
      /\ At(d, "mark") => <<d, call[d].run>> \in effects
      /\ row[d].run # "none" => <<d, row[d].run>> \in effects
      /\ At(d, "wait") => call[d].row \in Deliveries /\ Linked(d, call[d].row)
      /\ answer[d] \in RunIds =>
           \E e \in Deliveries : Linked(d, e) /\ <<e, answer[d]>> \in effects

\* A call answers after a release what it was about to.
ReleaseAnswers ==
    \A d \in Deliveries : At(d, "release") => call[d].out \in Excuses

\* Only a call that has ended has an answer.
AnsweredOnce ==
    \A d \in Deliveries : answer[d] # "none" => At(d, "done")

IngressInv ==
    /\ TypeOK
    /\ RowsApart
    /\ HeldRows
    /\ EffectsOnce
    /\ RunsCaused
    /\ ReleaseAnswers
    /\ AnsweredOnce

(***************************************************************************)
(* Types.                                                                  *)
(***************************************************************************)
\* The updates of a call keep its type.
LEMMA CallTyped ==
    ASSUME call \in [Deliveries -> Calls], NEW d \in Deliveries,
           NEW p \in Pcs, NEW r \in RunIds \cup {"none"},
           NEW e \in Deliveries, NEW o \in {"none", "refused", "error"}
    PROVE /\ [call EXCEPT ![d].pc = p] \in [Deliveries -> Calls]
          /\ [call EXCEPT ![d].pc = p, ![d].run = r] \in [Deliveries -> Calls]
          /\ [call EXCEPT ![d].pc = p, ![d].row = e] \in [Deliveries -> Calls]
          /\ [call EXCEPT ![d].pc = p, ![d].out = o] \in [Deliveries -> Calls]
          /\ [call EXCEPT ![d].tries = 1, ![d].pc = p] \in [Deliveries -> Calls]
<1>1. call[d] \in Calls
  OBVIOUS
<1>2. QED
  BY <1>1 DEF Calls

\* A call's fields.
LEMMA CallFields ==
    ASSUME call \in [Deliveries -> Calls], NEW d \in Deliveries
    PROVE /\ call[d].pc \in Pcs
          /\ call[d].row \in Deliveries \cup {"none"}
          /\ call[d].run \in RunIds \cup {"none"}
          /\ call[d].out \in {"none", "refused", "error"}
BY DEF Calls

\* The rows that are written.
LEMMA RowsTyped ==
    /\ Absent \in Rows
    /\ Reserved \in Rows
    /\ \A r \in RunIds : Submitted(r) \in Rows
    /\ \A x \in Rows : x.run \in RunIds \cup {"none"}
BY DeliveryAssumption DEF Rows, Absent, Reserved, Submitted

\* What handle() returns keeps its type.
LEMMA AnswerTyped ==
    ASSUME TypeOK, NEW d \in Deliveries, NEW a \in RunIds \cup Excuses,
           Answer(d, a)
    PROVE /\ call' \in [Deliveries -> Calls]
          /\ answer' \in [Deliveries -> RunIds \cup Excuses \cup {"none"}]
<1>1. call' = [call EXCEPT ![d].pc = "done"]
  BY DEF Answer, Goto
<1>2. call' \in [Deliveries -> Calls]
  BY <1>1, CallTyped, "done" \in Pcs DEF TypeOK, Pcs
<1>3. QED
  BY <1>2 DEF TypeOK, Answer

LEMMA ReleaseTyped ==
    ASSUME TypeOK, NEW d \in Deliveries, NEW a \in {"refused", "error"},
           ReleaseAfter(d, a)
    PROVE call' \in [Deliveries -> Calls]
BY CallTyped, "release" \in Pcs DEF TypeOK, Pcs, ReleaseAfter

\* A duplicate's reservation: it is answered with the run of a linked row, or
\* waits for a linked row.
LEMMA DuplicateOutcome ==
    ASSUME TypeOK, NEW d \in Deliveries, Duplicate(d)
    PROVE \E e \in Deliveries :
            /\ Linked(d, e)
            /\ \/ row[e].run \in RunIds /\ Answer(d, row[e].run)
               \/ /\ call' = [call EXCEPT ![d].pc = "wait", ![d].row = e]
                  /\ UNCHANGED answer
<1>1. PICK e \in Existing(d) :
        IF row[e].run # "none"
          THEN Answer(d, row[e].run)
          ELSE /\ call' = [call EXCEPT ![d].pc = "wait", ![d].row = e]
               /\ UNCHANGED answer
  BY DEF Duplicate
<1>2. e \in Deliveries /\ Linked(d, e)
  BY DEF Existing
<1>3. row[e].run \in RunIds \cup {"none"}
  BY <1>2, RowsTyped DEF TypeOK
<1>4. QED
  BY <1>1, <1>2, <1>3

LEMMA DuplicateTyped ==
    ASSUME TypeOK, NEW d \in Deliveries, Duplicate(d)
    PROVE /\ call' \in [Deliveries -> Calls]
          /\ answer' \in [Deliveries -> RunIds \cup Excuses \cup {"none"}]
<1>1. PICK e \in Deliveries :
        \/ row[e].run \in RunIds /\ Answer(d, row[e].run)
        \/ /\ call' = [call EXCEPT ![d].pc = "wait", ![d].row = e]
           /\ UNCHANGED answer
  BY DuplicateOutcome
<1>2. CASE row[e].run \in RunIds /\ Answer(d, row[e].run)
  BY <1>2, AnswerTyped
<1>3. CASE /\ call' = [call EXCEPT ![d].pc = "wait", ![d].row = e]
           /\ UNCHANGED answer
  BY <1>3, CallTyped, "wait" \in Pcs DEF TypeOK, Pcs
<1>4. QED
  BY <1>1, <1>2, <1>3

LEMMA CommittedTyped ==
    ASSUME TypeOK, NEW d \in Deliveries, NEW r \in RunIds,
           CommittedThen(d, "mark", r)
    PROVE call' \in [Deliveries -> Calls]
<1>1. CASE call' = [call EXCEPT ![d].pc = "mark", ![d].run = r]
  BY <1>1, CallTyped, "mark" \in Pcs DEF TypeOK, Pcs
<1>2. CASE ReleaseAfter(d, "error")
  BY <1>2, ReleaseTyped
<1>3. QED
  BY <1>1, <1>2 DEF CommittedThen

(***************************************************************************)
(* Types: MarkSubmitted and RunIdSeen need RunsCaused.                     *)
(***************************************************************************)
LEMMA TypeStep == ASSUME IngressInv, [Next]_vars PROVE TypeOK'
<1>0. TypeOK
  BY DEF IngressInv
<1> USE <1>0
<1>1. ASSUME NEW d \in Deliveries, Receive(d) PROVE TypeOK'
  BY <1>1, CallTyped, "find" \in Pcs DEF TypeOK, Receive, Goto, Pcs, Searching
<1>2. ASSUME NEW d \in Deliveries, FindExisting(d) PROVE TypeOK'
  <2>1. CASE Existing(d) = {}
    <3>1. call' = [call EXCEPT ![d].pc = "insert"] /\ UNCHANGED answer
      BY <1>2, <2>1 DEF FindExisting, Goto
    <3>2. call' \in [Deliveries -> Calls]
      BY <3>1, CallTyped, "insert" \in Pcs DEF TypeOK, Pcs, Searching
    <3>3. QED
      BY <1>2, <3>1, <3>2 DEF TypeOK, FindExisting
  <2>2. CASE Existing(d) # {}
    BY <1>2, <2>2, DuplicateTyped DEF TypeOK, FindExisting
  <2>3. QED
    BY <2>1, <2>2
<1>3. ASSUME NEW d \in Deliveries, InsertReservation(d) PROVE TypeOK'
  BY <1>3, CallTyped, RowsTyped, {"look", "create"} \subseteq Pcs
    DEF TypeOK, InsertReservation, Goto, Pcs, Submitting
<1>4. ASSUME NEW d \in Deliveries, InsertConflicts(d) PROVE TypeOK'
  BY <1>4, CallTyped, {"find", "load"} \subseteq Pcs
    DEF TypeOK, InsertConflicts, Pcs, Searching
<1>5. ASSUME NEW d \in Deliveries, LoadExisting(d) PROVE TypeOK'
  <2>1. CASE Existing(d) = {}
    BY <1>5, <2>1, AnswerTyped DEF TypeOK, LoadExisting, Excuses
  <2>2. CASE Existing(d) # {}
    BY <1>5, <2>2, DuplicateTyped DEF TypeOK, LoadExisting
  <2>3. QED
    BY <2>1, <2>2
<1>6. ASSUME NEW d \in Deliveries, RunIdSeen(d) PROVE TypeOK'
  <2>1. call[d].row \in Deliveries
    BY <1>6 DEF RunIdSeen, IngressInv, RunsCaused
  <2>2. row[call[d].row].run \in RunIds
    BY <1>6, <2>1, RowsTyped DEF RunIdSeen, TypeOK
  <2>3. QED
    BY <1>6, <2>2, AnswerTyped DEF TypeOK, RunIdSeen
<1>7. ASSUME NEW d \in Deliveries, WaitTimesOut(d) PROVE TypeOK'
  BY <1>7, AnswerTyped DEF TypeOK, WaitTimesOut, Excuses
<1>8. ASSUME NEW d \in Deliveries, LatestWaitingChoice(d) PROVE TypeOK'
  <2>1. CASE Goto(d, "create")
    <3>1. call' = [call EXCEPT ![d].pc = "create"]
      BY <2>1 DEF Goto
    <3>2. call' \in [Deliveries -> Calls]
      BY <3>1, CallTyped, "create" \in Pcs DEF TypeOK, Pcs, Submitting
    <3>3. QED
      BY <1>8, <3>2 DEF TypeOK, LatestWaitingChoice
  <2>2. CASE ~ Goto(d, "create")
    <3>1. PICK r \in waiting :
            call' = [call EXCEPT ![d].pc = "choose", ![d].run = r]
      BY <1>8, <2>2 DEF LatestWaitingChoice
    <3>2. call' \in [Deliveries -> Calls]
      BY <3>1, CallTyped, "choose" \in Pcs DEF TypeOK, Pcs, Submitting
    <3>3. QED
      BY <1>8, <3>2 DEF TypeOK, LatestWaitingChoice
  <2>3. QED
    BY <2>1, <2>2
<1>9. ASSUME NEW d \in Deliveries, ChooseMode(d) PROVE TypeOK'
  <2>1. CASE call[d].run \in waiting
    BY <1>9, <2>1, CommittedTyped DEF TypeOK, ChooseMode
  <2>2. CASE call[d].run \notin waiting
    BY <1>9, <2>2, ReleaseTyped DEF TypeOK, ChooseMode
  <2>3. QED
    BY <2>1, <2>2
<1>10. ASSUME NEW d \in Deliveries, CreateRun(d) PROVE TypeOK'
  <2> DEFINE r == IF keyed[EventOf[d]] = "none" THEN d ELSE keyed[EventOf[d]]
  <2>1. r \in Deliveries /\ r \in RunIds /\ EventOf[d] \in Events
    BY DeliveryAssumption DEF TypeOK, RunIds
  <2>2. /\ keyed' = [keyed EXCEPT ![EventOf[d]] = r]
        /\ waiting' \in {waiting, IF r = d THEN waiting \cup {d} ELSE waiting}
        /\ effects' = effects \cup {<<d, r>>}
        /\ CommittedThen(d, "mark", r)
        /\ UNCHANGED <<row, answer, lost>>
    BY <1>10 DEF CreateRun
  <2>3. call' \in [Deliveries -> Calls]
    BY <2>1, <2>2, CommittedTyped
  <2> HIDE DEF r
  <2>4. QED
    BY <2>1, <2>2, <2>3 DEF TypeOK, RunIds
<1>11. ASSUME NEW d \in Deliveries, SubmitFails(d) PROVE TypeOK'
  BY <1>11, ReleaseTyped DEF TypeOK, SubmitFails
<1>12. ASSUME NEW d \in Deliveries, RefuseDirective(d) PROVE TypeOK'
  BY <1>12, ReleaseTyped DEF TypeOK, RefuseDirective
<1>13. ASSUME NEW d \in Deliveries, MarkSubmitted(d) PROVE TypeOK'
  <2>1. call[d].run \in RunIds
    BY <1>13 DEF TypeOK, MarkSubmitted, IngressInv, RunsCaused
  <2>2. row' \in [Deliveries -> Rows]
    BY <1>13, <2>1, RowsTyped DEF TypeOK, MarkSubmitted
  <2>3. QED
    BY <1>13, <2>1, <2>2, AnswerTyped, ReleaseTyped DEF TypeOK, MarkSubmitted
<1>14. ASSUME NEW d \in Deliveries, MarkFails(d) PROVE TypeOK'
  BY <1>14, ReleaseTyped DEF TypeOK, MarkFails
<1>15. ASSUME NEW d \in Deliveries, ReleaseReservation(d) PROVE TypeOK'
  <2>1. row' \in [Deliveries -> Rows]
    BY <1>15, RowsTyped DEF TypeOK, ReleaseReservation
  <2>2. call[d].out \in Excuses
    BY <1>15 DEF ReleaseReservation, IngressInv, ReleaseAnswers
  <2>3. QED
    BY <1>15, <2>1, <2>2, AnswerTyped DEF TypeOK, ReleaseReservation
<1>16. ASSUME NEW d \in Deliveries, ReleaseFails(d) PROVE TypeOK'
  <2>1. call[d].out \in Excuses
    BY <1>16 DEF ReleaseFails, IngressInv, ReleaseAnswers
  <2>2. QED
    BY <1>16, <2>1, AnswerTyped DEF TypeOK, ReleaseFails
<1>17. ASSUME NEW d \in Deliveries, ReserveRaises(d) PROVE TypeOK'
  <2>1. row' \in [Deliveries -> Rows]
    BY <1>17, RowsTyped DEF TypeOK, ReserveRaises
  <2>2. "error" \in Excuses
    BY DEF Excuses
  <2>3. QED
    BY <1>17, <2>1, <2>2, AnswerTyped DEF TypeOK, ReserveRaises
<1>18. ASSUME NEW d \in Deliveries, Crash(d) PROVE TypeOK'
  BY <1>18, CallTyped, "dead" \in Pcs DEF TypeOK, Crash, Goto, Pcs
<1>19. ASSUME NEW r \in RunIds, DecidedElsewhere(r) PROVE TypeOK'
  BY <1>19 DEF TypeOK, DecidedElsewhere
<1>20. CASE UNCHANGED vars
  BY <1>20 DEF TypeOK, vars
<1>21. QED
  BY <1>1, <1>2, <1>3, <1>4, <1>5, <1>6, <1>7, <1>8, <1>9, <1>10, <1>11, <1>12, <1>13, <1>14, <1>15, <1>16, <1>17, <1>18, <1>19, <1>20 DEF Next, HandleStep

(***************************************************************************)
(* The step of the invariant.  A step moves one call; Moved says what its  *)
(* record becomes, and that no other changes.                              *)
(***************************************************************************)
Moved(d, pc, w, r, o) ==
    \A e \in Deliveries :
      /\ call'[e].pc = IF e = d THEN pc ELSE call[e].pc
      /\ call'[e].row = IF e = d THEN w ELSE call[e].row
      /\ call'[e].run = IF e = d THEN r ELSE call[e].run
      /\ call'[e].out = IF e = d THEN o ELSE call[e].out

LEMMA GotoMoves ==
    ASSUME TypeOK, NEW d \in Deliveries, NEW p, Goto(d, p)
    PROVE Moved(d, p, call[d].row, call[d].run, call[d].out)
BY DEF TypeOK, Calls, Goto, Moved

LEMMA RetryMoves ==
    ASSUME TypeOK, NEW d \in Deliveries, NEW p,
           call' = [call EXCEPT ![d].tries = 1, ![d].pc = p]
    PROVE Moved(d, p, call[d].row, call[d].run, call[d].out)
BY DEF TypeOK, Calls, Moved

LEMMA WaitMoves ==
    ASSUME TypeOK, NEW d \in Deliveries, NEW p, NEW w,
           call' = [call EXCEPT ![d].pc = p, ![d].row = w]
    PROVE Moved(d, p, w, call[d].run, call[d].out)
BY DEF TypeOK, Calls, Moved

LEMMA RunMoves ==
    ASSUME TypeOK, NEW d \in Deliveries, NEW p, NEW r,
           call' = [call EXCEPT ![d].pc = p, ![d].run = r]
    PROVE Moved(d, p, call[d].row, r, call[d].out)
BY DEF TypeOK, Calls, Moved

LEMMA ReleaseMoves ==
    ASSUME TypeOK, NEW d \in Deliveries, NEW a, ReleaseAfter(d, a)
    PROVE Moved(d, "release", call[d].row, call[d].run, a)
BY DEF TypeOK, Calls, ReleaseAfter, Moved

\* What a step must respect to keep the invariant: d moves to pc p.
Rest == RowsApart /\ HeldRows /\ EffectsOnce /\ RunsCaused
          /\ ReleaseAnswers /\ AnsweredOnce

Lawful(d, p, w, r, o) ==
    /\ p \in {"look", "choose"} => d \in Choices
    /\ p = "choose" => r \in RunIds
    /\ p = "mark" => <<d, r>> \in effects'
    /\ p = "wait" => w \in Deliveries /\ Linked(d, w)
    /\ p = "release" => o \in Excuses
    /\ p \in Submitting \cup {"mark"} => row'[d] = Reserved
    /\ call[d].pc \in {"mark", "release"} => p \in {"mark", "release", "done", "dead"}

LawfulRow(d) ==
    /\ \A e \in Deliveries : e # d => row'[e] = row[e]
    /\ \/ row'[d] \in {row[d], Absent}
       \/ row'[d] = Reserved /\ Existing(d) = {}
       \/ /\ row'[d] # Absent /\ row[d] # Absent
          /\ <<d, row'[d].run>> \in effects

LawfulAnswer(d, p) ==
    \/ UNCHANGED answer
    \/ /\ p = "done"
       /\ \E a \in RunIds \cup Excuses :
            /\ answer' = [answer EXCEPT ![d] = a]
            /\ a \in RunIds =>
                 \E e \in Deliveries : Linked(d, e) /\ <<e, a>> \in effects

\* A step without effect.
LEMMA PlainStep ==
    ASSUME IngressInv, NEW d \in Deliveries, NEW p, NEW w, NEW r, NEW o,
           call[d].pc \notin {"done", "dead"},
           Moved(d, p, w, r, o), Lawful(d, p, w, r, o),
           LawfulRow(d), LawfulAnswer(d, p), UNCHANGED <<keyed, effects>>
    PROVE Rest'
<1>0. /\ TypeOK /\ RowsApart /\ HeldRows /\ EffectsOnce /\ RunsCaused
      /\ ReleaseAnswers /\ AnsweredOnce
  BY DEF IngressInv
<1>1. RowsApart'
  BY <1>0 DEF RowsApart, LawfulRow, Existing, Linked
<1>2. HeldRows'
  BY <1>0 DEF HeldRows, Holding, Moved, Lawful, LawfulRow
<1>3. EffectsOnce'
  BY <1>0 DEF TypeOK, EffectsOnce, Moved, Lawful
<1>4. RunsCaused'
  <2> SUFFICES ASSUME NEW e \in Deliveries PROVE
        /\ call'[e].pc \in {"look", "choose"} => e \in Choices
        /\ call'[e].pc = "choose" => call'[e].run \in RunIds
        /\ call'[e].pc = "mark" => <<e, call'[e].run>> \in effects
        /\ row'[e].run # "none" => <<e, row'[e].run>> \in effects
        /\ call'[e].pc = "wait" =>
             call'[e].row \in Deliveries /\ Linked(e, call'[e].row)
        /\ answer'[e] \in RunIds =>
             \E c \in Deliveries : Linked(e, c) /\ <<c, answer'[e]>> \in effects
    BY DEF RunsCaused, At, Linked
  <2>1. /\ call'[e].pc \in {"look", "choose"} => e \in Choices
        /\ call'[e].pc = "choose" => call'[e].run \in RunIds
        /\ call'[e].pc = "mark" => <<e, call'[e].run>> \in effects
        /\ call'[e].pc = "wait" =>
             call'[e].row \in Deliveries /\ Linked(e, call'[e].row)
    BY <1>0 DEF RunsCaused, At, Moved, Lawful
  <2>2. row'[e].run # "none" => <<e, row'[e].run>> \in effects
    <3>1. CASE e # d
      BY <1>0, <3>1 DEF RunsCaused, LawfulRow
    <3>2. CASE e = d
      <4>1. Absent.run = "none" /\ Reserved.run = "none"
        BY DEF Absent, Reserved
      <4>2. QED
        BY <1>0, <3>2, <4>1 DEF RunsCaused, LawfulRow
    <3>3. QED
      BY <3>1, <3>2
  <2>3. answer'[e] \in RunIds =>
          \E c \in Deliveries : Linked(e, c) /\ <<c, answer'[e]>> \in effects
    BY <1>0 DEF TypeOK, RunsCaused, LawfulAnswer
  <2>4. QED
    BY <2>1, <2>2, <2>3
<1>5. ReleaseAnswers'
  BY <1>0 DEF ReleaseAnswers, At, Moved, Lawful
<1>6. AnsweredOnce'
  BY <1>0 DEF TypeOK, AnsweredOnce, At, Moved, LawfulAnswer
<1>7. QED
  BY <1>1, <1>2, <1>3, <1>4, <1>5, <1>6 DEF Rest

\* A choice is applied, or a run is created.
LEMMA EffectStep ==
    ASSUME IngressInv, NEW d \in Deliveries, NEW r \in RunIds,
           call[d].pc \in {"choose", "create"},
           CommittedThen(d, "mark", r),
           effects' = effects \cup {<<d, r>>},
           \A e \in Events : keyed[e] # "none" => keyed'[e] = keyed[e],
           d \notin Choices => keyed'[EventOf[d]] = r,
           UNCHANGED <<row, answer>>
    PROVE Rest'
<1>0. /\ TypeOK /\ RowsApart /\ HeldRows /\ EffectsOnce /\ RunsCaused
      /\ ReleaseAnswers /\ AnsweredOnce
  BY DEF IngressInv
<1>1. PICK p \in {"mark", "release"}, o \in {call[d].out, "error"} :
        Moved(d, p, call[d].row, IF p = "mark" THEN r ELSE call[d].run, o)
          /\ (p = "release" => o = "error")
  <2>1. CASE call' = [call EXCEPT ![d].pc = "mark", ![d].run = r]
    BY <1>0, <2>1, RunMoves
  <2>2. CASE ReleaseAfter(d, "error")
    BY <1>0, <2>2, ReleaseMoves
  <2>3. QED
    BY <2>1, <2>2 DEF CommittedThen
<1>2. RowsApart'
  BY <1>0 DEF RowsApart, Linked
<1>3. HeldRows'
  BY <1>0, <1>1 DEF HeldRows, Holding, Moved, Submitting
<1>4. EffectsOnce'
  <2>1. \A x \in effects : x[1] \in Deliveries /\ x[2] \in RunIds /\ x[1] # d
    BY <1>0 DEF TypeOK, EffectsOnce
  <2>2. \A x \in effects : x[1] \notin Choices => keyed'[EventOf[x[1]]] = x[2]
    <3> SUFFICES ASSUME NEW x \in effects, x[1] \notin Choices
                 PROVE keyed'[EventOf[x[1]]] = x[2]
      OBVIOUS
    <3>1. keyed[EventOf[x[1]]] = x[2] /\ x[1] \in Deliveries /\ x[2] \in RunIds
      BY <1>0, <2>1 DEF EffectsOnce
    <3>2. x[2] # "none" /\ EventOf[x[1]] \in Events
      BY <3>1, DeliveryAssumption
    <3>3. QED
      BY <3>1, <3>2
  <2>3. QED
    BY <1>0, <1>1, <2>1, <2>2 DEF EffectsOnce, Moved
<1>5. RunsCaused'
  <2> SUFFICES ASSUME NEW e \in Deliveries PROVE
        /\ call'[e].pc \in {"look", "choose"} => e \in Choices
        /\ call'[e].pc = "choose" => call'[e].run \in RunIds
        /\ call'[e].pc = "mark" => <<e, call'[e].run>> \in effects'
        /\ row[e].run # "none" => <<e, row[e].run>> \in effects'
        /\ call'[e].pc = "wait" =>
             call'[e].row \in Deliveries /\ Linked(e, call'[e].row)
        /\ answer[e] \in RunIds =>
             \E c \in Deliveries : Linked(e, c) /\ <<c, answer[e]>> \in effects'
    BY DEF RunsCaused, At, Linked
  <2>1. /\ call'[e].pc \in {"look", "choose"} => e \in Choices
        /\ call'[e].pc = "choose" => call'[e].run \in RunIds
        /\ call'[e].pc = "mark" => <<e, call'[e].run>> \in effects'
        /\ call'[e].pc = "wait" =>
             call'[e].row \in Deliveries /\ Linked(e, call'[e].row)
    BY <1>0, <1>1 DEF RunsCaused, At, Moved
  <2>2. /\ row[e].run # "none" => <<e, row[e].run>> \in effects'
        /\ answer[e] \in RunIds =>
             \E c \in Deliveries : Linked(e, c) /\ <<c, answer[e]>> \in effects'
    BY <1>0 DEF RunsCaused
  <2>3. QED
    BY <2>1, <2>2
<1>6. ReleaseAnswers'
  BY <1>0, <1>1 DEF ReleaseAnswers, At, Moved, Excuses
<1>7. AnsweredOnce'
  BY <1>0, <1>1 DEF AnsweredOnce, At, Moved
<1>8. QED
  BY <1>2, <1>3, <1>4, <1>5, <1>6, <1>7 DEF Rest

\* A step that ends the call with an answer.
LEMMA AnswerStep ==
    ASSUME IngressInv, NEW d \in Deliveries, NEW a \in RunIds \cup Excuses,
           call[d].pc \notin {"done", "dead"},
           Answer(d, a), LawfulRow(d), UNCHANGED <<keyed, effects>>,
           a \in RunIds =>
             \E e \in Deliveries : Linked(d, e) /\ <<e, a>> \in effects
    PROVE Rest'
<1>1. Moved(d, "done", call[d].row, call[d].run, call[d].out)
  BY GotoMoves DEF IngressInv, Answer
<1>2. Lawful(d, "done", call[d].row, call[d].run, call[d].out)
  BY DEF Lawful, Submitting
<1>3. LawfulAnswer(d, "done")
  BY DEF LawfulAnswer, Answer
<1>4. QED
  BY <1>1, <1>2, <1>3, PlainStep

\* An exception in the try block.
LEMMA ReleaseStep ==
    ASSUME IngressInv, NEW d \in Deliveries, NEW a \in {"refused", "error"},
           call[d].pc \notin {"done", "dead"},
           ReleaseAfter(d, a), LawfulRow(d), UNCHANGED <<keyed, effects, answer>>
    PROVE Rest'
<1>1. Moved(d, "release", call[d].row, call[d].run, a)
  BY ReleaseMoves DEF IngressInv
<1>2. Lawful(d, "release", call[d].row, call[d].run, a)
  BY DEF Lawful, Submitting, Excuses
<1>3. QED
  BY <1>1, <1>2, PlainStep DEF LawfulAnswer

LEMMA DuplicateStep ==
    ASSUME IngressInv, NEW d \in Deliveries, call[d].pc \in Searching,
           Duplicate(d), UNCHANGED <<row, keyed, effects>>
    PROVE Rest'
<1>1. PICK e \in Deliveries :
        /\ Linked(d, e)
        /\ \/ row[e].run \in RunIds /\ Answer(d, row[e].run)
           \/ /\ call' = [call EXCEPT ![d].pc = "wait", ![d].row = e]
              /\ UNCHANGED answer
  BY DuplicateOutcome DEF IngressInv
<1>2. LawfulRow(d) /\ call[d].pc \notin {"done", "dead"}
  BY DEF LawfulRow, Searching
<1>3. CASE row[e].run \in RunIds /\ Answer(d, row[e].run)
  <2>1. <<e, row[e].run>> \in effects
    BY <1>3, DeliveryAssumption DEF IngressInv, RunsCaused
  <2>2. QED
    BY <1>1, <1>2, <1>3, <2>1, AnswerStep
<1>4. CASE /\ call' = [call EXCEPT ![d].pc = "wait", ![d].row = e]
           /\ UNCHANGED answer
  <2>1. Moved(d, "wait", e, call[d].run, call[d].out)
    BY <1>4, WaitMoves DEF IngressInv
  <2>2. Lawful(d, "wait", e, call[d].run, call[d].out)
    BY <1>1 DEF Lawful, Submitting, Searching
  <2>3. QED
    BY <1>2, <1>4, <2>1, <2>2, PlainStep DEF LawfulAnswer
<1>5. QED
  BY <1>1, <1>3, <1>4

LEMMA RestStep == ASSUME IngressInv, [Next]_vars PROVE Rest'
<1>0. TypeOK
  BY DEF IngressInv
<1>1. ASSUME NEW d \in Deliveries, Receive(d) PROVE Rest'
  <2>1. Goto(d, "find") /\ LawfulRow(d) /\ call[d].pc \notin {"done", "dead"}
    BY <1>1 DEF Receive, At, LawfulRow
  <2>2. Moved(d, "find", call[d].row, call[d].run, call[d].out)
    BY <1>0, <2>1, GotoMoves
  <2>3. Lawful(d, "find", call[d].row, call[d].run, call[d].out)
    BY <1>1 DEF Receive, At, Lawful, Submitting
  <2>4. QED
    BY <1>1, <2>1, <2>2, <2>3, PlainStep DEF Receive, LawfulAnswer
<1>2. ASSUME NEW d \in Deliveries, FindExisting(d) PROVE Rest'
  <2>1. CASE Existing(d) = {}
    <3>1. /\ Goto(d, "insert") /\ LawfulRow(d) /\ UNCHANGED <<keyed, effects, answer>>
          /\ call[d].pc = "find"
      BY <1>2, <2>1 DEF FindExisting, At, LawfulRow
    <3>2. Moved(d, "insert", call[d].row, call[d].run, call[d].out)
      BY <1>0, <3>1, GotoMoves
    <3>3. Lawful(d, "insert", call[d].row, call[d].run, call[d].out)
      BY <3>1 DEF Lawful, Submitting
    <3>4. QED
      BY <3>1, <3>2, <3>3, PlainStep DEF LawfulAnswer
  <2>2. CASE Existing(d) # {}
    BY <1>2, <2>2, DuplicateStep DEF FindExisting, At, Searching
  <2>3. QED
    BY <2>1, <2>2
<1>3. ASSUME NEW d \in Deliveries, InsertReservation(d) PROVE Rest'
  <2> DEFINE p == IF d \in Choices THEN "look" ELSE "create"
  <2>1. /\ Goto(d, p) /\ LawfulRow(d) /\ row'[d] = Reserved
        /\ UNCHANGED <<keyed, effects, answer>> /\ call[d].pc = "insert"
    BY <1>0, <1>3 DEF TypeOK, InsertReservation, At, LawfulRow
  <2>2. Lawful(d, p, call[d].row, call[d].run, call[d].out)
    BY <2>1 DEF Lawful
  <2> HIDE DEF p
  <2>3. Moved(d, p, call[d].row, call[d].run, call[d].out)
    BY <1>0, <2>1, GotoMoves
  <2>4. QED
    BY <2>1, <2>2, <2>3, PlainStep DEF LawfulAnswer
<1>4. ASSUME NEW d \in Deliveries, InsertConflicts(d) PROVE Rest'
  <2> DEFINE p == IF call[d].tries = 0 THEN "find" ELSE "load"
  <2>1. /\ call' = [call EXCEPT ![d].tries = 1, ![d].pc = p] /\ LawfulRow(d)
        /\ UNCHANGED <<keyed, effects, answer>> /\ call[d].pc = "insert"
    BY <1>4 DEF InsertConflicts, At, LawfulRow
  <2>2. Lawful(d, p, call[d].row, call[d].run, call[d].out)
    BY <2>1 DEF Lawful, Submitting
  <2> HIDE DEF p
  <2>3. Moved(d, p, call[d].row, call[d].run, call[d].out)
    BY <1>0, <2>1, RetryMoves
  <2>4. QED
    BY <2>1, <2>2, <2>3, PlainStep DEF LawfulAnswer
<1>5. ASSUME NEW d \in Deliveries, LoadExisting(d) PROVE Rest'
  <2>1. CASE Existing(d) = {}
    <3>1. /\ Answer(d, "error") /\ LawfulRow(d) /\ UNCHANGED <<keyed, effects>>
          /\ call[d].pc = "load"
      BY <1>5, <2>1 DEF LoadExisting, At, LawfulRow
    <3>2. "error" \in Excuses /\ "error" \notin RunIds
      BY DeliveryAssumption DEF Excuses
    <3>3. QED
      BY <3>1, <3>2, AnswerStep
  <2>2. CASE Existing(d) # {}
    BY <1>5, <2>2, DuplicateStep DEF LoadExisting, At, Searching
  <2>3. QED
    BY <2>1, <2>2
<1>6. ASSUME NEW d \in Deliveries, RunIdSeen(d) PROVE Rest'
  <2> DEFINE w == call[d].row
  <2>1. w \in Deliveries /\ Linked(d, w)
    BY <1>6 DEF RunIdSeen, IngressInv, RunsCaused
  <2>2. /\ row[w].run # "none" /\ Answer(d, row[w].run) /\ LawfulRow(d)
        /\ UNCHANGED <<keyed, effects>> /\ call[d].pc = "wait"
    BY <1>6 DEF RunIdSeen, At, LawfulRow
  <2>3. row[w].run \in RunIds
    BY <1>0, <2>1, <2>2, RowsTyped DEF TypeOK
  <2>4. <<w, row[w].run>> \in effects
    BY <2>1, <2>2 DEF IngressInv, RunsCaused
  <2> HIDE DEF w
  <2>5. QED
    BY <2>1, <2>2, <2>3, <2>4, AnswerStep
<1>7. ASSUME NEW d \in Deliveries, WaitTimesOut(d) PROVE Rest'
  <2>1. /\ Answer(d, "pending") /\ LawfulRow(d) /\ UNCHANGED <<keyed, effects>>
        /\ call[d].pc \notin {"done", "dead"}
    BY <1>7 DEF WaitTimesOut, At, LawfulRow
  <2>2. "pending" \in Excuses /\ "pending" \notin RunIds
    BY DeliveryAssumption DEF Excuses
  <2>3. QED
    BY <2>1, <2>2, AnswerStep
<1>8. ASSUME NEW d \in Deliveries, LatestWaitingChoice(d) PROVE Rest'
  <2>1. /\ LawfulRow(d) /\ UNCHANGED <<keyed, effects, answer>>
        /\ call[d].pc = "look" /\ d \in Choices /\ row'[d] = Reserved
    BY <1>8 DEF LatestWaitingChoice, At, LawfulRow, IngressInv, RunsCaused,
                 HeldRows, Holding, Submitting
  <2>2. CASE Goto(d, "create")
    <3>1. Moved(d, "create", call[d].row, call[d].run, call[d].out)
      BY <1>0, <2>2, GotoMoves
    <3>2. Lawful(d, "create", call[d].row, call[d].run, call[d].out)
      BY <2>1 DEF Lawful
    <3>3. QED
      BY <2>1, <3>1, <3>2, PlainStep DEF LawfulAnswer
  <2>3. CASE ~ Goto(d, "create")
    <3>1. PICK r \in waiting :
            call' = [call EXCEPT ![d].pc = "choose", ![d].run = r]
      BY <1>8, <2>3 DEF LatestWaitingChoice
    <3>2. Moved(d, "choose", call[d].row, r, call[d].out)
      BY <1>0, <3>1, RunMoves
    <3>3. Lawful(d, "choose", call[d].row, r, call[d].out)
      BY <1>0, <2>1 DEF TypeOK, Lawful
    <3>4. QED
      BY <2>1, <3>2, <3>3, PlainStep DEF LawfulAnswer
  <2>4. QED
    BY <2>2, <2>3
<1>9. ASSUME NEW d \in Deliveries, ChooseMode(d) PROVE Rest'
  <2>1. call[d].pc = "choose" /\ d \in Choices /\ UNCHANGED <<row, keyed, answer>>
    BY <1>9 DEF ChooseMode, At, IngressInv, RunsCaused
  <2>2. CASE call[d].run \in waiting
    <3>1. call[d].run \in RunIds
      BY <1>0, <2>2 DEF TypeOK
    <3>2. /\ CommittedThen(d, "mark", call[d].run)
          /\ effects' = effects \cup {<<d, call[d].run>>}
      BY <1>9, <2>2 DEF ChooseMode
    <3>3. QED
      BY <2>1, <3>1, <3>2, EffectStep
  <2>3. CASE call[d].run \notin waiting
    BY <1>9, <2>1, <2>3, ReleaseStep DEF ChooseMode, LawfulRow
  <2>4. QED
    BY <2>2, <2>3
<1>10. ASSUME NEW d \in Deliveries, CreateRun(d) PROVE Rest'
  <2> DEFINE r == IF keyed[EventOf[d]] = "none" THEN d ELSE keyed[EventOf[d]]
  <2>1. r \in RunIds /\ EventOf[d] \in Events
    BY <1>0, DeliveryAssumption DEF TypeOK, RunIds
  <2>2. /\ keyed' = [keyed EXCEPT ![EventOf[d]] = r]
        /\ effects' = effects \cup {<<d, r>>}
        /\ CommittedThen(d, "mark", r)
        /\ UNCHANGED <<row, answer>> /\ call[d].pc = "create"
    BY <1>10 DEF CreateRun, At
  <2>3. /\ \A e \in Events : keyed[e] # "none" => keyed'[e] = keyed[e]
        /\ keyed'[EventOf[d]] = r
    BY <1>0, <2>1, <2>2 DEF TypeOK
  <2> HIDE DEF r
  <2>4. QED
    BY <2>1, <2>2, <2>3, EffectStep
<1>11. ASSUME NEW d \in Deliveries, SubmitFails(d) PROVE Rest'
  BY <1>11, ReleaseStep DEF SubmitFails, Submitting, LawfulRow
<1>12. ASSUME NEW d \in Deliveries, RefuseDirective(d) PROVE Rest'
  BY <1>12, ReleaseStep DEF RefuseDirective, At, LawfulRow
<1>13. ASSUME NEW d \in Deliveries, MarkSubmitted(d) PROVE Rest'
  <2>1. <<d, call[d].run>> \in effects /\ call[d].pc = "mark" /\ row[d] = Reserved
    BY <1>13 DEF MarkSubmitted, At, IngressInv, RunsCaused, HeldRows, Holding
  <2>2. call[d].run \in RunIds
    BY <1>0, <2>1 DEF TypeOK
  <2>3. LawfulRow(d) /\ UNCHANGED <<keyed, effects>>
    BY <1>0, <1>13, <2>1 DEF TypeOK, MarkSubmitted, LawfulRow, Submitted, Absent,
                             Reserved
  <2>4. CASE Answer(d, call[d].run)
    BY <2>1, <2>2, <2>3, <2>4, AnswerStep DEF Linked
  <2>5. CASE ReleaseAfter(d, "error") /\ UNCHANGED answer
    BY <2>1, <2>3, <2>5, ReleaseStep
  <2>6. QED
    BY <1>13, <2>4, <2>5 DEF MarkSubmitted
<1>14. ASSUME NEW d \in Deliveries, MarkFails(d) PROVE Rest'
  BY <1>14, ReleaseStep DEF MarkFails, At, LawfulRow
<1>15. ASSUME NEW d \in Deliveries, ReleaseReservation(d) PROVE Rest'
  <2>1. /\ Answer(d, call[d].out) /\ LawfulRow(d) /\ UNCHANGED <<keyed, effects>>
        /\ call[d].pc = "release" /\ call[d].out \in Excuses
    BY <1>0, <1>15 DEF TypeOK, ReleaseReservation, At, LawfulRow, IngressInv, ReleaseAnswers
  <2>2. call[d].out \notin RunIds
    BY <2>1, DeliveryAssumption
  <2>3. QED
    BY <2>1, <2>2, AnswerStep
<1>16. ASSUME NEW d \in Deliveries, ReleaseFails(d) PROVE Rest'
  <2>1. /\ Answer(d, call[d].out) /\ LawfulRow(d) /\ UNCHANGED <<keyed, effects>>
        /\ call[d].pc = "release" /\ call[d].out \in Excuses
    BY <1>0, <1>16 DEF TypeOK, ReleaseFails, At, LawfulRow, IngressInv, ReleaseAnswers
  <2>2. call[d].out \notin RunIds
    BY <2>1, DeliveryAssumption
  <2>3. QED
    BY <2>1, <2>2, AnswerStep
<1>17. ASSUME NEW d \in Deliveries, ReserveRaises(d) PROVE Rest'
  <2>1. /\ Answer(d, "error") /\ UNCHANGED <<keyed, effects>>
        /\ call[d].pc \notin {"done", "dead"}
    BY <1>17 DEF ReserveRaises, Searching
  <2>2. LawfulRow(d)
    BY <1>0, <1>17 DEF TypeOK, ReserveRaises, LawfulRow
  <2>3. "error" \in Excuses /\ "error" \notin RunIds
    BY DeliveryAssumption DEF Excuses
  <2>4. QED
    BY <2>1, <2>2, <2>3, AnswerStep
<1>18. ASSUME NEW d \in Deliveries, Crash(d) PROVE Rest'
  <2>1. Goto(d, "dead") /\ LawfulRow(d) /\ call[d].pc \notin {"done", "dead"}
    BY <1>18 DEF Crash, At, LawfulRow
  <2>2. Moved(d, "dead", call[d].row, call[d].run, call[d].out)
    BY <1>0, <2>1, GotoMoves
  <2>3. Lawful(d, "dead", call[d].row, call[d].run, call[d].out)
    BY <1>18 DEF Crash, At, Lawful, Submitting
  <2>4. QED
    BY <1>18, <2>1, <2>2, <2>3, PlainStep DEF Crash, LawfulAnswer
<1>19. ASSUME UNCHANGED <<row, keyed, effects, call, answer>> PROVE Rest'
  BY <1>19 DEF IngressInv, Rest, RowsApart, HeldRows, EffectsOnce, RunsCaused,
               ReleaseAnswers, AnsweredOnce, Holding, At, Linked
<1>20. QED
  BY <1>1, <1>2, <1>3, <1>4, <1>5, <1>6, <1>7, <1>8, <1>9, <1>10, <1>11, <1>12, <1>13, <1>14, <1>15, <1>16, <1>17, <1>18, <1>19
    DEF Next, HandleStep, DecidedElsewhere, vars

(***************************************************************************)
(* Theorems.                                                               *)
(***************************************************************************)
LEMMA IngressInitial == Init => IngressInv
<1> SUFFICES ASSUME Init PROVE IngressInv
  OBVIOUS
<1>1. TypeOK
  BY RowsTyped DEF Init, TypeOK, RunIds, Calls, Pcs
<1>2. RowsApart /\ HeldRows /\ EffectsOnce
  BY DEF Init, RowsApart, HeldRows, EffectsOnce, Holding, Submitting
<1>3. RunsCaused /\ ReleaseAnswers /\ AnsweredOnce
  BY DeliveryAssumption DEF Init, RunsCaused, ReleaseAnswers, AnsweredOnce, At,
                            Absent
<1>4. QED
  BY <1>1, <1>2, <1>3 DEF IngressInv

LEMMA IngressInvariant == Spec => []IngressInv
<1>1. IngressInv /\ [Next]_vars => IngressInv'
  BY TypeStep, RestStep DEF IngressInv, Rest
<1>2. QED
  BY IngressInitial, <1>1, PTL DEF Spec

\* Every variable keeps its type: what the handlers read from a row or from
\* their own state is what they take it for.
THEOREM IngressTypes == Spec => []TypeOK
BY IngressInvariant, PTL DEF IngressInv

\* However many deliveries of one message are handled at once, one handler
\* submits, and its reservation is in the table meanwhile (gateway.py, handle;
\* dedup.py, reserve).
THEOREM SubmitterAlone == Spec => []OneSubmitter
<1>1. IngressInv => OneSubmitter
  <2> SUFFICES ASSUME IngressInv, NEW d \in Deliveries, Holding(d)
               PROVE /\ row[d] = Reserved
                     /\ \A e \in Deliveries : Holding(e) /\ Linked(d, e) => d = e
    BY DEF OneSubmitter
  <2>1. \A e \in Deliveries : Holding(e) => row[e] = Reserved
    BY DEF IngressInv, HeldRows
  <2>2. Reserved # Absent
    BY DEF Reserved, Absent
  <2>3. QED
    BY <2>1, <2>2 DEF IngressInv, RowsApart
<1>2. QED
  BY <1>1, IngressInvariant, PTL

\* A message becomes one task, but for the two cases that a handler which
\* failed after its effect leaves open.
THEOREM TaskOnce == Spec => []OneTaskPerMessage
<1>1. IngressInv => OneTaskPerMessage
  <2> SUFFICES ASSUME IngressInv, NEW x \in effects, NEW y \in effects,
                      Linked(x[1], y[1]), x[2] # y[2]
               PROVE /\ Faltered(x[1]) \/ Faltered(y[1])
                     /\ \/ EventOf[x[1]] # EventOf[y[1]]
                        \/ {x[1], y[1]} \cap Choices # {}
    BY DEF OneTaskPerMessage
  <2>1. x[1] \in Deliveries /\ y[1] \in Deliveries
    BY DEF IngressInv, TypeOK
  <2>2. x[1] # y[1]
    BY DEF IngressInv, EffectsOnce
  <2>3. Faltered(x[1]) \/ Faltered(y[1])
    BY <2>1, <2>2 DEF IngressInv, RowsApart, Faltered
  <2>4. ASSUME x[1] \notin Choices, y[1] \notin Choices
        PROVE EventOf[x[1]] # EventOf[y[1]]
    BY <2>4 DEF IngressInv, EffectsOnce
  <2>5. QED
    BY <2>3, <2>4
<1>2. QED
  BY <1>1, IngressInvariant, PTL

\* Whoever is told a run id is told the run of a linked delivery.
THEOREM AnswersTrue == Spec => []AnswerIsTheTask
<1>1. IngressInv => AnswerIsTheTask
  BY DEF IngressInv, RunsCaused, AnswerIsTheTask
<1>2. QED
  BY <1>1, IngressInvariant, PTL

\* A row with a run id is there for every retry to observe.
THEOREM AttachedStays == Spec => AttachedRowStays
<1>1. ASSUME IngressInv, Next, NEW d \in Deliveries, row[d].run # "none"
      PROVE row'[d] = row[d]
  <2>1. TypeOK /\ RowsApart /\ HeldRows
    BY <1>1 DEF IngressInv
  <2>2. row[d] # Absent /\ row[d] # Reserved /\ d \in Existing(d)
    BY <1>1 DEF Absent, Reserved, Existing, Linked
  <2>3. ASSUME NEW e \in Deliveries, InsertReservation(e) PROVE row'[d] = row[d]
    BY <2>1, <2>2, <2>3 DEF TypeOK, InsertReservation
  <2>4. ASSUME NEW e \in Deliveries, MarkSubmitted(e) PROVE row'[d] = row[d]
    BY <2>1, <2>2, <2>4 DEF TypeOK, MarkSubmitted, At, HeldRows, Holding
  <2>5. ASSUME NEW e \in Deliveries, ReleaseReservation(e) PROVE row'[d] = row[d]
    BY <2>1, <2>2, <2>5 DEF TypeOK, ReleaseReservation
  <2>6. ASSUME NEW e \in Deliveries, ReserveRaises(e) PROVE row'[d] = row[d]
    BY <2>1, <2>2, <2>6 DEF TypeOK, ReserveRaises
  <2>7. QED
    BY <1>1, <2>3, <2>4, <2>5, <2>6
      DEF Next, HandleStep, Receive, FindExisting, InsertConflicts, LoadExisting,
          RunIdSeen, WaitTimesOut, LatestWaitingChoice, ChooseMode, CreateRun,
          SubmitFails, RefuseDirective, MarkFails, ReleaseFails, Crash,
          DecidedElsewhere
<1>2. IngressInv /\ [Next]_vars =>
        [\A d \in Deliveries : row[d].run # "none" => row'[d] = row[d]]_vars
  BY <1>1
<1>3. QED
  BY <1>2, IngressInvariant, PTL DEF Spec, AttachedRowStays

(***************************************************************************)
(* Refinement.                                                             *)
(***************************************************************************)
\* Two deliveries have one event id exactly if they have one message id.
StableIds ==
    \A d, e \in Deliveries : MessageOf[d] = MessageOf[e] <=> EventOf[d] = EventOf[e]

Task == [m \in Messages |-> TaskOf(m)]

\* The mapped task of a message is what its event's key holds.
LEMMA TaskIsKeyed ==
    ASSUME StableIds, NEW d \in Deliveries
    PROVE MessageOf[d] \in Messages /\ Task[MessageOf[d]] = keyed[EventOf[d]]
<1> DEFINE c == CHOOSE e \in Deliveries : MessageOf[e] = MessageOf[d]
<1>1. c \in Deliveries /\ MessageOf[c] = MessageOf[d]
  OBVIOUS
<1>2. EventOf[c] = EventOf[d]
  BY <1>1 DEF StableIds
<1>3. MessageOf[d] \in Messages
  BY DeliveryAssumption
<1>4. QED
  BY <1>2, <1>3 DEF Task, TaskOf

\* An answer that names a run is the task of the delivery's message.
LEMMA AnswerMaps ==
    ASSUME StableIds, Choices = {}, IngressInv, NEW d \in Deliveries,
           NEW a \in RunIds \cup Excuses, Answer(d, a), ~At(d, "done"),
           a \in RunIds =>
             \E e \in Deliveries : Linked(d, e) /\ <<e, a>> \in effects,
           UNCHANGED keyed
    PROVE Once!Reply(d)
<1>1. answer[d] = "none"
  BY DEF IngressInv, AnsweredOnce, TypeOK
<1>2. answer' = [answer EXCEPT ![d] = a]
  BY DEF Answer
<1>3. a \in Once!Excuses \cup ({Task[MessageOf[d]]} \ {"none"})
  <2>1. CASE a \in Excuses
    BY <2>1 DEF Excuses, Once!Excuses
  <2>2. CASE a \in RunIds
    <3>1. PICK e \in Deliveries : Linked(d, e) /\ <<e, a>> \in effects
      BY <2>2
    <3>2. EventOf[e] = EventOf[d]
      BY <3>1 DEF StableIds, Linked
    <3>3. keyed[EventOf[e]] = a
      BY <3>1 DEF IngressInv, EffectsOnce
    <3>4. a # "none"
      BY <2>2, DeliveryAssumption
    <3>5. QED
      BY <3>2, <3>3, <3>4, TaskIsKeyed
  <2>3. QED
    BY <2>1, <2>2
<1>4. UNCHANGED Task
  BY DEF Task, TaskOf
<1>5. QED
  BY <1>1, <1>2, <1>3, <1>4 DEF Once!Reply, Task

LEMMA DuplicateMaps ==
    ASSUME StableIds, Choices = {}, IngressInv, NEW d \in Deliveries,
           call[d].pc \in Searching, Duplicate(d), UNCHANGED <<row, keyed>>
    PROVE Once!Reply(d) \/ UNCHANGED <<Task, answer>>
<1>1. PICK e \in Deliveries :
        /\ Linked(d, e)
        /\ \/ row[e].run \in RunIds /\ Answer(d, row[e].run)
           \/ UNCHANGED answer
  BY DuplicateOutcome DEF IngressInv
<1>2. CASE row[e].run \in RunIds /\ Answer(d, row[e].run)
  <2>1. <<e, row[e].run>> \in effects
    BY <1>2, DeliveryAssumption DEF IngressInv, RunsCaused
  <2>2. ~At(d, "done")
    BY DEF At, Searching
  <2>3. QED
    BY <1>1, <1>2, <2>1, <2>2, AnswerMaps
<1>3. CASE UNCHANGED answer
  BY <1>3 DEF Task, TaskOf
<1>4. QED
  BY <1>1, <1>2, <1>3

\* The step that fills a key is the one submission of its message.
LEMMA CreateMaps ==
    ASSUME StableIds, IngressInv, NEW d \in Deliveries, CreateRun(d)
    PROVE Once!Submit(MessageOf[d]) \/ UNCHANGED <<Task, answer>>
<1> DEFINE r == IF keyed[EventOf[d]] = "none" THEN d ELSE keyed[EventOf[d]]
<1>0. /\ keyed \in [Events -> Deliveries \cup {"none"}] /\ EventOf[d] \in Events
      /\ keyed' = [keyed EXCEPT ![EventOf[d]] = r]
      /\ UNCHANGED answer
  BY DeliveryAssumption DEF IngressInv, TypeOK, CreateRun
<1>1. CASE keyed[EventOf[d]] # "none"
  <2>1. keyed' = keyed
    BY <1>0, <1>1
  <2>2. QED
    BY <1>0, <2>1 DEF Task, TaskOf
<1>2. CASE keyed[EventOf[d]] = "none"
  <2>1. Task[MessageOf[d]] = "none" /\ MessageOf[d] \in Messages
    BY <1>2, TaskIsKeyed
  <2>2. d \in RunIds
    BY DEF RunIds
  <2>3. Task' = [Task EXCEPT ![MessageOf[d]] = d]
    <3>1. ASSUME NEW m \in Messages
          PROVE Task'[m] = [Task EXCEPT ![MessageOf[d]] = d][m]
      <4> DEFINE c == CHOOSE e \in Deliveries : MessageOf[e] = m
      <4>1. CASE ~\E e \in Deliveries : MessageOf[e] = m
        BY <4>1 DEF Task, TaskOf
      <4>2. CASE \E e \in Deliveries : MessageOf[e] = m
        <5>1. c \in Deliveries /\ MessageOf[c] = m
          BY <4>2
        <5>2. EventOf[c] = EventOf[d] <=> m = MessageOf[d]
          BY <5>1 DEF StableIds
        <5>3. Task[m] = keyed[EventOf[c]] /\ Task'[m] = keyed'[EventOf[c]]
          BY <4>2 DEF Task, TaskOf
        <5>4. EventOf[c] \in Events
          BY <5>1, DeliveryAssumption
        <5> HIDE DEF c
        <5>5. QED
          BY <1>0, <1>2, <5>2, <5>3, <5>4 DEF Task
      <4>3. QED
        BY <4>1, <4>2
    <3>2. QED
      BY <3>1 DEF Task
  <2>4. QED
    BY <1>0, <2>1, <2>2, <2>3 DEF Once!Submit, Task
<1>3. QED
  BY <1>1, <1>2

LEMMA StepMaps ==
    ASSUME StableIds, Choices = {}, IngressInv, [Next]_vars
    PROVE [Once!Next]_<<Task, answer>>
<1> DEFINE Goal == [Once!Next]_<<Task, answer>>
<1>a. ASSUME NEW d \in Deliveries, Once!Reply(d) PROVE Goal
  BY <1>a DEF Once!Next
<1>b. ASSUME UNCHANGED <<keyed, answer>> PROVE Goal
  BY <1>b DEF Task, TaskOf
<1>1. ASSUME NEW d \in Deliveries, FindExisting(d) PROVE Goal
  <2>1. CASE Existing(d) = {}
    BY <1>1, <2>1, <1>b DEF FindExisting
  <2>2. CASE Existing(d) # {}
    <3>1. Once!Reply(d) \/ UNCHANGED <<Task, answer>>
      BY <1>1, <2>2, DuplicateMaps DEF FindExisting, At, Searching
    <3>2. QED
      BY <3>1, <1>a
  <2>3. QED
    BY <2>1, <2>2
<1>2. ASSUME NEW d \in Deliveries, LoadExisting(d) PROVE Goal
  <2>1. CASE Existing(d) = {}
    <3>1. Answer(d, "error") /\ ~At(d, "done") /\ UNCHANGED keyed
      BY <1>2, <2>1 DEF LoadExisting, At
    <3>2. "error" \in Excuses /\ "error" \notin RunIds
      BY DeliveryAssumption DEF Excuses
    <3>3. QED
      BY <3>1, <3>2, <1>a, AnswerMaps
  <2>2. CASE Existing(d) # {}
    <3>1. Once!Reply(d) \/ UNCHANGED <<Task, answer>>
      BY <1>2, <2>2, DuplicateMaps DEF LoadExisting, At, Searching
    <3>2. QED
      BY <3>1, <1>a
  <2>3. QED
    BY <2>1, <2>2
<1>3. ASSUME NEW d \in Deliveries, RunIdSeen(d) PROVE Goal
  <2> DEFINE w == call[d].row
  <2>1. w \in Deliveries /\ Linked(d, w)
    BY <1>3 DEF RunIdSeen, IngressInv, RunsCaused
  <2>2. /\ row[w].run # "none" /\ Answer(d, row[w].run)
        /\ ~At(d, "done") /\ UNCHANGED keyed
    BY <1>3 DEF RunIdSeen, At
  <2>3. row[w].run \in RunIds
    BY <2>1, <2>2, RowsTyped DEF IngressInv, TypeOK
  <2>4. <<w, row[w].run>> \in effects
    BY <2>1, <2>2 DEF IngressInv, RunsCaused
  <2> HIDE DEF w
  <2>5. QED
    BY <2>1, <2>2, <2>3, <2>4, <1>a, AnswerMaps
<1>4. ASSUME NEW d \in Deliveries, WaitTimesOut(d) PROVE Goal
  <2>1. Answer(d, "pending") /\ ~At(d, "done") /\ UNCHANGED keyed
    BY <1>4 DEF WaitTimesOut, At
  <2>2. "pending" \in Excuses /\ "pending" \notin RunIds
    BY DeliveryAssumption DEF Excuses
  <2>3. QED
    BY <2>1, <2>2, <1>a, AnswerMaps
<1>5. ASSUME NEW d \in Deliveries, CreateRun(d) PROVE Goal
  <2>1. Once!Submit(MessageOf[d]) \/ UNCHANGED <<Task, answer>>
    BY <1>5, CreateMaps
  <2>2. QED
    BY <2>1, DeliveryAssumption DEF Once!Next
<1>6. ASSUME NEW d \in Deliveries, MarkSubmitted(d) PROVE Goal
  <2>1. CASE Answer(d, call[d].run)
    <3>1. <<d, call[d].run>> \in effects /\ ~At(d, "done") /\ UNCHANGED keyed
      BY <1>6 DEF MarkSubmitted, At, IngressInv, RunsCaused
    <3>2. call[d].run \in RunIds /\ Linked(d, d)
      BY <3>1 DEF IngressInv, TypeOK, Linked
    <3>3. QED
      BY <2>1, <3>1, <3>2, <1>a, AnswerMaps
  <2>2. CASE UNCHANGED answer
    BY <1>6, <2>2, <1>b DEF MarkSubmitted
  <2>3. QED
    BY <1>6, <2>1, <2>2 DEF MarkSubmitted
<1>7. ASSUME NEW d \in Deliveries, ReleaseReservation(d) \/ ReleaseFails(d)
      PROVE Goal
  <2>1. /\ Answer(d, call[d].out) /\ ~At(d, "done") /\ UNCHANGED keyed
        /\ call[d].out \in Excuses
    BY <1>7 DEF ReleaseReservation, ReleaseFails, At, IngressInv, ReleaseAnswers
  <2>2. call[d].out \notin RunIds
    BY <2>1, DeliveryAssumption
  <2>3. QED
    BY <2>1, <2>2, <1>a, AnswerMaps
<1>8. ASSUME NEW d \in Deliveries, ReserveRaises(d) PROVE Goal
  <2>1. Answer(d, "error") /\ ~At(d, "done") /\ UNCHANGED keyed
    BY <1>8 DEF ReserveRaises, At, Searching
  <2>2. "error" \in Excuses /\ "error" \notin RunIds
    BY DeliveryAssumption DEF Excuses
  <2>3. QED
    BY <2>1, <2>2, <1>a, AnswerMaps
<1>9. ASSUME NEW d \in Deliveries, ChooseMode(d) PROVE Goal
  BY <1>9, <1>b DEF ChooseMode
<1>10. ASSUME NEW d \in Deliveries,
              \/ Receive(d) \/ InsertReservation(d) \/ InsertConflicts(d)
              \/ LatestWaitingChoice(d) \/ SubmitFails(d) \/ RefuseDirective(d)
              \/ MarkFails(d) \/ Crash(d)
       PROVE Goal
  BY <1>10, <1>b DEF Receive, InsertReservation, InsertConflicts,
       LatestWaitingChoice, SubmitFails, RefuseDirective, MarkFails, Crash
<1>11. ASSUME NEW r \in RunIds, DecidedElsewhere(r) PROVE Goal
  BY <1>11, <1>b DEF DecidedElsewhere
<1>12. CASE UNCHANGED vars
  BY <1>12, <1>b DEF vars
<1>13. QED
  BY <1>1, <1>2, <1>3, <1>4, <1>5, <1>6, <1>7, <1>8, <1>9, <1>10, <1>11, <1>12
    DEF Next, HandleStep

\* With ids that agree and no choices, the ingress keeps the promise of
\* OnceOnly, whatever fails and however its handlers interleave.
THEOREM IngressIsOnceOnly ==
    ASSUME StableIds, Choices = {} PROVE Spec => ImplementsOnceOnly
<1>1. Init => Once!Init
  BY DeliveryAssumption DEF Init, Once!Init, TaskOf
<1>2. IngressInv /\ [Next]_vars => [Once!Next]_<<Task, answer>>
  BY StepMaps
<1>3. QED
  BY <1>1, <1>2, IngressInvariant, PTL DEF Spec, ImplementsOnceOnly, Once!Spec, Task

=============================================================================
