--------------------------- MODULE ChannelIngress ---------------------------
(***************************************************************************)
(* How a channel's message becomes a run: ChannelGateway.handle with the   *)
(* reservations of InboundDedupRepository and RunServiceInboundSubmitter.  *)
(*                                                                         *)
(* Channels deliver at least once: a delivery may come again, at the same  *)
(* time or later, with the same event id, the same message id or both.     *)
(* Each delivery is handled by a coroutine of its own, in any process of   *)
(* the deployment, and its transactions interleave with the others'.  A    *)
(* transaction may fail, and one that committed may be reported as failed  *)
(* (the connection is lost before the reply).                              *)
(*                                                                         *)
(* All deliveries are of one conversation of one channel and tenant, and   *)
(* are those should_accept lets in.                                        *)
(***************************************************************************)
CONSTANTS
    Deliveries,    \* deliveries by the channel, each handled once
    Events,        \* event ids
    Messages,      \* message ids
    EventOf,       \* InboundMessage.event_id
    MessageOf,     \* InboundMessage.message_id
    Choices,       \* deliveries whose text is the number of a choice
    Questions      \* runs of the conversation that wait for such a choice

\* A run is named after the delivery whose submission created it.
RunIds == Deliveries \cup Questions

\* No run to name: still pending, refused, or an exception.
Excuses == {"pending", "refused", "error"}

ASSUME DeliveryAssumption ==
    /\ EventOf \in [Deliveries -> Events]
    /\ MessageOf \in [Deliveries -> Messages]
    /\ Choices \subseteq Deliveries
    /\ Deliveries \cap Questions = {}
    /\ RunIds \cap (Excuses \cup {"none"}) = {}

VARIABLES
    row,           \* agent_hub_channel_dedup; a row is named after its reserver
    keyed,         \* per event, the run whose idempotency_key hashes it
    waiting,       \* runs of the conversation in waiting_user_mode
    effects,       \* history: <<d, r>> where handling d submitted or chose r
    call,          \* per delivery, where its handle() call is
    answer,        \* per delivery, what handle() returned or raised
    lost           \* history: handlers a fault kept from their row

vars == <<row, keyed, waiting, effects, call, answer, lost>>

Absent == [status |-> "absent", run |-> "none"]
Reserved == [status |-> "reserved", run |-> "none"]
Submitted(r) == [status |-> "submitted", run |-> r]

Rows == {x \in [status : {"absent", "reserved", "submitted"},
                 run : RunIds \cup {"none"}] :
           x.run = "none" <=> x.status # "submitted"}

Searching == {"find", "insert", "load"}
Submitting == {"look", "choose", "create"}
Pcs == {"new", "wait", "mark", "release", "done", "dead"}
         \cup Searching \cup Submitting

\* The searches a call made, the row it waits for, the run it is about to
\* choose or to mark, and what it answers once its reservation is released.
Calls == [pc : Pcs, tries : {0, 1}, row : Deliveries \cup {"none"},
          run : RunIds \cup {"none"}, out : {"none", "refused", "error"}]

TypeOK ==
    /\ row \in [Deliveries -> Rows]
    /\ keyed \in [Events -> Deliveries \cup {"none"}]
    /\ waiting \subseteq RunIds
    /\ effects \subseteq Deliveries \X RunIds
    /\ call \in [Deliveries -> Calls]
    /\ answer \in [Deliveries -> RunIds \cup Excuses \cup {"none"}]
    /\ lost \subseteq Deliveries

Init ==
    /\ row = [d \in Deliveries |-> Absent]
    /\ keyed = [e \in Events |-> "none"]
    /\ waiting = Questions
    /\ effects = {}
    /\ call = [d \in Deliveries |-> [pc |-> "new", tries |-> 0, row |-> "none",
                                     run |-> "none", out |-> "none"]]
    /\ answer = [d \in Deliveries |-> "none"]
    /\ lost = {}

(***************************************************************************)
(* Helpers.                                                                *)
(***************************************************************************)
At(d, pc) == call[d].pc = pc

Goto(d, pc) == call' = [call EXCEPT ![d].pc = pc]

\* handle() returns or raises.
Answer(d, a) ==
    /\ Goto(d, "done")
    /\ answer' = [answer EXCEPT ![d] = a]

\* An exception inside the try block: release, then raise or return.
ReleaseAfter(d, a) ==
    call' = [call EXCEPT ![d].pc = "release", ![d].out = a]

\* The deduplication rule: same event id or same message id.
Linked(d, e) == EventOf[d] = EventOf[e] \/ MessageOf[d] = MessageOf[e]

\* Fault: the rule forgets to compare the ids.
ExistingAnywhere(d) == {e \in Deliveries : row[e] # Absent}

Existing(d) == {e \in Deliveries : row[e] # Absent /\ Linked(d, e)}

(***************************************************************************)
(* reserve: search, insert, and search again if the insert met another's.  *)
(***************************************************************************)
Receive(d) ==
    /\ At(d, "new")
    /\ Goto(d, "find")
    /\ UNCHANGED <<row, keyed, waiting, effects, answer, lost>>

\* The reservation of a duplicate: its run id, or a row to wait for.  If two
\* rows match it is the older one, which may be either.
Duplicate(d) ==
    \E e \in Existing(d) :
      IF row[e].run # "none"
        THEN Answer(d, row[e].run)
        ELSE call' = [call EXCEPT ![d].pc = "wait", ![d].row = e]
               /\ UNCHANGED answer

FindExisting(d) ==
    /\ At(d, "find")
    /\ IF Existing(d) = {}
         THEN Goto(d, "insert") /\ UNCHANGED answer
         ELSE Duplicate(d)
    /\ UNCHANGED <<row, keyed, waiting, effects, lost>>

\* Fault: no unique constraint on the message id.
InsertUnlessSameEvent(d) ==
    /\ At(d, "insert")
    /\ \A e \in Existing(d) : EventOf[e] # EventOf[d]
    /\ row' = [row EXCEPT ![d] = Reserved]
    /\ Goto(d, IF d \in Choices THEN "look" ELSE "create")
    /\ UNCHANGED <<keyed, waiting, effects, answer, lost>>

\* The unique constraints hold: the delivery is new.
InsertReservation(d) ==
    /\ At(d, "insert")
    /\ Existing(d) = {}
    /\ row' = [row EXCEPT ![d] = Reserved]
    /\ Goto(d, IF d \in Choices THEN "look" ELSE "create")
    /\ UNCHANGED <<keyed, waiting, effects, answer, lost>>

\* IntegrityError: the whole search is tried twice, then only the reading.
InsertConflicts(d) ==
    /\ At(d, "insert")
    /\ Existing(d) # {}
    /\ call' = [call EXCEPT ![d].tries = 1,
                    ![d].pc = IF call[d].tries = 0 THEN "find" ELSE "load"]
    /\ UNCHANGED <<row, keyed, waiting, effects, answer, lost>>

\* The row that was met may have been released in between: RuntimeError.
LoadExisting(d) ==
    /\ At(d, "load")
    /\ IF Existing(d) = {} THEN Answer(d, "error") ELSE Duplicate(d)
    /\ UNCHANGED <<row, keyed, waiting, effects, lost>>

\* wait_for_run_id: the row is read by its id, so one released and reserved
\* again is not seen.
RunIdSeen(d) ==
    /\ At(d, "wait")
    /\ row[call[d].row].run # "none"
    /\ Answer(d, row[call[d].row].run)
    /\ UNCHANGED <<row, keyed, waiting, effects, lost>>

\* Fault: the wait has no deadline.
WaitWithoutDeadline(d) ==
    /\ At(d, "wait")
    /\ FALSE
    /\ UNCHANGED vars

WaitTimesOut(d) ==
    /\ At(d, "wait")
    /\ row[call[d].row].run = "none"
    /\ Answer(d, "pending")
    /\ UNCHANGED <<row, keyed, waiting, effects, lost>>

(***************************************************************************)
(* submit, by the holder of the reservation.  Each transaction has three   *)
(* outcomes: it commits, it fails, or it commits and is reported failed.   *)
(***************************************************************************)
\* Committed, and the caller goes on to pc, or is told of a failure.
CommittedThen(d, pc, r) ==
    \/ call' = [call EXCEPT ![d].pc = pc, ![d].run = r]
    \/ ReleaseAfter(d, "error")

\* A number chooses for the latest run that waits for one; with none waiting,
\* or if it is not the number of an option, it is a task like any other.
LatestWaitingChoice(d) ==
    /\ At(d, "look")
    /\ \/ Goto(d, "create")
       \/ \E r \in waiting :
            call' = [call EXCEPT ![d].pc = "choose", ![d].run = r]
    /\ UNCHANGED <<row, keyed, waiting, effects, answer, lost>>

\* Fault: the id returned is not that of the chosen run.
ChooseModeReturnsOther(d) ==
    /\ At(d, "choose")
    /\ call[d].run \in waiting
    /\ waiting' = waiting \ {call[d].run}
    /\ effects' = effects \cup {<<d, call[d].run>>}
    /\ CommittedThen(d, "mark", d)
    /\ UNCHANGED <<row, keyed, answer, lost>>

\* choose_mode_and_enqueue, or RunConflict if the run waits no more.
ChooseMode(d) ==
    /\ At(d, "choose")
    /\ LET r == call[d].run IN
         IF r \in waiting
           THEN /\ waiting' = waiting \ {r}
                /\ effects' = effects \cup {<<d, r>>}
                /\ CommittedThen(d, "mark", r)
           ELSE ReleaseAfter(d, "error") /\ UNCHANGED <<waiting, effects>>
    /\ UNCHANGED <<row, keyed, answer, lost>>

\* Fault: create_run without the idempotency key.
CreateRunUnkeyed(d) ==
    /\ At(d, "create")
    /\ keyed' = [keyed EXCEPT ![EventOf[d]] = d]
    /\ waiting' \in {waiting, waiting \cup {d}}
    /\ effects' = effects \cup {<<d, d>>}
    /\ CommittedThen(d, "mark", d)
    /\ UNCHANGED <<row, answer, lost>>

\* create_run returns the run that has the key already.  What a new one is
\* (queued, or waiting for a choice) is the router's decision.
CreateRun(d) ==
    /\ At(d, "create")
    /\ LET old == keyed[EventOf[d]]
           r == IF old = "none" THEN d ELSE old IN
         /\ keyed' = [keyed EXCEPT ![EventOf[d]] = r]
         /\ waiting' \in {waiting, IF r = d THEN waiting \cup {d} ELSE waiting}
         /\ effects' = effects \cup {<<d, r>>}
         /\ CommittedThen(d, "mark", r)
    /\ UNCHANGED <<row, answer, lost>>

\* Fault: the except clause that releases is gone.
SubmitFailsUnreleased(d) ==
    /\ call[d].pc \in Submitting
    /\ Answer(d, "error")
    /\ UNCHANGED <<row, keyed, waiting, effects, lost>>

SubmitFails(d) ==
    /\ call[d].pc \in Submitting
    /\ ReleaseAfter(d, "error")
    /\ UNCHANGED <<row, keyed, waiting, effects, answer, lost>>

\* ChannelDirectiveError: the text is empty or asks for unknown resources.
RefuseDirective(d) ==
    /\ At(d, "create")
    /\ d \notin Choices
    /\ ReleaseAfter(d, "refused")
    /\ UNCHANGED <<row, keyed, waiting, effects, answer, lost>>

\* Fault: the run id is written, the status is not.
MarkRunOnly(d) ==
    /\ At(d, "mark")
    /\ row' = [row EXCEPT ![d].run = call[d].run]
    /\ Answer(d, call[d].run)
    /\ UNCHANGED <<keyed, waiting, effects, lost>>

\* A reservation that is gone is a KeyError, as in MarkFails.
MarkSubmitted(d) ==
    /\ At(d, "mark")
    /\ row[d] # Absent
    /\ row' = [row EXCEPT ![d] = Submitted(call[d].run)]
    /\ \/ Answer(d, call[d].run)
       \/ ReleaseAfter(d, "error") /\ UNCHANGED answer
    /\ UNCHANGED <<keyed, waiting, effects, lost>>

MarkFails(d) ==
    /\ At(d, "mark")
    /\ ReleaseAfter(d, "error")
    /\ UNCHANGED <<row, keyed, waiting, effects, answer, lost>>

\* Fault: the delete is not narrow.
ReleaseAnyRow(d) ==
    /\ At(d, "release")
    /\ row' = [row EXCEPT ![d] = Absent]
    /\ Answer(d, call[d].out)
    /\ UNCHANGED <<keyed, waiting, effects, lost>>

\* Only a row still reserved and without a run is deleted.
ReleaseReservation(d) ==
    /\ At(d, "release")
    /\ row' = [row EXCEPT ![d] = IF @ = Reserved THEN Absent ELSE @]
    /\ Answer(d, call[d].out)
    /\ UNCHANGED <<keyed, waiting, effects, lost>>

(***************************************************************************)
(* Faults and the rest of the world.                                       *)
(***************************************************************************)
\* suppress(Exception): the release fails and nobody is told.
ReleaseFails(d) ==
    /\ At(d, "release")
    /\ Answer(d, call[d].out)
    /\ lost' = lost \cup {d}
    /\ UNCHANGED <<row, keyed, waiting, effects>>

\* A transaction of reserve, or a read of the wait, raises; the insert may
\* have committed.
ReserveRaises(d) ==
    /\ call[d].pc \in Searching \cup {"wait"}
    /\ Answer(d, "error")
    /\ \/ UNCHANGED <<row, lost>>
       \/ /\ At(d, "insert") /\ Existing(d) = {}
          /\ row' = [row EXCEPT ![d] = Reserved]
          /\ lost' = lost \cup {d}
    /\ UNCHANGED <<keyed, waiting, effects>>

\* The process dies, or the request is cancelled: CancelledError is not an
\* Exception, so nothing is released.
Crash(d) ==
    /\ call[d].pc \notin {"new", "done", "dead"}
    /\ Goto(d, "dead")
    /\ lost' = lost \cup {d}
    /\ UNCHANGED <<row, keyed, waiting, effects, answer>>

\* The console chooses for a waiting run, or cancels it.
DecidedElsewhere(r) ==
    /\ r \in waiting
    /\ waiting' = waiting \ {r}
    /\ UNCHANGED <<row, keyed, effects, call, answer, lost>>

HandleStep(d) ==
    \/ FindExisting(d) \/ InsertReservation(d) \/ InsertConflicts(d)
    \/ LoadExisting(d) \/ RunIdSeen(d) \/ WaitTimesOut(d)
    \/ LatestWaitingChoice(d) \/ ChooseMode(d) \/ CreateRun(d)
    \/ SubmitFails(d) \/ RefuseDirective(d)
    \/ MarkSubmitted(d) \/ MarkFails(d) \/ ReleaseReservation(d)

Next ==
    \/ \E d \in Deliveries :
         Receive(d) \/ HandleStep(d)
           \/ ReleaseFails(d) \/ ReserveRaises(d) \/ Crash(d)
    \/ \E r \in RunIds : DecidedElsewhere(r)

Spec == Init /\ [][Next]_vars

\* A coroutine that was started goes on; every wait has a deadline.
FairSpec == Spec /\ \A d \in Deliveries : WF_vars(HandleStep(d))

(***************************************************************************)
(* Safety.                                                                 *)
(***************************************************************************)
Holding(d) == call[d].pc \in Submitting \cup {"mark"}

\* Who may submit: a handler between reserve and mark has its own row, still
\* reserved, and no other handler of a linked delivery is there with it.
OneSubmitter ==
    \A d \in Deliveries : Holding(d) =>
      /\ row[d] = Reserved
      /\ \A e \in Deliveries : Holding(e) /\ Linked(d, e) => d = e

\* A handler that had its effect and then gave its row back.
Faltered(d) == row[d] = Absent

\* One message becomes one task, however often and concurrently it comes.
\* Two linked deliveries have had the effect of two runs only if a first
\* handler failed after its effect and released, and the idempotency key
\* could not tell: the second came under another event id, or the effect was
\* a choice, which has no key.
OneTaskPerMessage ==
    \A x, y \in effects :
      Linked(x[1], y[1]) =>
        \/ x[2] = y[2]
        \/ /\ Faltered(x[1]) \/ Faltered(y[1])
           /\ \/ EventOf[x[1]] # EventOf[y[1]]
              \/ {x[1], y[1]} \cap Choices # {}

\* The same without the exception.
OneTaskAlways ==
    \A x, y \in effects : Linked(x[1], y[1]) => x[2] = y[2]

\* Whoever is told a run id is told the run of a linked delivery.
AnswerIsTheTask ==
    \A d \in Deliveries :
      answer[d] \in RunIds =>
        \E e \in Deliveries : Linked(d, e) /\ <<e, answer[d]>> \in effects

\* release_reservation's comment: once a run id is attached, retries observe
\* the existing row.
AttachedRowStays ==
    [][\A d \in Deliveries : row[d].run # "none" => row'[d] = row[d]]_vars

(***************************************************************************)
(* Refinement: with ids that agree and no choices, OnceOnly.               *)
(***************************************************************************)
\* The run of a message is the one its event id is the key of.
TaskOf(m) ==
    IF \E d \in Deliveries : MessageOf[d] = m
      THEN keyed[EventOf[CHOOSE d \in Deliveries : MessageOf[d] = m]]
      ELSE "none"

Once == INSTANCE OnceOnly WITH task <- [m \in Messages |-> TaskOf(m)]

ImplementsOnceOnly == Once!Spec

(***************************************************************************)
(* Liveness.                                                               *)
(***************************************************************************)
\* Every delivery is answered, also one that waits for a handler that died.
EveryCallEnds ==
    \A d \in Deliveries : At(d, "find") ~> At(d, "done") \/ At(d, "dead")

\* A reservation does not outlive its handler: it is submitted or released,
\* unless a fault took the handler or its release.
ReservationSettles ==
    \A d \in Deliveries :
      row[d] = Reserved ~> row[d] # Reserved \/ d \in lost
=============================================================================
