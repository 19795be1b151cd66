------------------------------ MODULE OnceOnly ------------------------------
(***************************************************************************)
(* What the ingress promises of a channel that may deliver a message more  *)
(* than once (docs/superpowers/plans/2026-08-05-agent-hub-phase-4-         *)
(* interfaces.md, Task 1): each message becomes at most one task, whatever *)
(* the number of its deliveries, and every delivery that is told a run id  *)
(* is told that task's.                                                    *)
(***************************************************************************)
CONSTANTS
    Deliveries,    \* deliveries by the channel
    Messages,      \* the messages they carry
    MessageOf,     \* [Deliveries -> Messages]
    RunIds         \* names of runs

VARIABLES
    task,          \* per message, its run, or "none"
    answer         \* per delivery, what the channel was told

\* No run to name: still pending, refused, or an error to be retried.
Excuses == {"pending", "refused", "error"}

Init ==
    /\ task = [m \in Messages |-> "none"]
    /\ answer = [d \in Deliveries |-> "none"]

\* A message becomes a task, once.
Submit(m) ==
    /\ task[m] = "none"
    /\ \E r \in RunIds : task' = [task EXCEPT ![m] = r]
    /\ UNCHANGED answer

\* A delivery is answered, once.
Reply(d) ==
    /\ answer[d] = "none"
    /\ \E a \in Excuses \cup ({task[MessageOf[d]]} \ {"none"}) :
         answer' = [answer EXCEPT ![d] = a]
    /\ UNCHANGED task

Next ==
    \/ \E m \in Messages : Submit(m)
    \/ \E d \in Deliveries : Reply(d)

Spec == Init /\ [][Next]_<<task, answer>>
=============================================================================
