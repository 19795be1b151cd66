-------------------------- MODULE MCDispatchRuntime --------------------------
(***************************************************************************)
(* Plans for DispatchRuntime.                                              *)
(***************************************************************************)
EXTENDS DispatchRuntime, TLC

\* A draft that is reviewed, and a check of it that may be skipped.
ReviewPlan == [after |-> "draft" :> {} @@ "check" :> {"draft"}, parallel |-> 1, budget |-> 3]

\* Two steps at a time, one of them with a tool, on a budget that the second
\* answer exhausts.
FanPlan ==
    [after |-> "left" :> {} @@ "right" :> {}, parallel |-> 2, budget |-> 1]

\* A step with a tool that writes, and one with a tool that reads.
WritePlan == [after |-> "left" :> {}, parallel |-> 1, budget |-> 2]
ReadPlan == [after |-> "read" :> {}, parallel |-> 1, budget |-> 2]

AllPlans == {ReviewPlan, FanPlan, WritePlan, ReadPlan}
OnePlan == {WritePlan}
=============================================================================
