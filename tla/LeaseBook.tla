------------------------------ MODULE LeaseBook ------------------------------
(***************************************************************************)
(* What the model capacity pool promises of the leases of its quota scopes *)
(* (docs/superpowers/plans/2026-08-05-agent-hub-phase-2-orchestration.md,  *)
(* Task 2): a lease is granted only while there is room for it within what *)
(* the scope's policies and health allow at that moment, and one that has  *)
(* ended, released or expired, never comes back, whatever command for it   *)
(* is still on its way.  What is allowed may fall below what is held: then *)
(* leases only end, until there is room again.                             *)
(***************************************************************************)
EXTENDS FiniteSets, Naturals

CONSTANTS
    Leases,        \* lease ids
    Scopes,        \* quota scopes
    ScopeOfLease,  \* [Leases -> Scopes]
    Limit          \* the largest base limit of a scope's policies

VARIABLES
    held,          \* leases that count against their scope
    spent,         \* leases that have ended
    allowed        \* per scope, the effective limit; 0 without a policy

vars == <<held, spent, allowed>>

InScope(s, L) == {i \in L : ScopeOfLease[i] = s}

Init ==
    /\ held = {}
    /\ spent = {}
    /\ allowed \in [Scopes -> 0..Limit]

Grant(i) ==
    /\ i \notin held \cup spent
    /\ Cardinality(InScope(ScopeOfLease[i], held)) < allowed[ScopeOfLease[i]]
    /\ held' = held \cup {i}
    /\ UNCHANGED <<spent, allowed>>

\* Several leases may expire at once.
End(L) ==
    /\ held' = held \ L
    /\ spent' = spent \cup L
    /\ UNCHANGED allowed

\* A policy, an outcome or a cooldown changes what is allowed, and takes no
\* lease away.
Adjust(s) ==
    /\ \E n \in 0..Limit : allowed' = [allowed EXCEPT ![s] = n]
    /\ UNCHANGED <<held, spent>>

Next ==
    \/ \E i \in Leases : Grant(i)
    \/ \E L \in SUBSET held : End(L)
    \/ \E s \in Scopes : Adjust(s)

Spec == Init /\ [][Next]_vars

WithinLimit == \A s \in Scopes : Cardinality(InScope(s, held)) <= Limit
=============================================================================
