----------------------- MODULE MCCapacityRegistration -----------------------
(***************************************************************************)
(* Two processes and one credential.                                       *)
(***************************************************************************)
EXTENDS CapacityRegistration, TLC

CONSTANTS a, b, v1, v2, w, f, s1, s2

TwoOwners == v1 :> a @@ v2 :> a @@ w :> b

\* The second process has the credential in another scope; limits differ.
TwoWants == a :> (f :> s1 @@ s1 :> 2 @@ s2 :> 2) @@ b :> (f :> s2 @@ s1 :> 1 @@ s2 :> 2)

\* Both have it in one scope.
OneScope == a :> (f :> s1 @@ s1 :> 2 @@ s2 :> 2) @@ b :> (f :> s1 @@ s1 :> 1 @@ s2 :> 2)

\* The first process has two fallback chains that use the credential; or one,
\* and a scope in common with the second, which uses another credential there;
\* or the second restricts the scope of the first.
Short == [lease |-> 1, wait |-> 1, margin |-> 2, ttl |-> 3]
Chains == Short @@ [owner |-> TwoOwners, want |-> TwoWants,
           plan |-> v1 :> {f, s1} @@ v2 :> {f, s1} @@ w :> {f, s2}]
Scopes == Short @@ [owner |-> TwoOwners, want |-> TwoWants,
           plan |-> v1 :> {f, s1} @@ v2 :> {} @@ w :> {f, s1, s2}]
Limits == Short @@ [owner |-> TwoOwners, want |-> OneScope,
           plan |-> v1 :> {f, s1} @@ v2 :> {} @@ w :> {f, s1}]

\* Acquisitions that wait longer than the margin covers.
Waits == [Scopes EXCEPT !.wait = 2, !.margin = 1]

\* One chain, with a lease long enough to be renewed, which the margin covers
\* together with a wait; or not to its end; or not at all.
Renewals == [lease |-> 2, wait |-> 1, margin |-> 3, ttl |-> 6, owner |-> TwoOwners,
             want |-> OneScope, plan |-> v1 :> {f, s1} @@ v2 :> {} @@ w :> {}]
Outlived == [Renewals EXCEPT !.margin = 1]
Unfenced == [Outlived EXCEPT !.wait = 2]

AllSetups == {Chains, Scopes, Limits, Waits, Renewals, Outlived, Unfenced}

\* The two chains of the first process are alike.
Symmetry == Permutations({v1, v2})
=============================================================================
