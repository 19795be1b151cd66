------------------------ MODULE CapacityRegistration ------------------------
(***************************************************************************)
(* How processes agree on what a credential and a quota scope are, before  *)
(* they take leases: CapacityPool._ensure_registration and the scripts     *)
(* claim_fingerprint, register_scope_policy and their rollbacks.           *)
(*                                                                         *)
(* An owner is a process's pool.  It has several views (one per fallback   *)
(* chain, CapacityPool.scoped), which register under the owner's name, one *)
(* at a time, key by key: a claim for each credential, that says in which  *)
(* scope it is used, then a policy for each scope.  A registration that    *)
(* fails is rolled back key by key.  Every record expires.                 *)
(*                                                                         *)
(* Time counts down as in ModelGateway.  Each view is followed through one *)
(* call at a time, from its admission to the end of its lease: the fence   *)
(* between leases and claims is the same for each, and its refreshes are   *)
(* not the only ones.                                                      *)
(***************************************************************************)
EXTENDS Integers, FiniteSets

CONSTANTS
    Owners, Views, Claims, Policies,
    Setups,        \* configurations
    MaxLimit       \* largest base limit

Keys == Claims \cup Policies

\* A configuration gives the owner of each view, the keys it registers (claims,
\* and their policies; none for a chain that is not configured), what each owner
\* writes (the scope of a claim, the base limit of a policy), and the times:
\* metadata_ttl_seconds, the tenth of it a view takes off to be safe,
\* lease_seconds, and how long an acquisition that was let in may still poll.
\* The pool enforces three leases to a registration, and nothing of the margin.
ASSUME RegistrationAssumption ==
    /\ Claims \cap Policies = {}
    /\ "none" \notin Views \cup Claims
    /\ MaxLimit \in Nat
    /\ \A c \in Setups :
         /\ c.owner \in [Views -> Owners]
         /\ c.plan \in [Views -> SUBSET Keys]
         /\ \A o \in Owners, k \in Claims : c.want[o][k] \in Policies
         /\ \A o \in Owners, k \in Policies : c.want[o][k] \in 1..MaxLimit
         /\ \A v \in Views, k \in Claims :
              k \in c.plan[v] => c.want[c.owner[v]][k] \in c.plan[v]
         /\ c.lease \in Nat \ {0} /\ c.wait \in Nat \ {0} /\ c.margin \in Nat /\ c.ttl \in Nat
         /\ c.ttl >= 3 * c.lease /\ c.ttl > c.margin

VARIABLES
    setup,         \* the configuration
    left,          \* per key and owner, the time its record has left
    base,          \* per policy, the limit acquire_lease reads; 0 is none
    valid,         \* per view, how long it holds itself registered; 0 is not
                   \* initialized, or no longer valid
    reg,           \* per owner, the registration that holds its lock
    poll,          \* per view, how long an acquisition may still take a lease
    renew,         \* leases whose heartbeat has refreshed and not yet renewed
    lease,         \* per view and claim, the time left of a lease
    renewed,       \* history: leases that were renewed since they were taken
    rolled         \* history: records a rollback removed

vars == <<setup, left, base, valid, reg, poll, renew, lease, renewed, rolled>>

OwnerOf(v) == setup.owner[v]
Plan(v) == setup.plan[v]
Want(o, k) == setup.want[o][k]
MetadataTTL == setup.ttl
Margin == setup.margin
LeaseTTL == setup.lease
Wait == setup.wait

Idle == [pc |-> "idle", view |-> "none", rest |-> {}, made |-> {}, prior |-> FALSE,
         forced |-> "none", age |-> 0]

\* pc: registering the keys in rest, or rolling them back.  prior says that
\* the view was registered when it began, made are then the keys it created,
\* forced is the lease whose heartbeat asked for it.
Regs == [pc : {"idle", "register", "rollback"}, view : Views \cup {"none"},
         rest : SUBSET Keys, made : SUBSET Keys, prior : BOOLEAN,
         forced : Claims \cup {"none"}, age : 0..MetadataTTL - Margin]

TypeOK ==
    /\ setup \in Setups
    /\ left \in [Keys -> [Owners -> 0..MetadataTTL]]
    /\ base \in [Policies -> 0..MaxLimit]
    /\ valid \in [Views -> 0..MetadataTTL - Margin]
    /\ reg \in [Owners -> Regs]
    /\ poll \in [Views -> 0..Wait]
    /\ renew \subseteq Views \X Claims
    /\ lease \in [Views -> [Claims -> 0..LeaseTTL]]
    /\ renewed \subseteq Views \X Claims
    /\ rolled \subseteq Keys \X Owners

Init ==
    /\ setup \in Setups
    /\ left = [k \in Keys |-> [o \in Owners |-> 0]]
    /\ base = [k \in Policies |-> 0]
    /\ valid = [v \in Views |-> 0]
    /\ reg = [o \in Owners |-> Idle]
    /\ poll = [v \in Views |-> 0]
    /\ renew = {}
    /\ lease = [v \in Views |-> [k \in Claims |-> 0]]
    /\ renewed = {}
    /\ rolled = {}

(***************************************************************************)
(* The scripts.                                                            *)
(***************************************************************************)
Live(k) == {o \in Owners : left[k][o] > 0}

\* Fault: the most permissive policy wins.
Greatest(S) == CHOOSE n \in S : \A m \in S : n >= m

Least(S) == CHOOSE n \in S : \A m \in S : n <= m

\* The policy of scope k once its records are those of the owners in O.
Recompute(k, O) ==
    base' = [base EXCEPT ![k] = IF O = {} THEN 0 ELSE Least({Want(o, k) : o \in O})]

\* Fault: a claim of another scope is not refused.
AcceptsAnyScope(o, k) == TRUE

\* A claim is refused while another owner claims the credential for another
\* scope; a policy is the most restrictive of its owners'.
Accepts(o, k) ==
    k \in Claims => \A p \in Live(k) : Want(p, k) = Want(o, k)

Write(o, k) ==
    /\ Accepts(o, k)
    /\ left' = [left EXCEPT ![k][o] = MetadataTTL]
    /\ rolled' = rolled \ {<<k, o>>}
    /\ IF k \in Policies THEN Recompute(k, Live(k) \cup {o}) ELSE UNCHANGED base

\* The rollback of a policy does not purge the records that have expired.
Erase(o, k) ==
    /\ left' = [left EXCEPT ![k][o] = 0]
    /\ rolled' = IF left[k][o] > 0 THEN rolled \cup {<<k, o>>} ELSE rolled
    /\ IF k \in Policies
       THEN \E expired \in SUBSET (Owners \ Live(k)) :
              Recompute(k, IF Live(k) \ {o} = {} THEN {}
                           ELSE (Live(k) \cup expired) \ {o})
       ELSE UNCHANGED base

(***************************************************************************)
(* _ensure_registration, under the owner's registration lock.              *)
(***************************************************************************)
Busy(o) == reg[o].pc # "idle"
Refreshing(v) == Busy(OwnerOf(v)) /\ reg[OwnerOf(v)].view = v
Current(v) == valid[v] > 0

\* initialize registers a view that is not registered, or one whose metadata
\* is due for a refresh; a heartbeat's refresh is forced.
Begin(v) ==
    LET o == OwnerOf(v) IN
    /\ ~Busy(o)
    /\ Plan(v) # {}
    /\ \E forced \in {"none"} \cup {k \in Claims : lease[v][k] > 0} :
         reg' = [reg EXCEPT ![o] = [pc |-> "register", view |-> v, rest |-> Plan(v),
                                    made |-> {}, prior |-> Current(v),
                                    forced |-> forced, age |-> 0]]
    /\ UNCHANGED <<setup, left, base, valid, poll, renew, lease, renewed, rolled>>

\* Claims come before policies.
Turn(o, k) == k \in reg[o].rest /\ (k \in Policies => reg[o].rest \cap Claims = {})

Register(o, k) ==
    /\ reg[o].pc = "register"
    /\ Turn(o, k)
    /\ Write(o, k)
    /\ reg' = [reg EXCEPT ![o].rest = @ \ {k},
                          ![o].made = IF left[k][o] = 0 /\ reg[o].prior
                                      THEN @ \cup {k} ELSE @]
    /\ UNCHANGED <<setup, valid, poll, renew, lease, renewed>>

\* What is undone: all that was planned, unless the view was registered, in
\* which case what is new.
Undoing(o) == IF reg[o].prior THEN reg[o].made ELSE Plan(reg[o].view)

StartRollback(o, keys) ==
    reg' = [reg EXCEPT ![o] = [Idle EXCEPT !.pc = "rollback", !.view = reg[o].view,
                                           !.rest = keys]]

\* The claim is refused, or a command fails before it is executed, or the
\* caller is cancelled after it.
RegisterFails(o) ==
    /\ reg[o].pc = "register"
    /\ StartRollback(o, Undoing(o))
    /\ UNCHANGED <<setup, left, base, valid, poll, renew, lease, renewed, rolled>>

\* A command is executed and its reply lost: the key is not known to be new.
RegisterLost(o, k) ==
    /\ reg[o].pc = "register"
    /\ Turn(o, k)
    /\ Write(o, k)
    /\ StartRollback(o, Undoing(o))
    /\ UNCHANGED <<setup, valid, poll, renew, lease, renewed>>

\* Fault: the registration is believed in for as long as its records last.
RegisteredWithoutMargin(o) ==
    LET v == reg[o].view IN
    /\ reg[o].pc = "register"
    /\ reg[o].rest = {}
    /\ valid' = [valid EXCEPT ![v] = MetadataTTL - reg[o].age]
    /\ renew' = renew \cup ({v} \X (Claims \cap {reg[o].forced}))
    /\ reg' = [reg EXCEPT ![o] = Idle]
    /\ UNCHANGED <<setup, left, base, poll, lease, renewed, rolled>>

\* Fault: the deadline is counted from the end of the registration.
RegisteredFromEnd(o) ==
    LET v == reg[o].view IN
    /\ reg[o].pc = "register"
    /\ reg[o].rest = {}
    /\ valid' = [valid EXCEPT ![v] = MetadataTTL - Margin]
    /\ renew' = renew \cup ({v} \X (Claims \cap {reg[o].forced}))
    /\ reg' = [reg EXCEPT ![o] = Idle]
    /\ UNCHANGED <<setup, left, base, poll, lease, renewed, rolled>>

Registered(o) ==
    LET v == reg[o].view IN
    /\ reg[o].pc = "register"
    /\ reg[o].rest = {}
    /\ valid' = [valid EXCEPT ![v] = MetadataTTL - Margin - reg[o].age]
    /\ renew' = renew \cup ({v} \X (Claims \cap {reg[o].forced}))
    /\ reg' = [reg EXCEPT ![o] = Idle]
    /\ UNCHANGED <<setup, left, base, poll, lease, renewed, rolled>>

\* One key of the rollback; its errors are ignored.
Rollback(o, k) ==
    /\ reg[o].pc = "rollback"
    /\ Turn(o, k)
    /\ Erase(o, k) \/ UNCHANGED <<setup, left, rolled, base>>
    /\ reg' = [reg EXCEPT ![o].rest = @ \ {k}]
    /\ UNCHANGED <<setup, valid, poll, renew, lease, renewed>>

\* The lock is released and the error raised.  A heartbeat that gets it ends
\* its call, whose lease is released (or left to expire).
Abandon(o) ==
    LET v == reg[o].view IN
    /\ reg[o].pc = "rollback"
    /\ reg[o].rest = {}
    /\ valid' = [valid EXCEPT ![v] = 0]
    /\ reg' = [reg EXCEPT ![o] = Idle]
    /\ UNCHANGED <<setup, left, base, poll, renew, lease, renewed, rolled>>

\* The fingerprints cannot be resolved: nothing was written, nothing undone.
ResolveFails(o) ==
    LET v == reg[o].view IN
    /\ reg[o].pc = "register"
    /\ reg[o].rest = Plan(v)
    /\ valid' = [valid EXCEPT ![v] = 0]
    /\ reg' = [reg EXCEPT ![o] = Idle]
    /\ UNCHANGED <<setup, left, base, poll, renew, lease, renewed, rolled>>

(***************************************************************************)
(* Leases.                                                                 *)
(***************************************************************************)
\* _require_initialized lets an acquisition in.  It is not asked again while
\* the acquisition polls.
Admits(v) == Current(v) /\ ~Refreshing(v)

LetIn(v) ==
    /\ Admits(v)
    /\ poll[v] = 0
    /\ \A k \in Claims : lease[v][k] = 0
    /\ poll' = [poll EXCEPT ![v] = Wait]
    /\ UNCHANGED <<setup, left, base, valid, reg, renew, lease, renewed, rolled>>

\* It refuses while the view is refreshed or no longer valid, and forgets that
\* the view was initialized (which one that is not valid has forgotten already).
TurnAway(v) ==
    /\ Current(v)
    /\ ~Admits(v)
    /\ valid' = [valid EXCEPT ![v] = 0]
    /\ UNCHANGED <<setup, left, base, reg, poll, renew, lease, renewed, rolled>>

\* acquire_lease.lua needs a policy, not a claim.
TakeLease(v, k) ==
    /\ poll[v] > 0
    /\ k \in Plan(v) \cap Claims
    /\ lease[v][k] = 0
    /\ base[Want(OwnerOf(v), k)] > 0
    /\ poll' = [poll EXCEPT ![v] = 0]
    /\ lease' = [lease EXCEPT ![v][k] = LeaseTTL]
    /\ UNCHANGED <<setup, left, base, valid, reg, renew, renewed, rolled>>

\* Fault: a lease is renewed without a refresh of its claim.
RenewUnrefreshed(v, k) ==
    /\ lease[v][k] > 0
    /\ lease' = [lease EXCEPT ![v][k] = LeaseTTL]
    /\ renewed' = renewed \cup {<<v, k>>}
    /\ UNCHANGED <<setup, left, base, valid, reg, poll, renew, rolled>>

\* renew_lease.lua, after the refresh.  A lease that is gone stays so: Tick and
\* DropLease forget its heartbeat.
RenewLease(v, k) ==
    /\ <<v, k>> \in renew
    /\ renew' = renew \ {<<v, k>>}
    /\ lease' = [lease EXCEPT ![v][k] = LeaseTTL]
    /\ renewed' = renewed \cup {<<v, k>>}
    /\ UNCHANGED <<setup, left, base, valid, reg, poll, rolled>>

Orphan(g, gone) ==
    [g EXCEPT !.forced = IF <<g.view, @>> \in gone THEN "none" ELSE @]

DropLease(v, k) ==
    /\ lease[v][k] > 0
    /\ lease' = [lease EXCEPT ![v][k] = 0]
    /\ renew' = renew \ {<<v, k>>}
    /\ renewed' = renewed \ {<<v, k>>}
    /\ reg' = [o \in Owners |-> Orphan(reg[o], {<<v, k>>})]
    /\ UNCHANGED <<setup, left, base, valid, poll, rolled>>

(***************************************************************************)
(* Time, and restarts.                                                     *)
(***************************************************************************)
Countdown(n) == IF n > 0 THEN n - 1 ELSE 0

\* The keys of a scope expire with the last of its owners' records; until a
\* registration recomputes it, the policy is as the departed left it.
Aged(g) ==
    [g EXCEPT !.age = IF g.pc = "register" /\ @ < MetadataTTL - Margin THEN @ + 1 ELSE @]

Tick ==
    LET gone == {p \in Views \X Claims : lease[p[1]][p[2]] = 1} IN
    /\ left' = [k \in Keys |-> [o \in Owners |-> Countdown(left[k][o])]]
    /\ base' = [k \in Policies |-> IF \E o \in Owners : left[k][o] > 1 THEN base[k] ELSE 0]
    /\ valid' = [v \in Views |-> Countdown(valid[v])]
    /\ reg' = [o \in Owners |-> Orphan(Aged(reg[o]), gone)]
    /\ poll' = [v \in Views |-> Countdown(poll[v])]
    /\ lease' = [v \in Views |-> [k \in Claims |-> Countdown(lease[v][k])]]
    /\ renew' = renew \ gone
    /\ renewed' = renewed \ gone
    /\ UNCHANGED <<setup, rolled>>

\* A process dies: its registrations and leases are left to expire, and it
\* comes back under a new owner id, for which an unused owner stands.
Next ==
    \/ \E v \in Views : Begin(v) \/ LetIn(v) \/ TurnAway(v)
    \/ \E v \in Views, k \in Claims : TakeLease(v, k) \/ RenewLease(v, k) \/ DropLease(v, k)
    \/ \E o \in Owners, k \in Keys : Register(o, k) \/ RegisterLost(o, k) \/ Rollback(o, k)
    \/ \E o \in Owners :
         RegisterFails(o) \/ Registered(o) \/ Abandon(o) \/ ResolveFails(o)
    \/ Tick

Spec == Init /\ [][Next]_vars

(***************************************************************************)
(* Properties.                                                             *)
(***************************************************************************)
\* The record is there, or a rollback took it: the first registration of a
\* view, when it fails, erases all its keys, and so those of the views that
\* share its owner and still believe in them.
Stands(o, k) == left[k][o] > 0 \/ <<k, o>> \in rolled

\* A view lets acquisitions in only while all its claims and policies stand,
\* however long its last registration took and whatever failed since.
AdmitMeansRegistered ==
    \A v \in Views : Admits(v) => \A k \in Plan(v) : Stands(OwnerOf(v), k)

\* What fences a lease from the end of its claim: the refresh its heartbeat has
\* forced before it was renewed, which lasts for three leases; until then only
\* the margin of the registration the acquisition was let in under, which is
\* not asked again while it polls, as long as it covers the wait and the age of
\* the lease.
Fenced(v, k) ==
    <<v, k>> \in renewed \/ Wait + (LeaseTTL - lease[v][k]) <= Margin

\* A lease that is fenced never outlives its claim by the passing of time,
\* whatever wait, lease and margin the configuration has: a renewed one as long
\* as it lives, one that is not for what the margin leaves of it.
ClaimOutlivesLease ==
    \A v \in Views, k \in Claims :
        lease[v][k] > 0 /\ Fenced(v, k) => Stands(OwnerOf(v), k)

\* A lease may rely on its claim.
Relies(v, k) == lease[v][k] > 0 /\ Fenced(v, k) /\ <<k, OwnerOf(v)>> \notin rolled

\* One credential is never used under two quota scopes at a time, unless a
\* rollback took a claim away from its users, or time did from a lease that
\* nothing fences.
OneScopePerCredential ==
    \A v, w \in Views, k \in Claims :
        Relies(v, k) /\ Relies(w, k) => Want(OwnerOf(v), k) = Want(OwnerOf(w), k)

\* No registration, rollback or expiry of another process relaxes a scope's
\* limit beyond what a process that still stands registered.
PolicyCoversOwners ==
    \A k \in Policies : \A o \in Live(k) : base[k] \in 1..Want(o, k)
=============================================================================
