-------------------------- MODULE RegistrationProofs --------------------------
(***************************************************************************)
(* For any processes, views, credentials, scopes and times: what a lease   *)
(* and an admission may rely on, and that neither registrations nor        *)
(* rollbacks relax what another process registered.                        *)
(***************************************************************************)
EXTENDS CapacityRegistration, WellFoundedInduction, TLAPS

\* The owner's record of a key lasts for at least n, or a rollback took it.
Covers(o, k, n) == left[k][o] >= n \/ <<k, o>> \in rolled

\* What a view believes in lasts longer than it believes, by its margin.
ViewsCovered ==
    \A v \in Views : valid[v] > 0 =>
        \A k \in Plan(v) : Covers(OwnerOf(v), k, valid[v] + Margin)

\* What a registration has written lasts for its life, less its age.
WrittenBy(o) ==
    reg[o].pc = "register" /\ reg[o].age < MetadataTTL - Margin =>
        \A k \in Plan(reg[o].view) \ reg[o].rest : Covers(o, k, MetadataTTL - reg[o].age)

WrittenCovered == \A o \in Owners : WrittenBy(o)

\* An acquisition that polls was let in when its view believed for at least one
\* moment more: its claims last for the margin, less what it has waited.
PollBound(v) == 1 + Margin - Wait + poll[v]

PollsCovered ==
    \A v \in Views : poll[v] > 0 =>
        \A k \in Plan(v) : Covers(OwnerOf(v), k, PollBound(v))

\* The claim of a lease that was renewed lasts as long as the lease, any other
\* for what the wait and the age of the lease leave of the margin.
LeaseBound(v, k) ==
    IF <<v, k>> \in renewed THEN lease[v][k] ELSE 1 + Margin - Wait - LeaseTTL + lease[v][k]

LeasesCovered ==
    \A v \in Views, k \in Claims : lease[v][k] > 0 =>
        k \in Plan(v) /\ Covers(OwnerOf(v), k, LeaseBound(v, k))

\* What was renewed is alive.
RenewedLive == \A v \in Views, k \in Claims : <<v, k>> \in renewed => lease[v][k] > 0

\* A heartbeat may renew when its lease is about to end.
RenewalsCovered ==
    \A v \in Views, k \in Claims : <<v, k>> \in renew =>
        lease[v][k] > 0 /\ Covers(OwnerOf(v), k, LeaseTTL + lease[v][k])

\* The claim a heartbeat has refreshed covers its renewal, and the one that may
\* still be on its way from an earlier refresh.
Renewing(v, k) == IF <<v, k>> \in renew THEN LeaseTTL ELSE 0

ForcedBy(o) ==
    LET v == reg[o].view k == reg[o].forced IN
    k # "none" =>
      /\ reg[o].pc = "register" /\ k \in Claims /\ lease[v][k] > 0
      /\ k \notin reg[o].rest => Covers(o, k, LeaseTTL + lease[v][k] + Renewing(v, k))

ForcedCovered == \A o \in Owners : ForcedBy(o)

\* A registration is of one of the owner's views and of its keys.
RegistrationsOwned ==
    \A o \in Owners : reg[o].pc # "idle" =>
        /\ reg[o].view \in Views
        /\ OwnerOf(reg[o].view) = o
        /\ reg[o].pc = "register" => reg[o].rest \subseteq Plan(reg[o].view)

\* The claims of a credential that stand agree on its scope.
ClaimsAgree ==
    \A k \in Claims : \A p, q \in Live(k) : Want(p, k) = Want(q, k)

TypedInv == TypeOK /\ RegistrationsOwned

CoverInv ==
    /\ TypedInv
    /\ ViewsCovered
    /\ WrittenCovered
    /\ PollsCovered
    /\ LeasesCovered
    /\ RenewalsCovered
    /\ ForcedCovered

PolicyInv == TypedInv /\ PolicyCoversOwners

ClaimInv == TypedInv /\ ClaimsAgree

(***************************************************************************)
(* Types.                                                                  *)
(***************************************************************************)
LEMMA SetupFacts ==
    ASSUME TypeOK
    PROVE /\ setup \in Setups
          /\ \A v \in Views : OwnerOf(v) \in Owners /\ Plan(v) \subseteq Keys
          /\ \A o \in Owners : \A k \in Claims : Want(o, k) \in Policies
          /\ \A o \in Owners : \A k \in Policies : Want(o, k) \in 1..MaxLimit
          /\ LeaseTTL \in Nat \ {0} /\ Wait \in Nat \ {0} /\ Margin \in Nat
          /\ MetadataTTL \in Nat /\ MetadataTTL >= 3 * LeaseTTL
          /\ MetadataTTL > Margin
<1>1. setup \in Setups
  BY DEF TypeOK
<1>2. setup.owner \in [Views -> Owners] /\ setup.plan \in [Views -> SUBSET Keys]
  BY <1>1, RegistrationAssumption
<1>3. /\ \A o \in Owners, k \in Claims : setup.want[o][k] \in Policies
      /\ \A o \in Owners, k \in Policies : setup.want[o][k] \in 1..MaxLimit
  BY <1>1, RegistrationAssumption
<1>4. /\ setup.lease \in Nat \ {0} /\ setup.wait \in Nat \ {0} /\ setup.margin \in Nat
      /\ setup.ttl \in Nat /\ setup.ttl >= 3 * setup.lease
      /\ setup.ttl > setup.margin
  BY <1>1, RegistrationAssumption
<1>5. QED
  BY <1>1, <1>2, <1>3, <1>4 DEF OwnerOf, Plan, Want, LeaseTTL, Wait, Margin, MetadataTTL

LEMMA LeastExists ==
    ASSUME NEW S \in SUBSET Nat, S # {}
    PROVE Least(S) \in S /\ \A m \in S : Least(S) <= m
<1> DEFINE R == {ss \in Nat \X Nat : ss[1] < ss[2]}
<1>1. IsWellFoundedOn(R, Nat)
  BY NatLessThanWellFounded DEF OpToRel
<1> HIDE DEF R
<1>2. PICK x \in S : \A y \in S : <<y, x>> \notin R
  BY <1>1, WFMin
<1>3. \A y \in S : ~(y < x)
  BY <1>2 DEF R
<1>4. \A y \in S : x <= y
  BY <1>3
<1>5. QED
  BY <1>4 DEF Least

\* The policy of a scope: the least of its owners', or none.
LEMMA RecomputeLimit ==
    ASSUME TypeOK, NEW k \in Policies, NEW O \in SUBSET Owners, Recompute(k, O)
    PROVE /\ base' \in [Policies -> 0..MaxLimit]
          /\ \A q \in Policies : q # k => base'[q] = base[q]
          /\ \A o \in O : base'[k] \in 1..Want(o, k)
<1> DEFINE S == {Want(o, k) : o \in O}
<1>0. MaxLimit \in Nat /\ \A o \in Owners : Want(o, k) \in 1..MaxLimit
  BY SetupFacts, RegistrationAssumption
<1>1. CASE O = {}
  <2>1. base' = [base EXCEPT ![k] = 0]
    BY <1>1 DEF Recompute
  <2>2. QED
    BY <1>0, <1>1, <2>1 DEF TypeOK
<1>2. CASE O # {}
  <2>1. S \in SUBSET Nat /\ S # {} /\ S \subseteq 1..MaxLimit
    BY <1>0, <1>2
  <2>2. base' = [base EXCEPT ![k] = Least(S)]
    BY <1>2 DEF Recompute
  <2> HIDE DEF S
  <2>3. Least(S) \in S /\ \A m \in S : Least(S) <= m
    BY <2>1, LeastExists
  <2>4. Least(S) \in 1..MaxLimit
    BY <2>1, <2>3
  <2>5. \A o \in O : Least(S) \in 1..Want(o, k)
    <3> TAKE o \in O
    <3>1. Want(o, k) \in S /\ Want(o, k) \in 1..MaxLimit
      BY <1>0 DEF S
    <3>2. QED
      BY <1>0, <2>3, <2>4, <3>1
  <2>6. QED
    BY <1>0, <2>2, <2>4, <2>5 DEF TypeOK
<1>3. QED
  BY <1>1, <1>2

LEMMA LiveOwners == \A k \in Keys : Live(k) \subseteq Owners
BY DEF Live

\* A record that is written: for its whole life, and no one else's.
LEMMA WriteRecords ==
    ASSUME TypeOK, NEW o \in Owners, NEW k \in Keys, Write(o, k)
    PROVE /\ left' \in [Keys -> [Owners -> 0..MetadataTTL]]
          /\ base' \in [Policies -> 0..MaxLimit]
          /\ rolled' = rolled \ {<<k, o>>}
          /\ left'[k][o] = MetadataTTL
          /\ \A j \in Keys, p \in Owners : j # k \/ p # o => left'[j][p] = left[j][p]
<1>1. left' = [left EXCEPT ![k][o] = MetadataTTL] /\ rolled' = rolled \ {<<k, o>>}
  BY DEF Write
<1>2. MetadataTTL \in 0..MetadataTTL
  BY SetupFacts
<1>3. base' \in [Policies -> 0..MaxLimit]
  <2>1. CASE k \in Policies
    BY <2>1, RecomputeLimit, LiveOwners DEF Write
  <2>2. CASE k \notin Policies
    BY <2>2 DEF Write, TypeOK
  <2>3. QED
    BY <2>1, <2>2
<1>4. QED
  BY <1>1, <1>2, <1>3 DEF TypeOK

\* One that is erased by a rollback.
LEMMA EraseRecords ==
    ASSUME TypeOK, NEW o \in Owners, NEW k \in Keys, Erase(o, k)
    PROVE /\ left' \in [Keys -> [Owners -> 0..MetadataTTL]]
          /\ base' \in [Policies -> 0..MaxLimit]
          /\ rolled' = IF left[k][o] > 0 THEN rolled \cup {<<k, o>>} ELSE rolled
          /\ left'[k][o] = 0
          /\ \A j \in Keys, p \in Owners : j # k \/ p # o => left'[j][p] = left[j][p]
<1>1. /\ left' = [left EXCEPT ![k][o] = 0]
      /\ rolled' = IF left[k][o] > 0 THEN rolled \cup {<<k, o>>} ELSE rolled
  BY DEF Erase
<1>2. 0 \in 0..MetadataTTL
  BY SetupFacts
<1>3. base' \in [Policies -> 0..MaxLimit]
  <2>1. CASE k \in Policies
    <3>1. PICK expired \in SUBSET (Owners \ Live(k)) :
            Recompute(k, IF Live(k) \ {o} = {} THEN {} ELSE (Live(k) \cup expired) \ {o})
      BY <2>1 DEF Erase
    <3>2. (IF Live(k) \ {o} = {} THEN {} ELSE (Live(k) \cup expired) \ {o}) \in SUBSET Owners
      BY LiveOwners
    <3>3. QED
      BY <2>1, <3>1, <3>2, RecomputeLimit
  <2>2. CASE k \notin Policies
    BY <2>2 DEF Erase, TypeOK
  <2>3. QED
    BY <2>1, <2>2
<1>4. QED
  BY <1>1, <1>2, <1>3 DEF TypeOK


LEMMA InitTyped == Init => TypeOK
<1> SUFFICES ASSUME Init PROVE TypeOK
  OBVIOUS
<1>1. /\ setup.ttl \in Nat /\ setup.margin \in Nat /\ setup.ttl > setup.margin
      /\ setup.wait \in Nat /\ setup.lease \in Nat
  BY RegistrationAssumption DEF Init
<1>2. 0 \in 0..MetadataTTL /\ 0 \in 0..MetadataTTL - Margin /\ 0 \in 0..Wait /\ 0 \in 0..LeaseTTL
  BY <1>1 DEF MetadataTTL, Margin, Wait, LeaseTTL
<1>3. Idle \in Regs
  BY <1>2 DEF Idle, Regs
<1>4. 0 \in 0..MaxLimit
  BY RegistrationAssumption
<1>5. QED
  BY <1>2, <1>3, <1>4 DEF Init, TypeOK

\* The registration of an owner, and what is made of it.
LEMMA RegTyped ==
    ASSUME TypeOK, NEW o \in Owners
    PROVE /\ reg[o] \in Regs
          /\ reg[o].rest \subseteq Keys /\ reg[o].made \subseteq Keys
          /\ reg[o].view \in Views \cup {"none"} /\ reg[o].forced \in Claims \cup {"none"}
          /\ reg[o].age \in 0..MetadataTTL - Margin /\ reg[o].prior \in BOOLEAN
          /\ Idle \in Regs
          /\ \A r : r \in Regs => [reg EXCEPT ![o] = r] \in [Owners -> Regs]
<1>1. 0 \in 0..MetadataTTL - Margin
  BY SetupFacts
<1>2. Idle \in Regs
  BY <1>1 DEF Idle, Regs
<1>3. reg[o] \in Regs
  BY DEF TypeOK
<1>4. \A r : r \in Regs => [reg EXCEPT ![o] = r] \in [Owners -> Regs]
  BY DEF TypeOK
<1>5. QED
  BY <1>2, <1>3, <1>4 DEF Regs

\* A registration with fewer keys to go, and one that is rolled back.
LEMMA RestTyped ==
    ASSUME TypeOK, NEW o \in Owners, NEW S \in SUBSET Keys, NEW M \in SUBSET Keys
    PROVE /\ [reg EXCEPT ![o].rest = S] \in [Owners -> Regs]
          /\ [reg EXCEPT ![o].rest = S, ![o].made = M] \in [Owners -> Regs]
          /\ StartRollback(o, S) => reg' \in [Owners -> Regs]
<1>0. reg \in [Owners -> Regs] /\ reg[o] \in Regs /\ 0 \in 0..MetadataTTL - Margin
      /\ reg[o].view \in Views \cup {"none"}
  BY RegTyped, SetupFacts DEF TypeOK
<1>1. [reg[o] EXCEPT !.rest = S] \in Regs
  BY <1>0 DEF Regs
<1>2. [reg[o] EXCEPT !.rest = S, !.made = M] \in Regs
  BY <1>0 DEF Regs
<1>3. [Idle EXCEPT !.pc = "rollback", !.view = reg[o].view, !.rest = S] \in Regs
  BY <1>0, RegTyped DEF Regs, Idle
<1>4. [reg EXCEPT ![o].rest = S] = [reg EXCEPT ![o] = [reg[o] EXCEPT !.rest = S]]
  BY <1>0
<1>5. [reg EXCEPT ![o].rest = S, ![o].made = M]
        = [reg EXCEPT ![o] = [reg[o] EXCEPT !.rest = S, !.made = M]]
  BY <1>0 DEF Regs
<1>6. QED
  BY <1>0, <1>1, <1>2, <1>3, <1>4, <1>5 DEF StartRollback

LEMMA UndoingTyped ==
    ASSUME TypeOK, NEW o \in Owners, RegistrationsOwned, reg[o].pc # "idle"
    PROVE Undoing(o) \in SUBSET Keys
BY RegTyped, SetupFacts DEF Undoing, RegistrationsOwned

\* One owner's registration moves on to r.
LEMMA OwnedAfter ==
    ASSUME TypeOK, RegistrationsOwned, setup' = setup,
           NEW o \in Owners, NEW r \in Regs, reg' = [reg EXCEPT ![o] = r],
           r.pc # "idle" => /\ r.view \in Views /\ OwnerOf(r.view) = o
                            /\ r.pc = "register" => r.rest \subseteq Plan(r.view)
    PROVE RegistrationsOwned' /\ reg' \in [Owners -> Regs]
<1>1. reg' \in [Owners -> Regs] /\ reg'[o] = r /\ \A p \in Owners : p # o => reg'[p] = reg[p]
  BY DEF TypeOK
<1>2. RegistrationsOwned'
  BY <1>1 DEF RegistrationsOwned, OwnerOf, Plan
<1>3. QED
  BY <1>1, <1>2

\* What an action that moves a registration makes of it.
LEMMA RegAfterBegin ==
    ASSUME TypeOK, NEW v \in Views, Begin(v)
    PROVE \E forced \in {"none"} \cup {k \in Claims : lease[v][k] > 0} :
            LET r == [pc |-> "register", view |-> v, rest |-> Plan(v), made |-> {},
                      prior |-> Current(v), forced |-> forced, age |-> 0]
            IN r \in Regs /\ reg' = [reg EXCEPT ![OwnerOf(v)] = r]
<1>1. PICK forced \in {"none"} \cup {k \in Claims : lease[v][k] > 0} :
        reg' = [reg EXCEPT ![OwnerOf(v)] =
          [pc |-> "register", view |-> v, rest |-> Plan(v), made |-> {},
           prior |-> Current(v), forced |-> forced, age |-> 0]]
  BY DEF Begin
<1>2. Plan(v) \in SUBSET Keys /\ 0 \in 0..MetadataTTL - Margin /\ Current(v) \in BOOLEAN
  BY SetupFacts DEF Current
<1>3. [pc |-> "register", view |-> v, rest |-> Plan(v), made |-> {},
       prior |-> Current(v), forced |-> forced, age |-> 0] \in Regs
  BY <1>2 DEF Regs
<1>4. QED
  BY <1>1, <1>3

LEMMA RegAfterWrite ==
    ASSUME TypeOK, NEW o \in Owners, NEW k \in Keys, Register(o, k)
    PROVE \E r \in Regs : /\ reg' = [reg EXCEPT ![o] = r]
                          /\ r.pc = reg[o].pc /\ r.view = reg[o].view
                          /\ r.rest = reg[o].rest \ {k} /\ r.forced = reg[o].forced
                          /\ r.age = reg[o].age
<1>0. /\ reg \in [Owners -> Regs] /\ reg[o] \in Regs
      /\ reg[o].rest \subseteq Keys /\ reg[o].made \subseteq Keys
  BY RegTyped DEF TypeOK
<1> DEFINE M == IF left[k][o] = 0 /\ reg[o].prior THEN reg[o].made \cup {k} ELSE reg[o].made
           r == [reg[o] EXCEPT !.rest = @ \ {k}, !.made = M]
<1>1. M \subseteq Keys
  BY <1>0
<1>2. reg' = [reg EXCEPT ![o] = r]
  BY <1>0 DEF Register, Regs
<1> HIDE DEF M
<1>3. /\ r \in Regs /\ r.pc = reg[o].pc /\ r.view = reg[o].view
      /\ r.rest = reg[o].rest \ {k} /\ r.forced = reg[o].forced /\ r.age = reg[o].age
  BY <1>0, <1>1 DEF Regs
<1>4. QED
  BY <1>2, <1>3

LEMMA RegAfterRollback ==
    ASSUME TypeOK, NEW o \in Owners, NEW k \in Keys, Rollback(o, k)
    PROVE \E r \in Regs : /\ reg' = [reg EXCEPT ![o] = r]
                          /\ r.pc = reg[o].pc /\ r.view = reg[o].view /\ r.forced = reg[o].forced
<1>0. reg \in [Owners -> Regs] /\ reg[o] \in Regs /\ reg[o].rest \subseteq Keys
  BY RegTyped DEF TypeOK
<1> DEFINE r == [reg[o] EXCEPT !.rest = @ \ {k}]
<1>1. reg' = [reg EXCEPT ![o] = r]
  BY <1>0 DEF Rollback
<1>2. r \in Regs /\ r.pc = reg[o].pc /\ r.view = reg[o].view /\ r.forced = reg[o].forced
  BY <1>0 DEF Regs
<1>3. QED
  BY <1>1, <1>2

LEMMA RegAfterFailure ==
    ASSUME TypeOK, RegistrationsOwned, NEW o \in Owners,
           reg[o].pc # "idle", StartRollback(o, Undoing(o))
    PROVE \E r \in Regs : /\ reg' = [reg EXCEPT ![o] = r]
                          /\ r.pc = "rollback" /\ r.view = reg[o].view /\ r.forced = "none"
<1>0. reg \in [Owners -> Regs] /\ reg[o].view \in Views \cup {"none"}
  BY RegTyped DEF TypeOK
<1> DEFINE r == [Idle EXCEPT !.pc = "rollback", !.view = reg[o].view, !.rest = Undoing(o)]
<1>1. reg' = [reg EXCEPT ![o] = r]
  BY DEF StartRollback
<1>2. Idle \in Regs /\ Undoing(o) \in SUBSET Keys
  BY RegTyped, UndoingTyped
<1>3. r \in Regs /\ r.pc = "rollback" /\ r.view = reg[o].view /\ r.forced = "none"
  BY <1>0, <1>2 DEF Regs, Idle
<1>4. QED
  BY <1>1, <1>3

\* A registration whose lease is gone, or that is a moment older.
LEMMA RegAfterOrphan ==
    ASSUME NEW g \in Regs, NEW gone,
           MetadataTTL \in Nat, Margin \in Nat, MetadataTTL > Margin
    PROVE /\ Orphan(g, gone) \in Regs /\ Orphan(Aged(g), gone) \in Regs
          /\ LET r == Orphan(g, gone) IN
               /\ r.pc = g.pc /\ r.view = g.view /\ r.rest = g.rest /\ r.age = g.age
               /\ r.forced = IF <<g.view, g.forced>> \in gone THEN "none" ELSE g.forced
          /\ LET r == Orphan(Aged(g), gone) IN
               /\ r.pc = g.pc /\ r.view = g.view /\ r.rest = g.rest
               /\ r.forced = IF <<g.view, g.forced>> \in gone THEN "none" ELSE g.forced
               /\ g.pc = "register" => r.age = IF g.age < MetadataTTL - Margin
                                               THEN g.age + 1 ELSE g.age
<1> DEFINE a == Aged(g)
<1>1. g.age \in 0..MetadataTTL - Margin
  BY DEF Regs
<1>2. /\ a \in Regs /\ a.pc = g.pc /\ a.view = g.view /\ a.rest = g.rest /\ a.forced = g.forced
      /\ g.pc = "register" => a.age = IF g.age < MetadataTTL - Margin THEN g.age + 1 ELSE g.age
  <2>1. (IF g.pc = "register" /\ g.age < MetadataTTL - Margin THEN g.age + 1 ELSE g.age)
          \in 0..MetadataTTL - Margin
    BY <1>1
  <2>2. a = [g EXCEPT !.age = IF g.pc = "register" /\ g.age < MetadataTTL - Margin
                              THEN g.age + 1 ELSE g.age]
    BY DEF Aged, Regs
  <2>3. QED
    BY <2>1, <2>2 DEF Regs
<1>3. ASSUME NEW h \in Regs
      PROVE LET r == Orphan(h, gone) IN
               /\ r \in Regs
               /\ r.pc = h.pc /\ r.view = h.view /\ r.rest = h.rest /\ r.age = h.age
               /\ r.forced = IF <<h.view, h.forced>> \in gone THEN "none" ELSE h.forced
  <2>1. Orphan(h, gone) = [h EXCEPT !.forced = IF <<h.view, h.forced>> \in gone
                                               THEN "none" ELSE h.forced]
    BY DEF Orphan, Regs
  <2>2. (IF <<h.view, h.forced>> \in gone THEN "none" ELSE h.forced) \in Claims \cup {"none"}
    BY DEF Regs
  <2>3. QED
    BY <2>1, <2>2 DEF Regs
<1>4. QED
  BY <1>2, <1>3

\* Nothing but leases, polls and what views believe in changes.
LEMMA QuietTyped ==
    ASSUME TypedInv, UNCHANGED <<setup, left, base, reg, rolled>>,
           valid' \in [Views -> 0..MetadataTTL - Margin], poll' \in [Views -> 0..Wait],
           renew' \subseteq Views \X Claims, renewed' \subseteq Views \X Claims,
           lease' \in [Views -> [Claims -> 0..LeaseTTL]]
    PROVE TypedInv'
<1>1. Regs' = Regs
  BY DEF Regs, MetadataTTL, Margin
<1>2. TypeOK'
  BY <1>1 DEF TypedInv, TypeOK, MetadataTTL, Margin, Wait, LeaseTTL
<1>3. RegistrationsOwned'
  BY DEF TypedInv, RegistrationsOwned, OwnerOf, Plan
<1>4. QED
  BY <1>2, <1>3 DEF TypedInv

LEMMA ViewStepTyped ==
    ASSUME TypedInv, NEW v \in Views,
           \/ LetIn(v) \/ TurnAway(v)
           \/ \E k \in Claims : TakeLease(v, k) \/ RenewLease(v, k) \/ DropLease(v, k)
    PROVE TypedInv' /\ setup' = setup
<1>0. /\ TypeOK /\ RegistrationsOwned /\ LeaseTTL \in 0..LeaseTTL /\ 0 \in 0..LeaseTTL
      /\ Wait \in 0..Wait /\ 0 \in 0..Wait /\ 0 \in 0..MetadataTTL - Margin
      /\ MetadataTTL \in Nat /\ Margin \in Nat /\ MetadataTTL > Margin
  BY SetupFacts DEF TypedInv
<1>t. /\ valid \in [Views -> 0..MetadataTTL - Margin] /\ poll \in [Views -> 0..Wait]
      /\ renew \subseteq Views \X Claims /\ lease \in [Views -> [Claims -> 0..LeaseTTL]]
      /\ renewed \subseteq Views \X Claims
  BY <1>0 DEF TypeOK
<1>1. CASE LetIn(v)
  BY <1>0, <1>t, <1>1, QuietTyped DEF LetIn
<1>2. CASE TurnAway(v)
  BY <1>0, <1>t, <1>2, QuietTyped DEF TurnAway
<1>3. ASSUME NEW k \in Claims, TakeLease(v, k) PROVE TypedInv' /\ setup' = setup
  BY <1>0, <1>t, <1>3, QuietTyped DEF TakeLease
<1>4. ASSUME NEW k \in Claims, RenewLease(v, k) PROVE TypedInv' /\ setup' = setup
  BY <1>0, <1>t, <1>4, QuietTyped DEF RenewLease
<1>5. ASSUME NEW k \in Claims, DropLease(v, k) PROVE TypedInv' /\ setup' = setup
  <2>1. /\ setup' = setup
        /\ reg' = [o \in Owners |-> Orphan(reg[o], {<<v, k>>})]
        /\ lease' = [lease EXCEPT ![v][k] = 0] /\ renew' = renew \ {<<v, k>>}
        /\ renewed' = renewed \ {<<v, k>>}
        /\ UNCHANGED <<left, base, valid, poll, rolled>>
    BY <1>5 DEF DropLease
  <2>2. \A o \in Owners : LET r == reg'[o] IN
          r \in Regs /\ r.pc = reg[o].pc /\ r.view = reg[o].view /\ r.rest = reg[o].rest
    <3> TAKE o \in Owners
    <3>1. reg'[o] = Orphan(reg[o], {<<v, k>>}) /\ reg[o] \in Regs
      BY <1>0, <2>1 DEF TypeOK
    <3>2. LET r == Orphan(reg[o], {<<v, k>>}) IN
            r \in Regs /\ r.pc = reg[o].pc /\ r.view = reg[o].view /\ r.rest = reg[o].rest
      BY <1>0, <3>1, RegAfterOrphan, Zenon
    <3>3. QED
      BY <3>1, <3>2
  <2>3. reg' \in [Owners -> Regs]
    BY <2>1, <2>2
  <2>4. RegistrationsOwned'
    BY <1>0, <2>1, <2>2 DEF RegistrationsOwned, OwnerOf, Plan
  <2>5. /\ lease' \in [Views -> [Claims -> 0..LeaseTTL]]
        /\ renew' \subseteq Views \X Claims /\ renewed' \subseteq Views \X Claims
    BY <1>0, <2>1 DEF TypeOK
  <2>6. Regs' = Regs
    BY <2>1 DEF Regs, MetadataTTL, Margin
  <2>7. TypeOK'
    BY <1>0, <2>1, <2>3, <2>5, <2>6 DEF TypeOK, MetadataTTL, Margin, Wait, LeaseTTL
  <2>8. QED
    BY <2>1, <2>4, <2>7 DEF TypedInv
<1>6. QED
  BY <1>1, <1>2, <1>3, <1>4, <1>5

\* A registration moves on, and may write or erase a record.
LEMMA OwnerStepTyped ==
    ASSUME TypedInv, NEW o \in Owners, NEW r \in Regs, setup' = setup,
           reg' = [reg EXCEPT ![o] = r],
           r.pc # "idle" => /\ r.view \in Views /\ OwnerOf(r.view) = o
                            /\ r.pc = "register" => r.rest \subseteq Plan(r.view),
           left' \in [Keys -> [Owners -> 0..MetadataTTL]],
           base' \in [Policies -> 0..MaxLimit],
           valid' \in [Views -> 0..MetadataTTL - Margin],
           renew' \subseteq Views \X Claims,
           rolled' \subseteq Keys \X Owners,
           UNCHANGED <<poll, lease, renewed>>
    PROVE TypedInv'
<1>0. TypeOK /\ RegistrationsOwned
  BY DEF TypedInv
<1>1. RegistrationsOwned' /\ reg' \in [Owners -> Regs]
  BY <1>0, OwnedAfter
<1>2. Regs' = Regs
  BY DEF Regs, MetadataTTL, Margin
<1>3. TypeOK'
  BY <1>0, <1>1, <1>2 DEF TypeOK, MetadataTTL, Margin, Wait, LeaseTTL
<1>4. QED
  BY <1>1, <1>3 DEF TypedInv

LEMMA BeginTyped == ASSUME TypedInv, NEW v \in Views, Begin(v) PROVE TypedInv' /\ setup' = setup
<1>0. TypeOK /\ OwnerOf(v) \in Owners
  BY SetupFacts DEF TypedInv
<1>1. PICK forced \in {"none"} \cup {k \in Claims : lease[v][k] > 0} :
        LET r == [pc |-> "register", view |-> v, rest |-> Plan(v), made |-> {},
                  prior |-> Current(v), forced |-> forced, age |-> 0]
        IN r \in Regs /\ reg' = [reg EXCEPT ![OwnerOf(v)] = r]
  BY <1>0, RegAfterBegin
<1>2. UNCHANGED <<setup, left, base, valid, poll, renew, lease, renewed, rolled>>
  BY DEF Begin
<1>3. QED
  BY <1>0, <1>1, <1>2, OwnerStepTyped DEF TypeOK

LEMMA KeyStepTyped ==
    ASSUME TypedInv, NEW o \in Owners, NEW k \in Keys,
           Register(o, k) \/ RegisterLost(o, k) \/ Rollback(o, k)
    PROVE TypedInv' /\ setup' = setup
<1>0. TypeOK /\ RegistrationsOwned
  BY DEF TypedInv
<1>1. CASE Register(o, k)
  <2>1. Write(o, k) /\ reg[o].pc = "register" /\ UNCHANGED <<setup, valid, poll, renew, lease, renewed>>
    BY <1>1 DEF Register
  <2>2. PICK r \in Regs : /\ reg' = [reg EXCEPT ![o] = r]
                          /\ r.pc = reg[o].pc /\ r.view = reg[o].view
                          /\ r.rest = reg[o].rest \ {k}
    BY <1>0, <1>1, RegAfterWrite
  <2>3. r.view \in Views /\ OwnerOf(r.view) = o /\ r.rest \subseteq Plan(r.view)
    BY <1>0, <2>1, <2>2 DEF RegistrationsOwned
  <2>4. /\ left' \in [Keys -> [Owners -> 0..MetadataTTL]] /\ base' \in [Policies -> 0..MaxLimit]
        /\ rolled' \subseteq Keys \X Owners
    BY <1>0, <2>1, WriteRecords DEF TypeOK
  <2>5. QED
    BY <1>0, <2>1, <2>2, <2>3, <2>4, OwnerStepTyped DEF TypeOK
<1>2. CASE RegisterLost(o, k)
  <2>1. /\ Write(o, k) /\ reg[o].pc = "register" /\ StartRollback(o, Undoing(o))
        /\ UNCHANGED <<setup, valid, poll, renew, lease, renewed>>
    BY <1>2 DEF RegisterLost
  <2>2. PICK r \in Regs : /\ reg' = [reg EXCEPT ![o] = r]
                          /\ r.pc = "rollback" /\ r.view = reg[o].view
    BY <1>0, <2>1, RegAfterFailure
  <2>3. r.view \in Views /\ OwnerOf(r.view) = o
    BY <1>0, <2>1, <2>2 DEF RegistrationsOwned
  <2>4. /\ left' \in [Keys -> [Owners -> 0..MetadataTTL]] /\ base' \in [Policies -> 0..MaxLimit]
        /\ rolled' \subseteq Keys \X Owners
    BY <1>0, <2>1, WriteRecords DEF TypeOK
  <2>5. QED
    BY <1>0, <2>1, <2>2, <2>3, <2>4, OwnerStepTyped DEF TypeOK
<1>3. CASE Rollback(o, k)
  <2>1. /\ Erase(o, k) \/ UNCHANGED <<setup, left, rolled, base>>
        /\ reg[o].pc = "rollback" /\ UNCHANGED <<setup, valid, poll, renew, lease, renewed>>
    BY <1>3 DEF Rollback
  <2>2. PICK r \in Regs : /\ reg' = [reg EXCEPT ![o] = r]
                          /\ r.pc = reg[o].pc /\ r.view = reg[o].view
    BY <1>0, <1>3, RegAfterRollback
  <2>3. r.view \in Views /\ OwnerOf(r.view) = o
    BY <1>0, <2>1, <2>2 DEF RegistrationsOwned
  <2>4. /\ left' \in [Keys -> [Owners -> 0..MetadataTTL]] /\ base' \in [Policies -> 0..MaxLimit]
        /\ rolled' \subseteq Keys \X Owners
    BY <1>0, <2>1, EraseRecords DEF TypeOK
  <2>5. QED
    BY <1>0, <2>1, <2>2, <2>3, <2>4, OwnerStepTyped DEF TypeOK
<1>4. QED
  BY <1>1, <1>2, <1>3

LEMMA EndStepTyped ==
    ASSUME TypedInv, NEW o \in Owners,
           RegisterFails(o) \/ Registered(o) \/ Abandon(o) \/ ResolveFails(o)
    PROVE TypedInv' /\ setup' = setup
<1>0. TypeOK /\ RegistrationsOwned /\ Idle \in Regs /\ Idle.pc = "idle"
  BY RegTyped DEF TypedInv, Idle
<1>1. CASE RegisterFails(o)
  <2>1. /\ reg[o].pc = "register" /\ StartRollback(o, Undoing(o))
        /\ UNCHANGED <<setup, left, base, valid, poll, renew, lease, renewed, rolled>>
    BY <1>1 DEF RegisterFails
  <2>2. PICK r \in Regs : /\ reg' = [reg EXCEPT ![o] = r]
                          /\ r.pc = "rollback" /\ r.view = reg[o].view
    BY <1>0, <2>1, RegAfterFailure
  <2>3. r.view \in Views /\ OwnerOf(r.view) = o
    BY <1>0, <2>1, <2>2 DEF RegistrationsOwned
  <2>4. QED
    BY <1>0, <2>1, <2>2, <2>3, OwnerStepTyped DEF TypeOK
<1>2. CASE Registered(o)
  <2>1. /\ reg[o].pc = "register" /\ reg' = [reg EXCEPT ![o] = Idle]
        /\ valid' = [valid EXCEPT ![reg[o].view] = MetadataTTL - Margin - reg[o].age]
        /\ renew' = renew \cup ({reg[o].view} \X (Claims \cap {reg[o].forced}))
        /\ UNCHANGED <<setup, left, base, poll, lease, renewed, rolled>>
    BY <1>2 DEF Registered
  <2>2. reg[o].view \in Views /\ MetadataTTL - Margin - reg[o].age \in 0..MetadataTTL - Margin
    BY <1>0, <2>1, RegTyped, SetupFacts DEF RegistrationsOwned
  <2>3. valid' \in [Views -> 0..MetadataTTL - Margin] /\ renew' \subseteq Views \X Claims
    BY <1>0, <2>1, <2>2 DEF TypeOK
  <2>4. QED
    BY <1>0, <2>1, <2>3, OwnerStepTyped DEF TypeOK
<1>3. CASE Abandon(o) \/ ResolveFails(o)
  <2>1. /\ reg' = [reg EXCEPT ![o] = Idle]
        /\ valid' = [valid EXCEPT ![reg[o].view] = 0]
        /\ UNCHANGED <<setup, left, base, poll, renew, lease, renewed, rolled>>
    BY <1>3 DEF Abandon, ResolveFails
  <2>2. valid' \in [Views -> 0..MetadataTTL - Margin]
    <3>1. 0 \in 0..MetadataTTL - Margin /\ valid \in [Views -> 0..MetadataTTL - Margin]
      BY <1>0, SetupFacts DEF TypeOK
    <3>2. QED
      BY <2>1, <3>1
  <2>3. QED
    BY <1>0, <2>1, <2>2, OwnerStepTyped DEF TypeOK
<1>4. QED
  BY <1>1, <1>2, <1>3

LEMMA CountdownTyped == ASSUME NEW m \in Nat, NEW n \in 0..m
                        PROVE /\ Countdown(n) \in 0..m /\ Countdown(n) <= n /\ Countdown(n) >= n - 1
                              /\ Countdown(n) > 0 => Countdown(n) = n - 1
BY DEF Countdown

LEMMA TickTyped == ASSUME TypedInv, Tick PROVE TypedInv' /\ setup' = setup
<1>0. /\ TypeOK /\ RegistrationsOwned /\ MetadataTTL \in Nat /\ Margin \in Nat
      /\ MetadataTTL > Margin /\ Wait \in Nat /\ LeaseTTL \in Nat /\ MetadataTTL - Margin \in Nat
  BY SetupFacts DEF TypedInv
<1> DEFINE gone == {p \in Views \X Claims : lease[p[1]][p[2]] = 1}
<1>1. /\ left' = [k \in Keys |-> [o \in Owners |-> Countdown(left[k][o])]]
      /\ base' = [k \in Policies |-> IF \E o \in Owners : left[k][o] > 1 THEN base[k] ELSE 0]
      /\ valid' = [v \in Views |-> Countdown(valid[v])]
      /\ reg' = [o \in Owners |-> Orphan(Aged(reg[o]), gone)]
      /\ poll' = [v \in Views |-> Countdown(poll[v])]
      /\ lease' = [v \in Views |-> [k \in Claims |-> Countdown(lease[v][k])]]
      /\ renew' = renew \ gone /\ renewed' = renewed \ gone
      /\ UNCHANGED <<setup, rolled>>
  BY DEF Tick
<1> HIDE DEF gone
<1>2. left' \in [Keys -> [Owners -> 0..MetadataTTL]]
  BY <1>0, <1>1, CountdownTyped DEF TypeOK
<1>3. valid' \in [Views -> 0..MetadataTTL - Margin] /\ poll' \in [Views -> 0..Wait]
  BY <1>0, <1>1, CountdownTyped DEF TypeOK
<1>4. lease' \in [Views -> [Claims -> 0..LeaseTTL]]
  BY <1>0, <1>1, CountdownTyped DEF TypeOK
<1>5. base' \in [Policies -> 0..MaxLimit]
  BY <1>0, <1>1, RegistrationAssumption DEF TypeOK
<1>6. \A o \in Owners : LET r == reg'[o] IN
        r \in Regs /\ r.pc = reg[o].pc /\ r.view = reg[o].view /\ r.rest = reg[o].rest
  <2> TAKE o \in Owners
  <2>1. reg'[o] = Orphan(Aged(reg[o]), gone) /\ reg[o] \in Regs
    BY <1>0, <1>1 DEF TypeOK
  <2>2. LET r == Orphan(Aged(reg[o]), gone) IN
          r \in Regs /\ r.pc = reg[o].pc /\ r.view = reg[o].view /\ r.rest = reg[o].rest
    BY <1>0, <2>1, RegAfterOrphan, Zenon
  <2>3. QED
    BY <2>1, <2>2
<1>7. reg' \in [Owners -> Regs]
  BY <1>1, <1>6
<1>8. RegistrationsOwned'
  BY <1>0, <1>1, <1>6 DEF RegistrationsOwned, OwnerOf, Plan
<1>9. Regs' = Regs
  BY <1>1 DEF Regs, MetadataTTL, Margin
<1>10. TypeOK'
  BY <1>0, <1>1, <1>2, <1>3, <1>4, <1>5, <1>7, <1>9 DEF TypeOK, MetadataTTL, Margin, Wait, LeaseTTL
<1>11. QED
  BY <1>1, <1>8, <1>10 DEF TypedInv

LEMMA StepTyped == ASSUME TypedInv, [Next]_vars PROVE TypedInv' /\ setup' = setup
<1>1. CASE UNCHANGED vars
  BY <1>1 DEF vars, TypedInv, TypeOK, RegistrationsOwned, Regs, OwnerOf, Plan, MetadataTTL, Margin,
              Wait, LeaseTTL
<1>2. CASE Next
  BY <1>2, BeginTyped, ViewStepTyped, KeyStepTyped, EndStepTyped, TickTyped DEF Next
<1>3. QED
  BY <1>1, <1>2

LEMMA InitOwned == Init => TypedInv
BY InitTyped DEF TypedInv, RegistrationsOwned, Init, Idle

\* Every variable keeps its type: times stay within the lives of what they
\* count down, a registration writes only keys of the configuration.
THEOREM RegistrationTypes == Spec => []TypeOK
<1>1. Spec => []TypedInv
  BY InitOwned, StepTyped, PTL DEF Spec
<1>2. TypedInv => TypeOK
  BY DEF TypedInv
<1>3. QED
  BY <1>1, <1>2, PTL

(***************************************************************************)
(* What other processes registered is neither relaxed nor contradicted.    *)
(***************************************************************************)
\* The records change by a script, or with time.
LEMMA RecordSteps ==
    ASSUME [Next]_vars
    PROVE \/ UNCHANGED <<left, base, rolled>>
          \/ \E o \in Owners, k \in Keys : Write(o, k) \/ Erase(o, k)
          \/ Tick
<1>1. CASE UNCHANGED vars
  BY <1>1 DEF vars
<1>2. CASE \E v \in Views : Begin(v) \/ LetIn(v) \/ TurnAway(v)
  BY <1>2 DEF Begin, LetIn, TurnAway
<1>3. CASE \E v \in Views, k \in Claims : TakeLease(v, k) \/ RenewLease(v, k) \/ DropLease(v, k)
  BY <1>3 DEF TakeLease, RenewLease, DropLease
<1>4. CASE \E o \in Owners, k \in Keys : Register(o, k) \/ RegisterLost(o, k) \/ Rollback(o, k)
  BY <1>4 DEF Register, RegisterLost, Rollback
<1>5. CASE \E o \in Owners :
             RegisterFails(o) \/ Registered(o) \/ Abandon(o) \/ ResolveFails(o)
  BY <1>5 DEF RegisterFails, Registered, Abandon, ResolveFails
<1>6. QED
  BY <1>1, <1>2, <1>3, <1>4, <1>5 DEF Next

\* Which owners have a live record after a script.
LEMMA LiveAfterWrite ==
    ASSUME TypeOK, NEW o \in Owners, NEW k \in Keys, Write(o, k)
    PROVE /\ Live(k)' = Live(k) \cup {o}
          /\ \A j \in Keys : j # k => Live(j)' = Live(j)
<1>1. MetadataTTL > 0
  BY SetupFacts
<1>2. QED
  BY <1>1, WriteRecords DEF Live

LEMMA LiveAfterErase ==
    ASSUME TypeOK, NEW o \in Owners, NEW k \in Keys, Erase(o, k)
    PROVE /\ Live(k)' = Live(k) \ {o}
          /\ \A j \in Keys : j # k => Live(j)' = Live(j)
BY EraseRecords DEF Live

LEMMA LiveAfterTick ==
    ASSUME TypeOK, Tick
    PROVE \A k \in Keys : \A o \in Live(k)' : o \in Live(k) /\ left[k][o] > 1
<1> TAKE k \in Keys
<1> TAKE o \in Live(k)'
<1>1. o \in Owners /\ left'[k][o] > 0 /\ left'[k][o] = Countdown(left[k][o])
  BY DEF Live, Tick
<1>2. left[k][o] \in 0..MetadataTTL /\ MetadataTTL \in Nat
  BY <1>1, SetupFacts DEF TypeOK
<1>3. QED
  BY <1>1, <1>2 DEF Countdown, Live

LEMMA WritePolicy ==
    ASSUME TypeOK, PolicyCoversOwners, NEW o \in Owners, NEW k \in Keys, Write(o, k),
           setup' = setup, NEW q \in Policies, NEW p \in Live(q)'
    PROVE base'[q] \in 1..Want(p, q)
<1>1. CASE q = k
  <2>1. Recompute(k, Live(k) \cup {o}) /\ k \in Policies
    BY <1>1 DEF Write
  <2>2. Live(k) \cup {o} \in SUBSET Owners /\ p \in Live(k) \cup {o}
    BY <1>1, LiveOwners, LiveAfterWrite
  <2>3. QED
    BY <1>1, <2>1, <2>2, RecomputeLimit
<1>2. CASE q # k
  <2>1. q \in Keys /\ p \in Live(q)
    BY <1>2, LiveAfterWrite DEF Keys
  <2>2. base'[q] = base[q]
    <3>1. CASE k \in Policies
      BY <1>2, <3>1, RecomputeLimit, LiveOwners DEF Write
    <3>2. CASE k \notin Policies
      BY <3>2 DEF Write
    <3>3. QED
      BY <3>1, <3>2
  <2>3. QED
    BY <2>1, <2>2 DEF PolicyCoversOwners
<1>3. QED
  BY <1>1, <1>2

LEMMA ErasePolicy ==
    ASSUME TypeOK, PolicyCoversOwners, NEW o \in Owners, NEW k \in Keys, Erase(o, k),
           setup' = setup, NEW q \in Policies, NEW p \in Live(q)'
    PROVE base'[q] \in 1..Want(p, q)
<1>1. CASE q = k
  <2>1. PICK expired \in SUBSET (Owners \ Live(k)) :
          Recompute(k, IF Live(k) \ {o} = {} THEN {} ELSE (Live(k) \cup expired) \ {o})
    BY <1>1 DEF Erase
  <2>2. p \in Live(k) \ {o}
    BY <1>1, LiveAfterErase
  <2>3. Recompute(k, (Live(k) \cup expired) \ {o})
    BY <2>1, <2>2
  <2>4. (Live(k) \cup expired) \ {o} \in SUBSET Owners /\ p \in (Live(k) \cup expired) \ {o}
    BY <2>2, LiveOwners
  <2>5. QED
    BY <1>1, <2>3, <2>4, RecomputeLimit
<1>2. CASE q # k
  <2>1. q \in Keys /\ p \in Live(q)
    BY <1>2, LiveAfterErase DEF Keys
  <2>2. base'[q] = base[q]
    <3>1. CASE k \in Policies
      <4>1. PICK expired \in SUBSET (Owners \ Live(k)) :
              Recompute(k, IF Live(k) \ {o} = {} THEN {} ELSE (Live(k) \cup expired) \ {o})
        BY <3>1 DEF Erase
      <4>2. (IF Live(k) \ {o} = {} THEN {} ELSE (Live(k) \cup expired) \ {o}) \in SUBSET Owners
        BY LiveOwners
      <4>3. QED
        BY <1>2, <3>1, <4>1, <4>2, RecomputeLimit
    <3>2. CASE k \notin Policies
      BY <3>2 DEF Erase
    <3>3. QED
      BY <3>1, <3>2
  <2>3. QED
    BY <2>1, <2>2 DEF PolicyCoversOwners
<1>3. QED
  BY <1>1, <1>2

\* Whatever is registered, rolled back or expires, the limit of a scope stays
\* within what each process that still stands registered for it.
THEOREM LimitsAgreed == Spec => []PolicyCoversOwners
<1>1. Init => PolicyInv
  BY InitOwned DEF PolicyInv, PolicyCoversOwners, Init, Live, Keys
<1>2. PolicyInv /\ [Next]_vars => PolicyInv'
  <2> SUFFICES ASSUME PolicyInv, [Next]_vars PROVE PolicyInv'
    OBVIOUS
  <2>1. TypedInv' /\ setup' = setup
    BY StepTyped DEF PolicyInv
  <2>2. TypeOK /\ PolicyCoversOwners
    BY DEF PolicyInv, TypedInv
  <2>3. ASSUME NEW q \in Policies, NEW p \in Live(q)' PROVE base'[q] \in 1..Want(p, q)
    <3>0. q \in Keys
      BY DEF Keys
    <3>1. CASE UNCHANGED <<left, base, rolled>>
      BY <2>2, <2>3, <3>1 DEF PolicyCoversOwners, Live
    <3>2. CASE \E o \in Owners, k \in Keys : Write(o, k) \/ Erase(o, k)
      BY <2>1, <2>2, <2>3, <3>2, WritePolicy, ErasePolicy
    <3>3. CASE Tick
      <4>1. p \in Live(q) /\ left[q][p] > 1 /\ p \in Owners
        BY <2>2, <2>3, <3>0, <3>3, LiveAfterTick DEF Live
      <4>2. base'[q] = base[q]
        BY <3>3, <4>1 DEF Tick
      <4>3. QED
        BY <2>2, <4>1, <4>2 DEF PolicyCoversOwners
    <3>4. QED
      BY <3>1, <3>2, <3>3, RecordSteps
  <2>4. PolicyCoversOwners'
    BY <2>1, <2>3 DEF PolicyCoversOwners, Want
  <2>5. QED
    BY <2>1, <2>4 DEF PolicyInv
<1>3. PolicyInv => PolicyCoversOwners
  BY DEF PolicyInv
<1>4. QED
  BY <1>1, <1>2, <1>3, PTL DEF Spec

\* The claim script refuses what a claim that stands contradicts.
LEMMA ClaimsKept == Spec => []ClaimInv
<1>1. Init => ClaimInv
  BY InitOwned DEF ClaimInv, ClaimsAgree, Init, Live, Keys
<1>2. ClaimInv /\ [Next]_vars => ClaimInv'
  <2> SUFFICES ASSUME ClaimInv, [Next]_vars PROVE ClaimInv'
    OBVIOUS
  <2>1. TypedInv' /\ setup' = setup
    BY StepTyped DEF ClaimInv
  <2>2. TypeOK /\ ClaimsAgree
    BY DEF ClaimInv, TypedInv
  <2>3. ASSUME NEW c \in Claims, NEW p \in Live(c)', NEW q \in Live(c)'
        PROVE Want(p, c) = Want(q, c)
    <3>0. c \in Keys
      BY DEF Keys
    <3>1. CASE UNCHANGED <<left, base, rolled>>
      BY <2>2, <2>3, <3>1 DEF ClaimsAgree, Live
    <3>2. ASSUME NEW o \in Owners, NEW k \in Keys, Write(o, k)
          PROVE Want(p, c) = Want(q, c)
      <4>1. CASE c = k
        <5>1. p \in Live(c) \cup {o} /\ q \in Live(c) \cup {o}
          BY <2>2, <2>3, <3>2, <4>1, LiveAfterWrite
        <5>2. \A r \in Live(c) : Want(r, c) = Want(o, c)
          BY <3>2, <4>1 DEF Write, Accepts
        <5>3. QED
          BY <5>1, <5>2
      <4>2. CASE c # k
        BY <2>2, <2>3, <3>0, <3>2, <4>2, LiveAfterWrite DEF ClaimsAgree
      <4>3. QED
        BY <4>1, <4>2
    <3>3. ASSUME NEW o \in Owners, NEW k \in Keys, Erase(o, k)
          PROVE Want(p, c) = Want(q, c)
      <4>1. p \in Live(c) /\ q \in Live(c)
        BY <2>2, <2>3, <3>0, <3>3, LiveAfterErase
      <4>2. QED
        BY <2>2, <4>1 DEF ClaimsAgree
    <3>4. CASE Tick
      BY <2>2, <2>3, <3>0, <3>4, LiveAfterTick DEF ClaimsAgree
    <3>5. QED
      BY <3>1, <3>2, <3>3, <3>4, RecordSteps
  <2>4. ClaimsAgree'
    BY <2>1, <2>3 DEF ClaimsAgree, Want
  <2>5. QED
    BY <2>1, <2>4 DEF ClaimInv
<1>3. QED
  BY <1>1, <1>2, PTL DEF Spec

(***************************************************************************)
(* What admissions and leases rest on.                                     *)
(***************************************************************************)
\* No record that lasts for n is shortened, other than by a rollback.
Kept ==
    \A p \in Owners, j \in Keys : \A n \in Int :
        n <= MetadataTTL /\ Covers(p, j, n) => Covers(p, j, n)'

LEMMA WriteKeeps ==
    ASSUME TypeOK, NEW o \in Owners, NEW k \in Keys, Write(o, k)
    PROVE Kept /\ \A n \in Int : n <= MetadataTTL => Covers(o, k, n)'
BY WriteRecords, SetupFacts DEF Kept, Covers

LEMMA EraseKeeps ==
    ASSUME TypeOK, NEW o \in Owners, NEW k \in Keys, Erase(o, k)
    PROVE Kept
<1>1. /\ rolled' = IF left[k][o] > 0 THEN rolled \cup {<<k, o>>} ELSE rolled
      /\ left'[k][o] = 0
      /\ \A j \in Keys, p \in Owners : j # k \/ p # o => left'[j][p] = left[j][p]
  BY EraseRecords
<1>2. left[k][o] \in 0..MetadataTTL /\ MetadataTTL \in Nat
  BY SetupFacts DEF TypeOK
<1>3. ASSUME NEW p \in Owners, NEW j \in Keys, NEW n \in Int, n <= MetadataTTL, Covers(p, j, n)
      PROVE Covers(p, j, n)'
  <2>1. CASE j = k /\ p = o
    BY <1>1, <1>2, <1>3, <2>1 DEF Covers
  <2>2. CASE ~(j = k /\ p = o)
    BY <1>1, <1>3, <2>2 DEF Covers
  <2>3. QED
    BY <2>1, <2>2
<1>4. QED
  BY <1>3 DEF Kept

LEMMA SetupKept ==
    ASSUME setup' = setup
    PROVE /\ \A v : OwnerOf(v)' = OwnerOf(v) /\ Plan(v)' = Plan(v)
          /\ MetadataTTL' = MetadataTTL /\ Margin' = Margin /\ LeaseTTL' = LeaseTTL /\ Wait' = Wait
BY DEF OwnerOf, Plan, MetadataTTL, Margin, LeaseTTL, Wait

\* Types of the times the coverage is about.
LEMMA TimesTyped ==
    ASSUME TypeOK
    PROVE /\ \A v \in Views : valid[v] \in 0..MetadataTTL - Margin /\ poll[v] \in 0..Wait
          /\ \A v \in Views, k \in Claims : lease[v][k] \in 0..LeaseTTL
          /\ \A o \in Owners, k \in Keys : left[k][o] \in 0..MetadataTTL
          /\ \A v \in Views : OwnerOf(v) \in Owners /\ Plan(v) \subseteq Keys
          /\ Claims \subseteq Keys
          /\ LeaseTTL \in Nat \ {0} /\ Wait \in Nat \ {0} /\ Margin \in Nat
          /\ MetadataTTL \in Nat /\ MetadataTTL >= 3 * LeaseTTL
          /\ MetadataTTL > Margin
BY SetupFacts DEF TypeOK, Keys

\* A view, an acquisition, a lease that gains no time stays covered.
LEMMA ViewKept ==
    ASSUME TypeOK, setup' = setup, ViewsCovered, Kept,
           NEW v \in Views, valid'[v] > 0 => valid'[v] = valid[v]
    PROVE (valid[v] > 0 => \A k \in Plan(v) : Covers(OwnerOf(v), k, valid[v] + Margin))'
<1> SUFFICES ASSUME valid'[v] > 0, NEW k \in Plan(v)
             PROVE Covers(OwnerOf(v), k, valid[v] + Margin)'
  BY SetupKept
<1>1. Covers(OwnerOf(v), k, valid[v] + Margin) /\ valid[v] + Margin \in 1..MetadataTTL
  BY TimesTyped DEF ViewsCovered
<1>2. k \in Keys /\ OwnerOf(v) \in Owners
  BY TimesTyped
<1>3. left'[k][OwnerOf(v)] >= valid[v] + Margin \/ <<k, OwnerOf(v)>> \in rolled'
  BY <1>1, <1>2 DEF Kept, Covers
<1>4. QED
  BY <1>3, SetupKept DEF Covers

LEMMA PollKept ==
    ASSUME TypeOK, setup' = setup, PollsCovered, Kept,
           NEW v \in Views, poll'[v] > 0 => poll'[v] = poll[v]
    PROVE (poll[v] > 0 => \A k \in Plan(v) : Covers(OwnerOf(v), k, PollBound(v)))'
<1> SUFFICES ASSUME poll'[v] > 0, NEW k \in Plan(v)
             PROVE Covers(OwnerOf(v), k, PollBound(v))'
  BY SetupKept
<1>1. Covers(OwnerOf(v), k, PollBound(v)) /\ PollBound(v)' = PollBound(v)
  BY SetupKept DEF PollsCovered, PollBound
<1>2. k \in Keys /\ OwnerOf(v) \in Owners
  BY TimesTyped
<1>3. PollBound(v) \in Int /\ PollBound(v) <= MetadataTTL
  BY TimesTyped DEF PollBound
<1>4. left'[k][OwnerOf(v)] >= PollBound(v) \/ <<k, OwnerOf(v)>> \in rolled'
  BY <1>1, <1>2, <1>3 DEF Kept, Covers
<1>5. QED
  BY <1>1, <1>4, SetupKept DEF Covers

\* How long the claim of a lease lasts is a time.
LEMMA LeaseBounded ==
    ASSUME TypeOK, NEW v \in Views, NEW k \in Claims
    PROVE LeaseBound(v, k) \in Int /\ LeaseBound(v, k) <= MetadataTTL
BY TimesTyped DEF LeaseBound

LEMMA LeaseKept ==
    ASSUME TypeOK, setup' = setup, LeasesCovered, Kept,
           NEW v \in Views, NEW k \in Claims,
           lease'[v][k] > 0 => /\ lease'[v][k] = lease[v][k]
                               /\ <<v, k>> \in renewed' <=> <<v, k>> \in renewed
    PROVE (lease[v][k] > 0 => k \in Plan(v) /\ Covers(OwnerOf(v), k, LeaseBound(v, k)))'
<1> SUFFICES ASSUME lease'[v][k] > 0
             PROVE (k \in Plan(v) /\ Covers(OwnerOf(v), k, LeaseBound(v, k)))'
  OBVIOUS
<1>1. /\ k \in Plan(v) /\ Covers(OwnerOf(v), k, LeaseBound(v, k))
      /\ k \in Keys /\ OwnerOf(v) \in Owners
  BY TimesTyped DEF LeasesCovered
<1>2. left'[k][OwnerOf(v)] >= LeaseBound(v, k) \/ <<k, OwnerOf(v)>> \in rolled'
  BY <1>1, LeaseBounded DEF Kept, Covers
<1>3. LeaseBound(v, k)' = LeaseBound(v, k)
  BY SetupKept DEF LeaseBound
<1>4. QED
  BY <1>1, <1>2, <1>3, SetupKept DEF Covers

LEMMA RenewalKept ==
    ASSUME TypeOK, setup' = setup, RenewalsCovered, Kept,
           NEW v \in Views, NEW k \in Claims,
           <<v, k>> \in renew' => <<v, k>> \in renew /\ lease'[v][k] = lease[v][k]
    PROVE (<<v, k>> \in renew =>
              lease[v][k] > 0 /\ Covers(OwnerOf(v), k, LeaseTTL + lease[v][k]))'
<1> SUFFICES ASSUME <<v, k>> \in renew'
             PROVE (lease[v][k] > 0 /\ Covers(OwnerOf(v), k, LeaseTTL + lease[v][k]))'
  OBVIOUS
<1>1. /\ lease[v][k] > 0 /\ Covers(OwnerOf(v), k, LeaseTTL + lease[v][k])
      /\ LeaseTTL + lease[v][k] \in 1..MetadataTTL
      /\ k \in Keys /\ OwnerOf(v) \in Owners
  BY TimesTyped DEF RenewalsCovered
<1>2. left'[k][OwnerOf(v)] >= LeaseTTL + lease[v][k] \/ <<k, OwnerOf(v)>> \in rolled'
  BY <1>1 DEF Kept, Covers
<1>3. QED
  BY <1>1, <1>2, SetupKept DEF Covers

\* A registration that does not move.
LEMMA WrittenKept ==
    ASSUME TypedInv, setup' = setup, WrittenCovered, Kept, NEW o \in Owners,
           reg'[o].pc = reg[o].pc, reg'[o].view = reg[o].view, reg'[o].rest = reg[o].rest,
           reg'[o].age = reg[o].age
    PROVE WrittenBy(o)'
<1> SUFFICES ASSUME reg[o].pc = "register", reg[o].age < MetadataTTL - Margin,
                    NEW k \in Plan(reg[o].view) \ reg[o].rest
             PROVE Covers(o, k, MetadataTTL - reg[o].age)'
  BY SetupKept DEF WrittenBy
<1>1. reg[o].view \in Views /\ TypeOK
  BY DEF TypedInv, RegistrationsOwned
<1>2. /\ k \in Keys /\ MetadataTTL - reg[o].age \in 1..MetadataTTL
      /\ Covers(o, k, MetadataTTL - reg[o].age)
  BY <1>1, TimesTyped, RegTyped DEF WrittenCovered, WrittenBy
<1>3. left'[k][o] >= MetadataTTL - reg[o].age \/ <<k, o>> \in rolled'
  BY <1>2 DEF Kept, Covers
<1>4. QED
  BY <1>3, SetupKept DEF Covers

LEMMA ForcedKept ==
    ASSUME TypedInv, TypedInv', setup' = setup, ForcedCovered, Kept, NEW o \in Owners,
           reg'[o].pc = reg[o].pc, reg'[o].view = reg[o].view, reg'[o].rest = reg[o].rest,
           reg'[o].forced # "none" =>
              LET v == reg[o].view k == reg[o].forced IN
              /\ reg'[o].forced = k
              /\ lease'[v][k] = lease[v][k] /\ (<<v, k>> \in renew' => <<v, k>> \in renew)
    PROVE ForcedBy(o)'
<1> SUFFICES ASSUME reg'[o].forced # "none" PROVE ForcedBy(o)'
  BY DEF ForcedBy
<1>0. PICK v, k : v = reg[o].view /\ k = reg[o].forced
  OBVIOUS
<1>1. /\ reg'[o].forced = k /\ lease'[v][k] = lease[v][k] /\ k # "none"
      /\ <<v, k>> \in renew' => <<v, k>> \in renew
  BY <1>0
<1>2. /\ reg[o].pc = "register" /\ k \in Claims /\ lease[v][k] > 0
      /\ k \notin reg[o].rest => Covers(o, k, LeaseTTL + lease[v][k] + Renewing(v, k))
  BY <1>0, <1>1 DEF ForcedCovered, ForcedBy
<1>3. v \in Views /\ TypeOK /\ TypeOK'
  BY <1>0, <1>2 DEF TypedInv, RegistrationsOwned
<1>4. /\ lease[v][k] \in 1..LeaseTTL /\ k \in Keys
      /\ LeaseTTL \in Nat \ {0} /\ MetadataTTL \in Nat /\ MetadataTTL >= 3 * LeaseTTL
  BY <1>2, <1>3, TimesTyped
<1>5. ASSUME k \notin reg[o].rest
      PROVE left'[k][o] >= LeaseTTL + lease[v][k] + Renewing(v, k) \/ <<k, o>> \in rolled'
  <2>1. LeaseTTL + lease[v][k] + Renewing(v, k) \in 1..MetadataTTL
    BY <1>4 DEF Renewing
  <2>2. QED
    BY <1>2, <1>4, <1>5, <2>1 DEF Kept, Covers
<1>6. Renewing(v, k)' <= Renewing(v, k) /\ Renewing(v, k)' \in Nat /\ Renewing(v, k) \in Nat
  BY <1>1, <1>4, SetupKept DEF Renewing
<1>7. left'[k][o] \in Nat
  <2>1. left' \in [Keys -> [Owners -> 0..MetadataTTL']]
    BY <1>3 DEF TypeOK
  <2>2. QED
    BY <1>4, <2>1, SetupKept
<1>8. ASSUME k \notin reg[o].rest
      PROVE left'[k][o] >= LeaseTTL + lease'[v][k] + Renewing(v, k)' \/ <<k, o>> \in rolled'
  BY <1>1, <1>4, <1>5, <1>6, <1>7, <1>8
<1>9. QED
  BY <1>0, <1>1, <1>2, <1>8, SetupKept DEF ForcedBy, Covers, Renewing

\* What a step leaves alone stays covered.
LEMMA RestKept ==
    ASSUME CoverInv, TypedInv', setup' = setup, Kept
    PROVE /\ (\A v \in Views : valid'[v] > 0 => valid'[v] = valid[v]) => ViewsCovered'
          /\ (\A v \in Views : poll'[v] > 0 => poll'[v] = poll[v]) => PollsCovered'
          /\ (\A v \in Views, k \in Claims : lease'[v][k] > 0 =>
                  /\ lease'[v][k] = lease[v][k]
                  /\ <<v, k>> \in renewed' <=> <<v, k>> \in renewed)
               => LeasesCovered'
          /\ (\A v \in Views, k \in Claims : <<v, k>> \in renew'
                => <<v, k>> \in renew /\ lease'[v][k] = lease[v][k]) => RenewalsCovered'
          /\ \A o \in Owners :
               /\ reg'[o].pc = reg[o].pc /\ reg'[o].view = reg[o].view
               /\ reg'[o].rest = reg[o].rest /\ reg'[o].age = reg[o].age
               => WrittenBy(o)'
          /\ \A o \in Owners :
               /\ reg'[o].pc = reg[o].pc /\ reg'[o].view = reg[o].view
               /\ reg'[o].rest = reg[o].rest
               /\ reg'[o].forced # "none" =>
                    LET v == reg[o].view k == reg[o].forced IN
                    /\ reg'[o].forced = k
                    /\ lease'[v][k] = lease[v][k] /\ (<<v, k>> \in renew' => <<v, k>> \in renew)
               => ForcedBy(o)'
<1>0. TypeOK /\ TypedInv /\ ViewsCovered /\ PollsCovered /\ LeasesCovered /\ RenewalsCovered
      /\ WrittenCovered /\ ForcedCovered
  BY DEF CoverInv, TypedInv
<1>1. ASSUME \A v \in Views : valid'[v] > 0 => valid'[v] = valid[v] PROVE ViewsCovered'
  BY <1>0, <1>1, ViewKept DEF ViewsCovered
<1>2. ASSUME \A v \in Views : poll'[v] > 0 => poll'[v] = poll[v] PROVE PollsCovered'
  BY <1>0, <1>2, PollKept DEF PollsCovered
<1>3. ASSUME \A v \in Views, k \in Claims : lease'[v][k] > 0 =>
                /\ lease'[v][k] = lease[v][k]
                /\ <<v, k>> \in renewed' <=> <<v, k>> \in renewed
      PROVE LeasesCovered'
  BY <1>0, <1>3, LeaseKept DEF LeasesCovered
<1>4. ASSUME \A v \in Views, k \in Claims : <<v, k>> \in renew'
                => <<v, k>> \in renew /\ lease'[v][k] = lease[v][k]
      PROVE RenewalsCovered'
  BY <1>0, <1>4, RenewalKept DEF RenewalsCovered
<1>5. ASSUME NEW o \in Owners,
             reg'[o].pc = reg[o].pc, reg'[o].view = reg[o].view, reg'[o].rest = reg[o].rest,
             reg'[o].age = reg[o].age
      PROVE WrittenBy(o)'
  BY <1>0, <1>5, WrittenKept
<1>6. ASSUME NEW o \in Owners,
             reg'[o].pc = reg[o].pc, reg'[o].view = reg[o].view, reg'[o].rest = reg[o].rest,
             reg'[o].forced # "none" =>
                LET v == reg[o].view k == reg[o].forced IN
                /\ reg'[o].forced = k
                /\ lease'[v][k] = lease[v][k] /\ (<<v, k>> \in renew' => <<v, k>> \in renew)
      PROVE ForcedBy(o)'
  BY <1>0, <1>6, ForcedKept
<1>7. QED
  BY <1>1, <1>2, <1>3, <1>4, <1>5, <1>6

\* The registration of another owner, and one that is not registering.
LEMMA OthersKept ==
    ASSUME CoverInv, TypedInv', setup' = setup, Kept, UNCHANGED <<renew, lease>>,
           NEW o \in Owners, \A p \in Owners : p # o => reg'[p] = reg[p],
           WrittenBy(o)', ForcedBy(o)'
    PROVE WrittenCovered' /\ ForcedCovered'
BY RestKept DEF WrittenCovered, ForcedCovered

LEMMA NotRegistering ==
    ASSUME NEW o \in Owners, reg'[o].pc # "register", reg'[o].forced = "none"
    PROVE WrittenBy(o)' /\ ForcedBy(o)'
BY DEF WrittenBy, ForcedBy

LEMMA KeptAsIs == ASSUME UNCHANGED <<left, rolled>> PROVE Kept
BY DEF Kept, Covers

LEMMA BeginCovers == ASSUME CoverInv, NEW v \in Views, Begin(v) PROVE CoverInv'
<1>0. TypedInv /\ TypedInv' /\ setup' = setup /\ TypeOK /\ OwnerOf(v) \in Owners
  BY BeginTyped, SetupFacts DEF CoverInv, TypedInv
<1>1. UNCHANGED <<setup, left, base, valid, poll, renew, lease, renewed, rolled>>
  BY DEF Begin
<1>2. PICK forced \in {"none"} \cup {k \in Claims : lease[v][k] > 0} :
        LET r == [pc |-> "register", view |-> v, rest |-> Plan(v), made |-> {},
                  prior |-> Current(v), forced |-> forced, age |-> 0]
        IN r \in Regs /\ reg' = [reg EXCEPT ![OwnerOf(v)] = r]
  BY <1>0, RegAfterBegin
<1>3. /\ reg'[OwnerOf(v)].view = v /\ reg'[OwnerOf(v)].rest = Plan(v)
      /\ reg'[OwnerOf(v)].forced = forced /\ reg'[OwnerOf(v)].pc = "register"
      /\ \A p \in Owners : p # OwnerOf(v) => reg'[p] = reg[p]
  BY <1>0, <1>2 DEF TypeOK
<1>4. Kept
  BY <1>1, KeptAsIs
<1>5. PICK o \in Owners : o = OwnerOf(v)
  BY <1>0
<1>6. WrittenBy(o)'
  BY <1>0, <1>3, <1>5, SetupKept DEF WrittenBy
<1>7. ForcedBy(o)'
  <2>1. forced # "none" => forced \in Claims /\ lease[v][forced] > 0 /\ forced \in Plan(v)
    BY DEF CoverInv, LeasesCovered
  <2>2. QED
    BY <1>1, <1>3, <1>5, <2>1 DEF ForcedBy
<1>8. WrittenCovered' /\ ForcedCovered'
  BY <1>0, <1>1, <1>3, <1>4, <1>5, <1>6, <1>7, OthersKept
<1>9. QED
  BY <1>0, <1>1, <1>4, <1>8, RestKept DEF CoverInv

\* The steps of a view that leave the registrations alone.
LEMMA AloneKept ==
    ASSUME CoverInv, TypedInv', setup' = setup, Kept, UNCHANGED <<reg, renew, lease, renewed>>
    PROVE WrittenCovered' /\ ForcedCovered' /\ LeasesCovered' /\ RenewalsCovered'
BY RestKept DEF WrittenCovered, ForcedCovered

LEMMA AdmissionCovers ==
    ASSUME CoverInv, NEW v \in Views, LetIn(v) \/ TurnAway(v) PROVE CoverInv'
<1>0. TypedInv /\ TypedInv' /\ setup' = setup /\ TypeOK
  BY ViewStepTyped DEF CoverInv, TypedInv
<1>1. Kept /\ UNCHANGED <<left, rolled, reg, renew, lease, renewed>>
  BY KeptAsIs DEF LetIn, TurnAway
<1>2. CASE LetIn(v)
  <2>1. valid[v] > 0 /\ poll' = [poll EXCEPT ![v] = Wait] /\ valid' = valid
    BY <1>2 DEF LetIn, Admits, Current
  <2>2. ASSUME NEW w \in Views, poll'[w] > 0
        PROVE (\A k \in Plan(w) : Covers(OwnerOf(w), k, PollBound(w)))'
    <3>1. CASE w # v
      <4>1. poll'[w] = poll[w]
        BY <1>0, <2>1, <3>1 DEF TypeOK
      <4>2. QED
        BY <1>0, <1>1, <2>2, <4>1, PollKept DEF CoverInv
    <3>2. CASE w = v
      <4>1. poll'[v] = Wait
        BY <1>0, <2>1 DEF TypeOK
      <4>2. SUFFICES ASSUME NEW k \in Plan(v) PROVE Covers(OwnerOf(v), k, PollBound(v))'
        BY <1>0, <3>2, SetupKept
      <4>3. Covers(OwnerOf(v), k, valid[v] + Margin)
        BY <2>1 DEF CoverInv, ViewsCovered
      <4>4. /\ k \in Keys /\ OwnerOf(v) \in Owners /\ left[k][OwnerOf(v)] \in Nat
            /\ valid[v] \in Nat /\ Margin \in Nat /\ Wait \in Nat
        BY <1>0, TimesTyped
      <4>5. left[k][OwnerOf(v)] >= 1 + Margin \/ <<k, OwnerOf(v)>> \in rolled
        BY <2>1, <4>3, <4>4 DEF Covers
      <4>6. PollBound(v)' = 1 + Margin
        BY <1>0, <4>1, <4>4, SetupKept DEF PollBound
      <4>7. QED
        BY <1>0, <1>1, <4>5, <4>6, SetupKept DEF Covers
    <3>3. QED
      BY <3>1, <3>2
  <2>3. PollsCovered'
    BY <2>2 DEF PollsCovered
  <2>4. QED
    BY <1>0, <1>1, <2>1, <2>3, AloneKept, RestKept DEF CoverInv
<1>3. CASE TurnAway(v)
  <2>1. poll' = poll /\ \A w \in Views : valid'[w] > 0 => valid'[w] = valid[w]
    BY <1>0, <1>3 DEF TurnAway, TypeOK
  <2>2. QED
    BY <1>0, <1>1, <2>1, AloneKept, RestKept DEF CoverInv
<1>4. QED
  BY <1>2, <1>3

LEMMA TakeCovers ==
    ASSUME CoverInv, RenewedLive, NEW v \in Views, NEW k \in Claims, TakeLease(v, k)
    PROVE CoverInv'
<1>0. TypedInv /\ TypedInv' /\ setup' = setup /\ TypeOK
  BY ViewStepTyped DEF CoverInv, TypedInv
<1>1. /\ UNCHANGED <<setup, left, base, valid, reg, renew, renewed, rolled>> /\ Kept
      /\ poll[v] > 0 /\ k \in Plan(v) /\ lease[v][k] = 0
      /\ poll' = [poll EXCEPT ![v] = 0]
      /\ lease' = [lease EXCEPT ![v][k] = LeaseTTL]
  BY KeptAsIs DEF TakeLease
<1>2. /\ lease'[v][k] = LeaseTTL
      /\ \A w \in Views, j \in Claims : w # v \/ j # k => lease'[w][j] = lease[w][j]
  BY <1>0, <1>1 DEF TypeOK
<1>3. \A w \in Views, j \in Claims : lease[w][j] > 0 => lease'[w][j] = lease[w][j]
  BY <1>1, <1>2
<1>4. LeasesCovered'
  <2>1. ASSUME NEW w \in Views, NEW j \in Claims, lease'[w][j] > 0
        PROVE (j \in Plan(w) /\ Covers(OwnerOf(w), j, LeaseBound(w, j)))'
    <3>1. CASE w = v /\ j = k
      <4>1. /\ Covers(OwnerOf(v), k, PollBound(v)) /\ poll[v] \in Nat /\ poll[v] > 0
            /\ Margin \in Nat /\ Wait \in Nat /\ LeaseTTL \in Nat
            /\ left[k][OwnerOf(v)] \in Nat
        BY <1>0, <1>1, TimesTyped DEF CoverInv, PollsCovered
      <4>2. left[k][OwnerOf(v)] >= 1 + Margin - Wait \/ <<k, OwnerOf(v)>> \in rolled
        BY <4>1 DEF Covers, PollBound
      <4>3. <<v, k>> \notin renewed
        BY <1>1 DEF RenewedLive
      <4>4. LeaseBound(v, k)' = 1 + Margin - Wait
        BY <1>0, <1>1, <1>2, <4>1, <4>3, SetupKept DEF LeaseBound
      <4>5. QED
        BY <1>0, <1>1, <3>1, <4>2, <4>4, SetupKept DEF Covers
    <3>2. CASE w # v \/ j # k
      <4>1. lease'[w][j] = lease[w][j]
        BY <1>2, <3>2
      <4>2. QED
        BY <1>0, <1>1, <2>1, <4>1, LeaseKept DEF CoverInv
    <3>3. QED
      BY <3>1, <3>2
  <2>2. QED
    BY <2>1 DEF LeasesCovered
<1>5. RenewalsCovered'
  <2>1. \A w \in Views, j \in Claims : <<w, j>> \in renew => lease[w][j] > 0
    BY DEF CoverInv, RenewalsCovered
  <2>2. QED
    BY <1>0, <1>1, <1>3, <2>1, RestKept
<1>6. WrittenCovered'
  BY <1>0, <1>1, RestKept DEF WrittenCovered
<1>7. ForcedCovered'
  <2>1. \A o \in Owners : reg[o].forced # "none" =>
           /\ reg[o].view \in Views /\ reg[o].forced \in Claims
           /\ lease[reg[o].view][reg[o].forced] > 0
    BY DEF CoverInv, ForcedCovered, ForcedBy, TypedInv, RegistrationsOwned
  <2>2. QED
    BY <1>0, <1>1, <1>3, <2>1, RestKept DEF ForcedCovered
<1>8. \A w \in Views : poll'[w] > 0 => poll'[w] = poll[w]
  BY <1>0, <1>1 DEF TypeOK
<1>9. QED
  BY <1>0, <1>1, <1>4, <1>5, <1>6, <1>7, <1>8, RestKept DEF CoverInv

LEMMA RenewCovers ==
    ASSUME CoverInv, NEW v \in Views, NEW k \in Claims, RenewLease(v, k) PROVE CoverInv'
<1>0. TypedInv /\ TypedInv' /\ setup' = setup /\ TypeOK
  BY ViewStepTyped DEF CoverInv, TypedInv
<1>1. /\ UNCHANGED <<setup, left, base, valid, reg, poll, rolled>> /\ Kept
      /\ <<v, k>> \in renew /\ renew' = renew \ {<<v, k>>}
      /\ lease' = [lease EXCEPT ![v][k] = LeaseTTL]
      /\ renewed' = renewed \cup {<<v, k>>}
  BY KeptAsIs DEF RenewLease
<1>2. /\ lease'[v][k] = LeaseTTL
      /\ \A w \in Views, j \in Claims : w # v \/ j # k => lease'[w][j] = lease[w][j]
  BY <1>0, <1>1 DEF TypeOK
<1>3. /\ lease[v][k] > 0 /\ lease[v][k] \in Nat /\ LeaseTTL \in Nat
      /\ OwnerOf(v) \in Owners /\ k \in Keys
      /\ k \in Plan(v) /\ Covers(OwnerOf(v), k, LeaseTTL + lease[v][k])
      /\ \A o \in Owners : left[k][o] \in Nat
  BY <1>0, <1>1, TimesTyped DEF CoverInv, RenewalsCovered, LeasesCovered
<1>4. LeasesCovered'
  <2>1. ASSUME NEW w \in Views, NEW j \in Claims, lease'[w][j] > 0
        PROVE (j \in Plan(w) /\ Covers(OwnerOf(w), j, LeaseBound(w, j)))'
    <3>1. CASE w = v /\ j = k
      <4>1. left[k][OwnerOf(v)] >= LeaseTTL \/ <<k, OwnerOf(v)>> \in rolled
        BY <1>3 DEF Covers
      <4>2. LeaseBound(v, k)' = LeaseTTL
        BY <1>1, <1>2 DEF LeaseBound
      <4>3. QED
        BY <1>0, <1>1, <1>3, <3>1, <4>1, <4>2, SetupKept DEF Covers
    <3>2. CASE w # v \/ j # k
      <4>1. lease'[w][j] = lease[w][j] /\ (<<w, j>> \in renewed' <=> <<w, j>> \in renewed)
        BY <1>1, <1>2, <3>2
      <4>2. QED
        BY <1>0, <1>1, <2>1, <4>1, LeaseKept DEF CoverInv
    <3>3. QED
      BY <3>1, <3>2
  <2>2. QED
    BY <2>1 DEF LeasesCovered
<1>5. RenewalsCovered'
  BY <1>0, <1>1, <1>2, RestKept
<1>6. WrittenCovered'
  BY <1>0, <1>1, RestKept DEF WrittenCovered
<1>7. ASSUME NEW o \in Owners PROVE ForcedBy(o)'
  <2>1. CASE reg[o].view = v /\ reg[o].forced = k
    <3>1. /\ k # "none" => reg[o].pc = "register"
          /\ k # "none" /\ k \notin reg[o].rest => Covers(o, k, LeaseTTL + lease[v][k] + LeaseTTL)
      BY <1>1, <2>1 DEF CoverInv, ForcedCovered, ForcedBy, Renewing
    <3>2. <<v, k>> \notin renew'
      BY <1>1
    <3>3. ASSUME k # "none", k \notin reg[o].rest
          PROVE left[k][o] >= LeaseTTL + LeaseTTL + 0 \/ <<k, o>> \in rolled
      BY <1>3, <3>1, <3>3 DEF Covers
    <3>4. LeaseTTL > 0
      BY <1>0, TimesTyped
    <3>5. QED
      BY <1>0, <1>1, <1>2, <2>1, <3>1, <3>2, <3>3, <3>4, SetupKept DEF ForcedBy, Covers, Renewing
  <2>2. CASE ~(reg[o].view = v /\ reg[o].forced = k)
    <3>1. reg[o].forced # "none" => reg[o].view \in Views /\ reg[o].forced \in Claims
      BY DEF CoverInv, ForcedCovered, ForcedBy, TypedInv, RegistrationsOwned
    <3>2. QED
      BY <1>0, <1>1, <1>2, <2>2, <3>1, RestKept
  <2>3. QED
    BY <2>1, <2>2
<1>8. QED
  BY <1>0, <1>1, <1>4, <1>5, <1>6, <1>7, RestKept DEF CoverInv, ForcedCovered

LEMMA DropCovers ==
    ASSUME CoverInv, NEW v \in Views, NEW k \in Claims, DropLease(v, k) PROVE CoverInv'
<1>0. TypedInv /\ TypedInv' /\ setup' = setup /\ TypeOK
  BY ViewStepTyped DEF CoverInv, TypedInv
<1>1. /\ UNCHANGED <<setup, left, base, valid, poll, rolled>> /\ Kept
      /\ renew' = renew \ {<<v, k>>}
      /\ lease' = [lease EXCEPT ![v][k] = 0]
      /\ reg' = [o \in Owners |-> Orphan(reg[o], {<<v, k>>})]
      /\ renewed' = renewed \ {<<v, k>>}
  BY KeptAsIs DEF DropLease
<1>2. /\ lease'[v][k] = 0
      /\ \A w \in Views, j \in Claims : w # v \/ j # k => lease'[w][j] = lease[w][j]
  BY <1>0, <1>1 DEF TypeOK
<1>3. ASSUME NEW o \in Owners
      PROVE /\ reg'[o].pc = reg[o].pc /\ reg'[o].view = reg[o].view
            /\ reg'[o].rest = reg[o].rest /\ reg'[o].age = reg[o].age
            /\ reg'[o].forced = IF <<reg[o].view, reg[o].forced>> \in {<<v, k>>} THEN "none"
                                ELSE reg[o].forced
  <2>1. reg'[o] = Orphan(reg[o], {<<v, k>>}) /\ reg[o] \in Regs
        /\ MetadataTTL \in Nat /\ Margin \in Nat /\ MetadataTTL > Margin
    BY <1>0, <1>1, TimesTyped DEF TypeOK
  <2>2. LET r == Orphan(reg[o], {<<v, k>>}) IN
          /\ r.pc = reg[o].pc /\ r.view = reg[o].view /\ r.rest = reg[o].rest /\ r.age = reg[o].age
          /\ r.forced = IF <<reg[o].view, reg[o].forced>> \in {<<v, k>>} THEN "none"
                        ELSE reg[o].forced
    BY <2>1, RegAfterOrphan, Zenon
  <2>3. QED
    BY <2>1, <2>2
<1>4. WrittenCovered'
  BY <1>0, <1>1, <1>3, RestKept DEF WrittenCovered
<1>5. ASSUME NEW o \in Owners PROVE ForcedBy(o)'
  <2>1. reg[o].forced # "none" => reg[o].view \in Views /\ reg[o].forced \in Claims
    BY DEF CoverInv, ForcedCovered, ForcedBy, TypedInv, RegistrationsOwned
  <2>2. reg'[o].forced # "none" =>
          /\ reg'[o].forced = reg[o].forced
          /\ lease'[reg[o].view][reg[o].forced] = lease[reg[o].view][reg[o].forced]
    BY <1>2, <1>3, <2>1
  <2>3. QED
    BY <1>0, <1>1, <1>3, <2>2, RestKept
<1>6. LeasesCovered' /\ RenewalsCovered'
  BY <1>0, <1>1, <1>2, RestKept
<1>7. QED
  BY <1>0, <1>1, <1>4, <1>5, <1>6, RestKept DEF CoverInv, ForcedCovered

LEMMA KeyCovers ==
    ASSUME CoverInv, NEW o \in Owners, NEW k \in Keys,
           Register(o, k) \/ RegisterLost(o, k) \/ Rollback(o, k)
    PROVE CoverInv'
<1>0. TypedInv /\ TypedInv' /\ setup' = setup /\ TypeOK /\ RegistrationsOwned
  BY KeyStepTyped DEF CoverInv, TypedInv
<1>1. UNCHANGED <<setup, valid, poll, renew, lease, renewed>>
  BY DEF Register, RegisterLost, Rollback
<1>2. Kept
  BY <1>0, WriteKeeps, EraseKeeps, KeptAsIs DEF Register, RegisterLost, Rollback
<1>3. PICK r \in Regs : reg' = [reg EXCEPT ![o] = r]
  BY <1>0, RegAfterWrite, RegAfterRollback, RegAfterFailure DEF RegisterLost
<1>4. reg'[o] = r /\ \A p \in Owners : p # o => reg'[p] = reg[p]
  BY <1>0, <1>3 DEF TypeOK
<1>5. WrittenBy(o)' /\ ForcedBy(o)'
  <2>1. CASE Register(o, k)
    <3>1. PICK s \in Regs : /\ reg' = [reg EXCEPT ![o] = s]
                            /\ s.pc = reg[o].pc /\ s.view = reg[o].view
                            /\ s.rest = reg[o].rest \ {k} /\ s.forced = reg[o].forced
                            /\ s.age = reg[o].age
      BY <1>0, <2>1, RegAfterWrite
    <3>2. reg'[o] = s
      BY <1>0, <3>1 DEF TypeOK
    <3>3. /\ reg[o].pc = "register" /\ reg[o].view \in Views
          /\ \A n \in Int : n <= MetadataTTL => Covers(o, k, n)'
      BY <1>0, <2>1, WriteKeeps DEF Register, RegistrationsOwned
    <3>4. WrittenBy(o)'
      <4> SUFFICES ASSUME reg[o].age < MetadataTTL - Margin,
                          NEW j \in Plan(reg[o].view) \ (reg[o].rest \ {k})
                   PROVE left'[j][o] >= MetadataTTL - reg[o].age \/ <<j, o>> \in rolled'
        BY <1>0, <3>1, <3>2, SetupKept DEF WrittenBy, Covers
      <4>1. MetadataTTL - reg[o].age \in 1..MetadataTTL /\ j \in Keys
        BY <1>0, <3>3, TimesTyped, RegTyped
      <4>2. CASE j = k
        BY <3>3, <4>1, <4>2 DEF Covers
      <4>3. CASE j # k
        <5>1. Covers(o, j, MetadataTTL - reg[o].age)
          BY <3>3, <4>3 DEF CoverInv, WrittenCovered, WrittenBy
        <5>2. QED
          BY <1>2, <4>1, <5>1 DEF Kept, Covers
      <4>4. QED
        BY <4>2, <4>3
    <3>5. ForcedBy(o)'
      <4> SUFFICES ASSUME reg[o].forced # "none" PROVE ForcedBy(o)'
        BY <3>1, <3>2 DEF ForcedBy
      <4>0. PICK v, c : v = reg[o].view /\ c = reg[o].forced
        OBVIOUS
      <4>1. /\ c \in Claims /\ c \in Keys /\ v \in Views /\ lease[v][c] > 0
            /\ c \notin reg[o].rest => Covers(o, c, LeaseTTL + lease[v][c] + Renewing(v, c))
        BY <1>0, <3>3, <4>0, TimesTyped DEF CoverInv, ForcedCovered, ForcedBy
      <4>2. LeaseTTL + lease[v][c] + Renewing(v, c) \in 1..MetadataTTL
        <5>1. lease[v][c] \in 1..LeaseTTL /\ LeaseTTL \in Nat \ {0} /\ MetadataTTL \in Nat
              /\ MetadataTTL >= 3 * LeaseTTL
          BY <1>0, <4>1, TimesTyped
        <5>2. Renewing(v, c) \in 0..LeaseTTL
          BY <5>1 DEF Renewing
        <5>3. QED
          BY <5>1, <5>2
      <4>3. ASSUME c \notin reg[o].rest \ {k}
            PROVE left'[c][o] >= LeaseTTL + lease[v][c] + Renewing(v, c) \/ <<c, o>> \in rolled'
        <5>1. CASE c = k
          BY <3>3, <4>2, <5>1 DEF Covers
        <5>2. CASE c # k
          BY <1>2, <4>1, <4>2, <4>3, <5>2 DEF Kept, Covers
        <5>3. QED
          BY <5>1, <5>2
      <4>4. Renewing(v, c)' = Renewing(v, c)
        BY <1>0, <1>1, SetupKept DEF Renewing
      <4>5. QED
        BY <1>0, <1>1, <3>1, <3>2, <3>3, <4>0, <4>1, <4>3, <4>4, SetupKept DEF ForcedBy, Covers
    <3>6. QED
      BY <3>4, <3>5
  <2>2. CASE RegisterLost(o, k)
    <3>1. PICK s \in Regs : reg' = [reg EXCEPT ![o] = s] /\ s.pc = "rollback" /\ s.forced = "none"
      BY <1>0, <2>2, RegAfterFailure DEF RegisterLost
    <3>2. reg'[o] = s
      BY <1>0, <3>1 DEF TypeOK
    <3>3. QED
      BY <3>1, <3>2, NotRegistering
  <2>3. CASE Rollback(o, k)
    <3>1. PICK s \in Regs : /\ reg' = [reg EXCEPT ![o] = s]
                            /\ s.pc = reg[o].pc /\ s.forced = reg[o].forced
      BY <1>0, <2>3, RegAfterRollback
    <3>2. reg'[o] = s /\ reg[o].pc = "rollback"
      BY <1>0, <2>3, <3>1 DEF TypeOK, Rollback
    <3>3. reg[o].forced = "none"
      BY <3>2 DEF CoverInv, ForcedCovered, ForcedBy
    <3>4. QED
      BY <3>1, <3>2, <3>3, NotRegistering
  <2>4. QED
    BY <2>1, <2>2, <2>3
<1>6. WrittenCovered' /\ ForcedCovered'
  BY <1>0, <1>1, <1>2, <1>4, <1>5, OthersKept
<1>7. QED
  BY <1>0, <1>1, <1>2, <1>6, RestKept DEF CoverInv

LEMMA RegisteredCovers ==
    ASSUME CoverInv, NEW o \in Owners, Registered(o) PROVE CoverInv'
<1>0. TypedInv /\ TypedInv' /\ setup' = setup /\ TypeOK /\ RegistrationsOwned
  BY EndStepTyped DEF CoverInv, TypedInv
<1>1. PICK v, c : v = reg[o].view /\ c = reg[o].forced
  OBVIOUS
<1>2. /\ UNCHANGED <<setup, left, base, poll, lease, renewed, rolled>> /\ Kept
      /\ reg[o].pc = "register" /\ reg[o].rest = {}
      /\ valid' = [valid EXCEPT ![v] = MetadataTTL - Margin - reg[o].age]
      /\ renew' = renew \cup ({v} \X (Claims \cap {c}))
      /\ reg' = [reg EXCEPT ![o] = Idle]
  BY <1>1, KeptAsIs DEF Registered
<1>3. v \in Views /\ OwnerOf(v) = o
  BY <1>0, <1>1, <1>2 DEF RegistrationsOwned
<1>4. /\ reg[o].age \in Nat /\ MetadataTTL \in Nat /\ Margin \in Nat /\ LeaseTTL \in Nat
      /\ \A k \in Keys : left[k][o] \in Nat
  BY <1>0, TimesTyped, RegTyped
<1>5. /\ valid'[v] = MetadataTTL - Margin - reg[o].age
      /\ \A w \in Views : w # v => valid'[w] = valid[w]
      /\ reg'[o] = Idle /\ \A p \in Owners : p # o => reg'[p] = reg[p]
  BY <1>0, <1>2, <1>3 DEF TypeOK
<1>6. ViewsCovered'
  <2>1. ASSUME NEW w \in Views
        PROVE (valid[w] > 0 => \A k \in Plan(w) : Covers(OwnerOf(w), k, valid[w] + Margin))'
    <3>1. CASE w # v
      BY <1>0, <1>2, <1>5, <3>1, ViewKept DEF CoverInv
    <3>2. CASE w = v
      <4> SUFFICES ASSUME valid'[v] > 0, NEW k \in Plan(v)
                   PROVE Covers(OwnerOf(v), k, valid[v] + Margin)'
        BY <1>0, <3>2, SetupKept
      <4>1. Covers(o, k, MetadataTTL - reg[o].age)
        BY <1>1, <1>2, <1>4, <1>5 DEF CoverInv, WrittenCovered, WrittenBy
      <4>2. valid'[v] + Margin = MetadataTTL - reg[o].age
        BY <1>4, <1>5
      <4>3. QED
        BY <1>0, <1>2, <1>3, <4>1, <4>2, SetupKept DEF Covers
    <3>3. QED
      BY <3>1, <3>2
  <2>2. QED
    BY <2>1 DEF ViewsCovered
<1>7. RenewalsCovered'
  <2>1. ASSUME NEW w \in Views, NEW k \in Claims
        PROVE (<<w, k>> \in renew =>
                  lease[w][k] > 0 /\ Covers(OwnerOf(w), k, LeaseTTL + lease[w][k]))'
    <3>1. CASE ~(w = v /\ k = c)
      <4>1. <<w, k>> \in renew' => <<w, k>> \in renew /\ lease'[w][k] = lease[w][k]
        BY <1>2, <3>1
      <4>2. QED
        BY <1>0, <1>2, <4>1, RenewalKept DEF CoverInv
    <3>2. CASE w = v /\ k = c
      <4>0. k # "none"
        BY RegistrationAssumption
      <4>1. lease[v][k] > 0 /\ Covers(o, k, LeaseTTL + lease[v][k] + Renewing(v, k))
        BY <1>1, <1>2, <3>2, <4>0 DEF CoverInv, ForcedCovered, ForcedBy
      <4>2. lease[v][k] \in Nat /\ k \in Keys /\ Renewing(v, k) \in Nat
        BY <1>0, <1>3, <1>4, TimesTyped DEF Renewing
      <4>3. left[k][o] >= LeaseTTL + lease[v][k] \/ <<k, o>> \in rolled
        BY <1>4, <4>1, <4>2 DEF Covers
      <4>4. QED
        BY <1>0, <1>2, <1>3, <3>2, <4>1, <4>3, SetupKept DEF Covers
    <3>3. QED
      BY <3>1, <3>2
  <2>2. QED
    BY <2>1 DEF RenewalsCovered
<1>8. WrittenBy(o)' /\ ForcedBy(o)'
  BY <1>5, NotRegistering DEF Idle
<1>9. ASSUME NEW p \in Owners, p # o PROVE WrittenBy(p)' /\ ForcedBy(p)'
  <2>1. reg'[p] = reg[p]
    BY <1>5, <1>9
  <2>2. reg[p].forced # "none" => reg[p].view # v
    BY <1>0, <1>3, <1>9 DEF CoverInv, ForcedCovered, ForcedBy, RegistrationsOwned
  <2>3. QED
    BY <1>0, <1>2, <2>1, <2>2, RestKept
<1>10. QED
  BY <1>0, <1>2, <1>6, <1>7, <1>8, <1>9, RestKept DEF CoverInv, WrittenCovered, ForcedCovered

LEMMA EndCovers ==
    ASSUME CoverInv, NEW o \in Owners, RegisterFails(o) \/ Abandon(o) \/ ResolveFails(o)
    PROVE CoverInv'
<1>0. TypedInv /\ TypedInv' /\ setup' = setup /\ TypeOK /\ RegistrationsOwned
  BY EndStepTyped DEF CoverInv, TypedInv
<1>1. UNCHANGED <<setup, left, base, poll, renew, lease, renewed, rolled>> /\ Kept
  BY KeptAsIs DEF RegisterFails, Abandon, ResolveFails
<1>2. /\ \A w \in Views : valid'[w] > 0 => valid'[w] = valid[w]
      /\ reg'[o].pc # "register" /\ reg'[o].forced = "none"
      /\ \A p \in Owners : p # o => reg'[p] = reg[p]
  <2>1. CASE RegisterFails(o)
    <3>1. PICK r \in Regs : /\ reg' = [reg EXCEPT ![o] = r]
                            /\ r.pc = "rollback" /\ r.forced = "none"
      BY <1>0, <2>1, RegAfterFailure DEF RegisterFails
    <3>2. QED
      BY <1>0, <2>1, <3>1 DEF TypeOK, RegisterFails
  <2>2. CASE Abandon(o) \/ ResolveFails(o)
    <3>1. reg' = [reg EXCEPT ![o] = Idle] /\ valid' = [valid EXCEPT ![reg[o].view] = 0]
      BY <2>2 DEF Abandon, ResolveFails
    <3>2. QED
      BY <1>0, <3>1 DEF TypeOK, Idle
  <2>3. QED
    BY <2>1, <2>2
<1>3. WrittenBy(o)' /\ ForcedBy(o)'
  BY <1>2, NotRegistering
<1>4. WrittenCovered' /\ ForcedCovered'
  BY <1>0, <1>1, <1>2, <1>3, OthersKept
<1>5. QED
  BY <1>0, <1>1, <1>2, <1>4, RestKept DEF CoverInv

\* A record loses one unit of time with each tick.
LEMMA TickAges ==
    ASSUME TypeOK, Tick, NEW p \in Owners, NEW j \in Keys, NEW n \in Int, Covers(p, j, n + 1)
    PROVE left'[j][p] >= n \/ <<j, p>> \in rolled'
<1>1. left'[j][p] = Countdown(left[j][p]) /\ rolled' = rolled
  BY DEF Tick
<1>2. left[j][p] \in Nat
  BY TimesTyped
<1>3. QED
  BY <1>1, <1>2 DEF Countdown, Covers

LEMMA TickCovers == ASSUME CoverInv, Tick PROVE CoverInv'
<1>0. TypedInv /\ TypedInv' /\ setup' = setup /\ TypeOK /\ RegistrationsOwned
  BY TickTyped DEF CoverInv, TypedInv
<1> DEFINE gone == {p \in Views \X Claims : lease[p[1]][p[2]] = 1}
<1>1. /\ \A v \in Views : valid'[v] = Countdown(valid[v]) /\ poll'[v] = Countdown(poll[v])
      /\ \A v \in Views, k \in Claims : lease'[v][k] = Countdown(lease[v][k])
      /\ \A o \in Owners : reg'[o] = Orphan(Aged(reg[o]), gone)
      /\ renew' = renew \ gone /\ renewed' = renewed \ gone
  BY DEF Tick
<1>2. \A v \in Views, k \in Claims : lease[v][k] # 1 => <<v, k>> \notin gone
  OBVIOUS
<1>3. \A v \in Views, k \in Claims : <<v, k>> \notin gone => lease[v][k] # 1
  OBVIOUS
<1> HIDE DEF gone
<1>4. ViewsCovered'
  <2> SUFFICES ASSUME NEW v \in Views, valid'[v] > 0, NEW k \in Plan(v)
               PROVE Covers(OwnerOf(v), k, valid[v] + Margin)'
    BY <1>0, SetupKept DEF ViewsCovered
  <2>1. /\ valid[v] \in Nat /\ Margin \in Nat /\ k \in Keys /\ OwnerOf(v) \in Owners
    BY <1>0, TimesTyped
  <2>2. valid[v] > 0 /\ valid[v] = valid'[v] + 1 /\ valid'[v] \in Nat
    BY <1>1, <2>1 DEF Countdown
  <2>3. Covers(OwnerOf(v), k, (valid'[v] + Margin) + 1) /\ valid'[v] + Margin \in Nat
    <3>1. Covers(OwnerOf(v), k, valid[v] + Margin)
      BY <2>2 DEF CoverInv, ViewsCovered
    <3>2. valid[v] + Margin = (valid'[v] + Margin) + 1
      BY <2>1, <2>2
    <3>3. QED
      BY <2>1, <2>2, <3>1, <3>2
  <2>4. PICK n \in Nat : n = valid'[v] + Margin
    BY <2>3
  <2>5. left'[k][OwnerOf(v)] >= n \/ <<k, OwnerOf(v)>> \in rolled'
    BY <1>0, <2>1, <2>3, <2>4, TickAges
  <2>6. QED
    BY <1>0, <2>4, <2>5, SetupKept DEF Covers
<1>5. PollsCovered'
  <2> SUFFICES ASSUME NEW v \in Views, poll'[v] > 0, NEW k \in Plan(v)
               PROVE Covers(OwnerOf(v), k, PollBound(v))'
    BY <1>0, SetupKept DEF PollsCovered
  <2>1. /\ poll[v] \in Nat /\ Margin \in Nat /\ Wait \in Nat
        /\ k \in Keys /\ OwnerOf(v) \in Owners
    BY <1>0, TimesTyped
  <2>2. poll[v] > 0 /\ poll[v] = poll'[v] + 1 /\ poll'[v] \in Nat
    BY <1>1, <2>1 DEF Countdown
  <2>3. PICK n \in Int : n = PollBound(v)' /\ PollBound(v) = n + 1
    BY <1>0, <2>1, <2>2, SetupKept DEF PollBound
  <2>4. Covers(OwnerOf(v), k, n + 1)
    BY <2>2, <2>3 DEF CoverInv, PollsCovered
  <2>5. left'[k][OwnerOf(v)] >= n \/ <<k, OwnerOf(v)>> \in rolled'
    BY <1>0, <2>1, <2>4, TickAges
  <2>6. QED
    BY <1>0, <2>3, <2>5, SetupKept DEF Covers
<1>6. ASSUME NEW v \in Views, NEW k \in Claims
      PROVE /\ lease[v][k] \in Nat /\ LeaseTTL \in Nat /\ k \in Keys /\ OwnerOf(v) \in Owners
            /\ lease'[v][k] > 0 => lease[v][k] = lease'[v][k] + 1 /\ lease'[v][k] \in Nat
            /\ lease[v][k] > 0 /\ <<v, k>> \notin gone => lease'[v][k] > 0
  <2>1. /\ lease[v][k] \in Nat /\ LeaseTTL \in Nat /\ k \in Keys /\ OwnerOf(v) \in Owners
    BY <1>0, TimesTyped
  <2>2. QED
    BY <1>1, <1>3, <2>1 DEF Countdown
<1>7. LeasesCovered'
  <2> SUFFICES ASSUME NEW v \in Views, NEW k \in Claims, lease'[v][k] > 0
               PROVE (k \in Plan(v) /\ Covers(OwnerOf(v), k, LeaseBound(v, k)))'
    BY DEF LeasesCovered
  <2>0. /\ lease[v][k] = lease'[v][k] + 1 /\ lease'[v][k] \in Nat
        /\ LeaseTTL \in Nat /\ Margin \in Nat /\ Wait \in Nat
        /\ <<v, k>> \in renewed' <=> <<v, k>> \in renewed
    BY <1>0, <1>1, <1>2, <1>6, TimesTyped
  <2>1. PICK n \in Int : n = LeaseBound(v, k)' /\ LeaseBound(v, k) = n + 1 /\ lease[v][k] > 0
    BY <1>0, <2>0, SetupKept DEF LeaseBound
  <2>2. k \in Plan(v) /\ Covers(OwnerOf(v), k, n + 1)
    BY <2>1 DEF CoverInv, LeasesCovered
  <2>3. left'[k][OwnerOf(v)] >= n \/ <<k, OwnerOf(v)>> \in rolled'
    BY <1>0, <1>6, <2>2, TickAges
  <2>4. QED
    BY <1>0, <2>1, <2>2, <2>3, SetupKept DEF Covers
<1>8. RenewalsCovered'
  <2> SUFFICES ASSUME NEW v \in Views, NEW k \in Claims, <<v, k>> \in renew'
               PROVE (lease[v][k] > 0 /\ Covers(OwnerOf(v), k, LeaseTTL + lease[v][k]))'
    BY DEF RenewalsCovered
  <2>1. <<v, k>> \in renew /\ <<v, k>> \notin gone
    BY <1>1
  <2>2. lease[v][k] > 0 /\ Covers(OwnerOf(v), k, LeaseTTL + lease[v][k])
    BY <2>1 DEF CoverInv, RenewalsCovered
  <2>3. lease'[v][k] > 0 /\ lease[v][k] = lease'[v][k] + 1 /\ lease'[v][k] \in Nat
    BY <1>6, <2>1, <2>2
  <2>4. PICK n \in Nat : n = LeaseTTL + lease'[v][k] /\ LeaseTTL + lease[v][k] = n + 1
    BY <1>6, <2>3
  <2>5. left'[k][OwnerOf(v)] >= n \/ <<k, OwnerOf(v)>> \in rolled'
    BY <1>0, <1>6, <2>2, <2>4, TickAges
  <2>6. QED
    BY <1>0, <2>3, <2>4, <2>5, SetupKept DEF Covers
<1>9. ASSUME NEW o \in Owners
      PROVE /\ reg'[o].pc = reg[o].pc /\ reg'[o].view = reg[o].view /\ reg'[o].rest = reg[o].rest
            /\ reg'[o].forced = IF <<reg[o].view, reg[o].forced>> \in gone THEN "none"
                                ELSE reg[o].forced
            /\ reg[o].pc = "register" =>
                 reg'[o].age = IF reg[o].age < MetadataTTL - Margin THEN reg[o].age + 1
                               ELSE reg[o].age
  <2>1. reg'[o] = Orphan(Aged(reg[o]), gone) /\ reg[o] \in Regs
        /\ MetadataTTL \in Nat /\ Margin \in Nat /\ MetadataTTL > Margin
    BY <1>0, <1>1, TimesTyped DEF TypeOK
  <2>2. LET r == Orphan(Aged(reg[o]), gone) IN
          /\ r.pc = reg[o].pc /\ r.view = reg[o].view /\ r.rest = reg[o].rest
          /\ r.forced = IF <<reg[o].view, reg[o].forced>> \in gone THEN "none"
                        ELSE reg[o].forced
          /\ reg[o].pc = "register" =>
               r.age = IF reg[o].age < MetadataTTL - Margin THEN reg[o].age + 1 ELSE reg[o].age
    BY <2>1, RegAfterOrphan, Zenon
  <2>3. QED
    BY <2>1, <2>2
<1>10. WrittenCovered'
  <2> SUFFICES ASSUME NEW o \in Owners, reg'[o].pc = "register",
                      reg'[o].age < MetadataTTL - Margin,
                      NEW k \in Plan(reg[o].view) \ reg[o].rest
               PROVE Covers(o, k, MetadataTTL - reg[o].age)'
    BY <1>0, <1>9, SetupKept DEF WrittenCovered, WrittenBy
  <2>1. /\ reg[o].pc = "register" /\ reg[o].age \in Nat /\ reg[o].view \in Views
        /\ MetadataTTL \in Nat /\ Margin \in Nat
    <3>1. reg[o].pc = "register" /\ reg[o].view \in Views
      BY <1>0, <1>9 DEF RegistrationsOwned
    <3>2. reg[o].age \in 0..MetadataTTL - Margin /\ MetadataTTL \in Nat /\ Margin \in Nat
      BY <1>0, TimesTyped, RegTyped
    <3>3. QED
      BY <3>1, <3>2
  <2>2. reg[o].age < MetadataTTL - Margin /\ reg'[o].age = reg[o].age + 1
    BY <1>9, <2>1
  <2>3. PICK n \in Nat : n = MetadataTTL - reg'[o].age /\ MetadataTTL - reg[o].age = n + 1
    BY <2>1, <2>2
  <2>4. Covers(o, k, n + 1) /\ k \in Keys
    BY <1>0, <2>1, <2>2, <2>3, TimesTyped DEF CoverInv, WrittenCovered, WrittenBy
  <2>5. left'[k][o] >= n \/ <<k, o>> \in rolled'
    BY <1>0, <2>4, TickAges
  <2>6. QED
    BY <1>0, <2>3, <2>5, SetupKept DEF Covers
<1>11. ForcedCovered'
  <2> SUFFICES ASSUME NEW o \in Owners, reg'[o].forced # "none" PROVE ForcedBy(o)'
    BY DEF ForcedCovered, ForcedBy
  <2>0. PICK v, k : v = reg[o].view /\ k = reg[o].forced
    OBVIOUS
  <2>1. reg'[o].forced = k /\ k # "none" /\ <<v, k>> \notin gone
    BY <1>9, <2>0
  <2>2. /\ reg[o].pc = "register" /\ k \in Claims /\ lease[v][k] > 0 /\ v \in Views
        /\ k \notin reg[o].rest => Covers(o, k, LeaseTTL + lease[v][k] + Renewing(v, k))
    BY <1>0, <2>0, <2>1 DEF CoverInv, ForcedCovered, ForcedBy, RegistrationsOwned
  <2>3. /\ lease'[v][k] > 0 /\ lease[v][k] = lease'[v][k] + 1 /\ lease'[v][k] \in Nat
        /\ LeaseTTL \in Nat /\ k \in Keys
    BY <1>6, <2>1, <2>2
  <2>4. Renewing(v, k)' = Renewing(v, k) /\ Renewing(v, k) \in Nat
    BY <1>0, <1>1, <2>1, <2>3, SetupKept DEF Renewing
  <2>5. PICK n \in Nat : /\ n = LeaseTTL + lease'[v][k] + Renewing(v, k)
                         /\ LeaseTTL + lease[v][k] + Renewing(v, k) = n + 1
    BY <2>3, <2>4
  <2>6. k \notin reg[o].rest => left'[k][o] >= n \/ <<k, o>> \in rolled'
    BY <1>0, <2>2, <2>3, <2>5, TickAges
  <2>7. QED
    BY <1>0, <1>9, <2>0, <2>1, <2>2, <2>3, <2>4, <2>5, <2>6, SetupKept DEF ForcedBy, Covers
<1>12. QED
  BY <1>0, <1>4, <1>5, <1>7, <1>8, <1>10, <1>11 DEF CoverInv

LEMMA InitCovers == Init => CoverInv
<1> SUFFICES ASSUME Init PROVE CoverInv
  OBVIOUS
<1>1. TypedInv
  BY InitOwned
<1>2. ViewsCovered /\ PollsCovered /\ LeasesCovered /\ RenewalsCovered
  BY DEF Init, ViewsCovered, PollsCovered, LeasesCovered, RenewalsCovered
<1>3. WrittenCovered /\ ForcedCovered
  BY DEF Init, WrittenCovered, ForcedCovered, WrittenBy, ForcedBy, Idle
<1>4. QED
  BY <1>1, <1>2, <1>3 DEF CoverInv

LEMMA StepCovers == ASSUME CoverInv, RenewedLive, [Next]_vars PROVE CoverInv'
<1>1. CASE UNCHANGED vars
  <2>1. TypedInv /\ TypedInv' /\ setup' = setup
    BY StepTyped DEF CoverInv
  <2>2. Kept /\ UNCHANGED <<valid, poll, lease, renew, renewed, reg>>
    BY <1>1, KeptAsIs DEF vars
  <2>3. QED
    BY <2>1, <2>2, AloneKept, RestKept DEF CoverInv
<1>2. CASE Next
  BY <1>2, BeginCovers, AdmissionCovers, TakeCovers, RenewCovers, DropCovers, KeyCovers,
     RegisteredCovers, EndCovers, TickCovers DEF Next
<1>3. QED
  BY <1>1, <1>2

\* A lease that is renewed or taken is alive, one that ends is forgotten.
LEMMA StepRenewed == ASSUME TypeOK, RenewedLive, [Next]_vars PROVE RenewedLive'
<1>0. /\ LeaseTTL \in Nat \ {0} /\ lease \in [Views -> [Claims -> 0..LeaseTTL]]
      /\ \A v \in Views, k \in Claims : lease[v][k] \in Nat
  BY TimesTyped DEF TypeOK
<1>1. CASE UNCHANGED <<lease, renewed>>
  BY <1>1 DEF RenewedLive
<1>2. ASSUME NEW v \in Views, NEW k \in Claims, TakeLease(v, k) \/ RenewLease(v, k)
      PROVE RenewedLive'
  <2>1. lease' = [lease EXCEPT ![v][k] = LeaseTTL] /\ renewed' \subseteq renewed \cup {<<v, k>>}
    BY <1>2 DEF TakeLease, RenewLease
  <2>2. QED
    BY <1>0, <2>1 DEF RenewedLive
<1>3. ASSUME NEW v \in Views, NEW k \in Claims, DropLease(v, k) PROVE RenewedLive'
  <2>1. lease' = [lease EXCEPT ![v][k] = 0] /\ renewed' = renewed \ {<<v, k>>}
    BY <1>3 DEF DropLease
  <2>2. QED
    BY <1>0, <2>1 DEF RenewedLive
<1>4. CASE Tick
  <2>1. /\ \A v \in Views, k \in Claims : lease'[v][k] = Countdown(lease[v][k])
        /\ \A v \in Views, k \in Claims : <<v, k>> \in renewed' =>
             <<v, k>> \in renewed /\ lease[v][k] # 1
    BY <1>4 DEF Tick
  <2>2. QED
    BY <1>0, <2>1 DEF RenewedLive, Countdown
<1>5. QED
  <2>1. CASE UNCHANGED vars
    BY <1>1, <2>1 DEF vars
  <2>2. CASE \E v \in Views : Begin(v) \/ LetIn(v) \/ TurnAway(v)
    BY <1>1, <2>2 DEF Begin, LetIn, TurnAway
  <2>3. CASE \E o \in Owners, k \in Keys : Register(o, k) \/ RegisterLost(o, k) \/ Rollback(o, k)
    BY <1>1, <2>3 DEF Register, RegisterLost, Rollback
  <2>4. CASE \E o \in Owners :
               RegisterFails(o) \/ Registered(o) \/ Abandon(o) \/ ResolveFails(o)
    BY <1>1, <2>4 DEF RegisterFails, Registered, Abandon, ResolveFails
  <2>5. QED
    BY <1>2, <1>3, <1>4, <2>1, <2>2, <2>3, <2>4 DEF Next

LEMMA Covered == Spec => []CoverInv
<1>1. Init => CoverInv /\ RenewedLive
  BY InitCovers DEF Init, RenewedLive
<1>2. CoverInv /\ RenewedLive /\ [Next]_vars => (CoverInv /\ RenewedLive)'
  BY StepCovers, StepRenewed DEF CoverInv, TypedInv
<1>3. QED
  BY <1>1, <1>2, PTL DEF Spec

\* While a view admits acquisitions, each of its claims and policies stands,
\* unless a rollback took it: what it believes in ends a margin before they do,
\* however old a registration was when it ended.
THEOREM AdmissionsCovered == Spec => []AdmitMeansRegistered
<1>1. ASSUME CoverInv PROVE AdmitMeansRegistered
  <2> SUFFICES ASSUME NEW v \in Views, Admits(v), NEW k \in Plan(v)
               PROVE Stands(OwnerOf(v), k)
    BY DEF AdmitMeansRegistered
  <2>1. valid[v] > 0
    BY DEF Admits, Current
  <2>2. Covers(OwnerOf(v), k, valid[v] + Margin)
    BY <1>1, <2>1 DEF CoverInv, ViewsCovered
  <2>3. TypeOK
    BY <1>1 DEF CoverInv, TypedInv
  <2>4. valid[v] \in Nat /\ Margin \in Nat /\ left[k][OwnerOf(v)] \in Nat
    BY <2>3, TimesTyped
  <2>5. QED
    BY <2>1, <2>2, <2>4 DEF Covers, Stands
<1>2. QED
  BY <1>1, Covered, PTL

\* The claim of a lease that relies on it stands, or a rollback took it.
LEMMA FencedStand ==
    ASSUME CoverInv, NEW v \in Views, NEW k \in Claims, lease[v][k] > 0, Fenced(v, k)
    PROVE Stands(OwnerOf(v), k)
<1>1. TypeOK /\ Covers(OwnerOf(v), k, LeaseBound(v, k))
  BY DEF CoverInv, TypedInv, LeasesCovered
<1>2. /\ lease[v][k] \in Nat /\ left[k][OwnerOf(v)] \in Nat
      /\ LeaseTTL \in Nat /\ Wait \in Nat /\ Margin \in Nat
  BY <1>1, TimesTyped
<1>3. LeaseBound(v, k) \in Int /\ LeaseBound(v, k) >= 1
  BY <1>2 DEF LeaseBound, Fenced
<1>4. QED
  BY <1>1, <1>2, <1>3 DEF Covers, Stands

\* Whatever margin the times leave: no lease that was renewed is alive after its
\* claim, for the refresh its heartbeat forced lasts for three leases; no other
\* is while the margin covers the wait of its acquisition and its own age.
THEOREM ClaimsOutlastLeases == Spec => []ClaimOutlivesLease
<1>1. CoverInv => ClaimOutlivesLease
  BY FencedStand DEF ClaimOutlivesLease
<1>2. QED
  BY <1>1, Covered, PTL

\* Two leases of one credential that may rely on their claims are of one scope:
\* both claims stand, and the claim script lets no two that stand disagree.
THEOREM CredentialsHaveOneScope == Spec => []OneScopePerCredential
<1>1. ASSUME CoverInv, ClaimInv PROVE OneScopePerCredential
  <2> SUFFICES ASSUME NEW v \in Views, NEW w \in Views, NEW k \in Claims,
                      Relies(v, k), Relies(w, k)
               PROVE Want(OwnerOf(v), k) = Want(OwnerOf(w), k)
    BY DEF OneScopePerCredential
  <2>1. left[k][OwnerOf(v)] > 0 /\ left[k][OwnerOf(w)] > 0
    BY <1>1, FencedStand DEF Relies, Stands
  <2>2. OwnerOf(v) \in Owners /\ OwnerOf(w) \in Owners
    BY <1>1, SetupFacts DEF CoverInv, TypedInv
  <2>3. OwnerOf(v) \in Live(k) /\ OwnerOf(w) \in Live(k)
    BY <2>1, <2>2 DEF Live
  <2>4. QED
    BY <1>1, <2>3 DEF ClaimInv, ClaimsAgree
<1>2. QED
  BY <1>1, Covered, ClaimsKept, PTL
=============================================================================
