----------------------- MODULE ClaimedBuilders_proofs ------------------------
(***************************************************************************)
(* Proofs about ClaimedBuilders: for any workers, pieces of work, lease,   *)
(* delay and number of failures, a claim lets one worker build at a time,  *)
(* and the pool keeps the promise of Checks.                               *)
(*                                                                         *)
(* The argument: while a child runs, Nomad's lock of what it builds is     *)
(* still in its worker's name, and was renewed at most Notice ticks ago.   *)
(* Time cannot free the lock under the child, because the child is killed  *)
(* before the lease and the delay are over.                                *)
(***************************************************************************)
EXTENDS ClaimedBuilders, TLAPS

HoldsClaim(w) ==
    LET c == claim[job[w].item]
    IN  c.holder = w /\ c.age <= Notice

IInv ==
    /\ TypeOK
    /\ \A w \in Workers : Building(w) => HoldsClaim(w)

-----------------------------------------------------------------------------
\* A row that is built names a piece of work.
LEMMA JobIsRow ==
    ASSUME TypeOK, NEW w \in Workers, Building(w)
    PROVE  job[w] \in Row /\ job[w].item \in Items
BY NoneAssumption DEF TypeOK, Row, NoJob

\* No worker holds anything in the beginning.
LEMMA InitIInv == Init => IInv
<1> SUFFICES ASSUME Init PROVE IInv
    OBVIOUS
<1>1. TypeOK
    BY StageAssumption DEF Init, TypeOK, Free, Statuses, Building
<1>2. \A w \in Workers : ~Building(w)
    BY DEF Init, Building
<1> QED
    BY <1>1, <1>2 DEF IInv

\* A child that goes away leaves the others and their locks alone: a lock is
\* released only by the worker in whose name it is.
LEMMA ChildGoneKeepsIInv ==
    ASSUME IInv, NEW w \in Workers, ChildGone(w), UNCHANGED <<status, stage, connected>>,
           faults' \in Nat,
           \/ UNCHANGED claim
           \/ Building(w) /\ Release(w)
    PROVE  IInv'
<1>1. TypeOK'
    BY NoneAssumption, JobIsRow DEF IInv, TypeOK, ChildGone, Release, Free, Building, NoJob, Row
<1>2. ASSUME NEW v \in Workers, Building(v)' PROVE HoldsClaim(v)'
    <2>1. v # w /\ Building(v) /\ job'[v] = job[v]
        BY <1>2 DEF IInv, TypeOK, ChildGone, Building
    <2>2. HoldsClaim(v)
        BY <2>1 DEF IInv
    <2>3. claim'[job[v].item] = claim[job[v].item]
        <3>1. CASE UNCHANGED claim
            BY <3>1
        <3>2. CASE Building(w) /\ Release(w)
            <4>1. HoldsClaim(w)
                BY <3>2 DEF IInv
            <4>2. job[v].item # job[w].item
                BY <2>1, <2>2, <4>1 DEF HoldsClaim
            <4> QED
                BY <3>2, <4>2, <2>1, JobIsRow DEF Release, IInv, TypeOK
        <3> QED
            BY <3>1, <3>2
    <2> QED
        BY <2>1, <2>2, <2>3 DEF HoldsClaim
<1> QED
    BY <1>1, <1>2 DEF IInv

\* Time passes: a lock that can be renewed is, and one that cannot is not
\* old enough to become free as long as its child lives.
LEMMA TickKeepsIInv == IInv /\ Tick => IInv'
<1> SUFFICES ASSUME IInv, Tick PROVE IInv'
    OBVIOUS
<1> USE DEF IInv
<1>1. ASSUME NEW i \in Items
      PROVE  Later(i) \in [holder : Workers \union {NoWorker}, age : Nat]
    BY DEF TypeOK, Later, Free
<1>2. TypeOK'
    BY <1>1 DEF Tick, TypeOK, Building
<1>3. ASSUME NEW w \in Workers, Building(w)' PROVE HoldsClaim(w)'
    <2> DEFINE i == job[w].item
    <2>1. Building(w) /\ i \in Items /\ job'[w].item = i
        BY <1>3, JobIsRow DEF Tick, Building
    <2>2. HoldsClaim(w) /\ claim[i].holder = w /\ claim[i].age \in Nat
        BY <2>1 DEF HoldsClaim, TypeOK
    <2>3. claim'[i] = Later(i)
        BY <2>1 DEF Tick
    <2>4. w # NoWorker
        BY NoneAssumption
    <2>5. CASE Renewable(w)
        <3>1. Later(i) = [claim[i] EXCEPT !.age = 0]
            BY <2>5, <2>1, <2>2, <2>4 DEF Later
        <3> QED
            BY <3>1, <2>1, <2>2, <2>3, LeaseAssumption DEF HoldsClaim, TypeOK
    <2>6. CASE ~Renewable(w)
        <3>1. claim[i].age < Notice
            BY <2>1, <2>6 DEF Tick
        <3>2. ~(\E v \in Workers : claim[i].holder = v /\ job[v].item = i /\ Renewable(v))
            BY <2>2, <2>6
        <3>3. Later(i) = [claim[i] EXCEPT !.age = @ + 1]
            BY <3>1, <3>2, <2>2, <2>4, LeaseAssumption, DelayAssumption DEF Later
        <3> QED
            BY <3>1, <3>3, <2>1, <2>2, <2>3, LeaseAssumption DEF HoldsClaim, TypeOK
    <2> QED
        BY <2>5, <2>6
<1> QED
    BY <1>2, <1>3
\* What GitHub and the lost connections do is not about claims.
LEMMA OutsideKeepsIInv ==
    ASSUME IInv,
           \/ \E i \in Items : Approve(i) \/ Leave(i)
           \/ \E w \in Workers : Partition(w) \/ Heal(w)
    PROVE  IInv'
<1> USE DEF IInv, TypeOK, Building, HoldsClaim, Statuses
<1>1. ASSUME NEW i \in Items, Approve(i) PROVE IInv'
    BY <1>1 DEF Approve
<1>2. ASSUME NEW i \in Items, Leave(i) PROVE IInv'
    BY <1>2 DEF Leave
<1>3. ASSUME NEW w \in Workers, Partition(w) PROVE IInv'
    BY <1>3 DEF Partition, Fault
<1>4. ASSUME NEW w \in Workers, Heal(w) PROVE IInv'
    BY <1>4 DEF Heal
<1> QED
    BY <1>1, <1>2, <1>3, <1>4

\* A worker that gets a claim finds the lock free, so nobody holds it.
LEMMA ClaimKeepsIInv ==
    ASSUME IInv, NEW w \in Workers, Claim(w)
    PROVE  IInv'
<1>1. PICK r \in rows[w] : /\ claim[r.item].holder = NoWorker
                          /\ claim' = [claim EXCEPT ![r.item] = [holder |-> w, age |-> 0]]
                          /\ job' = [job EXCEPT ![w] = r]
    BY DEF Claim, Firsts
<1>2. r \in Row /\ r.item \in Items /\ r # NoJob
    BY <1>1, NoneAssumption DEF IInv, TypeOK, Row, NoJob
<1>3. TypeOK'
    BY <1>1, <1>2 DEF Claim, Walking, IInv, TypeOK, Building
<1>4. ASSUME NEW v \in Workers, Building(v)' PROVE HoldsClaim(v)'
    <2>1. CASE v = w
        BY <2>1, <1>1, <1>2, LeaseAssumption DEF HoldsClaim, IInv, TypeOK
    <2>2. CASE v # w
        <3>1. Building(v) /\ job'[v] = job[v] /\ job[v].item \in Items
            BY <2>2, <1>4, <1>1, JobIsRow DEF Claim, Building, IInv, TypeOK
        <3>2. HoldsClaim(v) /\ job[v].item # r.item
            BY <3>1, <1>1, NoneAssumption DEF IInv, HoldsClaim
        <3> QED
            BY <3>1, <3>2, <1>1 DEF HoldsClaim, IInv, TypeOK
    <2> QED
        BY <2>1, <2>2
<1> QED
    BY <1>3, <1>4 DEF IInv

\* Walking and reporting change no claim and no job.
LEMMA WorkKeepsIInv ==
    ASSUME IInv, NEW w \in Workers,
           List(w) \/ NextRow(w) \/ ReportStart(w) \/ ReportVerdict(w)
    PROVE  IInv'
<1>1. CASE List(w)
    BY <1>1 DEF List, Pages, Open, Listing, Buildable, BuildType, Types, Row, IInv, TypeOK, HoldsClaim, Building
<1>2. CASE NextRow(w)
    <2>1. PICK r \in rows[w] : rows' = [rows EXCEPT ![w] = @ \ {r}]
        BY <1>2 DEF NextRow, Firsts
    <2>2. faults' \in Nat
        BY <1>2 DEF NextRow, Fault, IInv, TypeOK
    <2> QED
        BY <1>2, <2>1, <2>2 DEF NextRow, Walking, IInv, TypeOK, HoldsClaim, Building
<1>3. CASE ReportStart(w)
    <2>1. status' \in [Items -> Statuses] /\ faults' \in Nat
        BY <1>3, JobIsRow DEF ReportStart, Announced, Fault, Building, IInv, TypeOK, Row, Types, Statuses
    <2> QED
        BY <1>3, <2>1 DEF ReportStart, IInv, TypeOK, HoldsClaim, Building
<1>4. CASE ReportVerdict(w)
    <2>1. status' \in [Items -> Statuses] /\ faults' \in Nat
        BY <1>4 DEF ReportVerdict, Fault, IInv, TypeOK, Statuses
    <2> QED
        BY <1>4, <2>1 DEF ReportVerdict, IInv, TypeOK, HoldsClaim, Building
<1> QED
    BY <1>1, <1>2, <1>3, <1>4

\* A build ends in any of the ways in which it can.
LEMMA EndKeepsIInv ==
    ASSUME IInv, NEW w \in Workers,
           Exit(w) \/ GiveUp(w) \/ LoseClaim(w) \/ Crash(w)
    PROVE  IInv'
<1>1. ChildGone(w) /\ UNCHANGED <<status, stage, connected>>
    BY DEF Exit, GiveUp, LoseClaim, Crash
<1>2. faults' \in Nat
    BY DEF Exit, GiveUp, LoseClaim, Crash, Fault, IInv, TypeOK
<1>3. UNCHANGED claim \/ (Building(w) /\ Release(w))
    BY DEF Exit, GiveUp, LoseClaim, Crash, Building
<1> QED
    BY <1>1, <1>2, <1>3, ChildGoneKeepsIInv

\* IInv is inductive.
LEMMA IInvInductive == IInv /\ [Next]_vars => IInv'
<1> SUFFICES ASSUME IInv, [Next]_vars PROVE IInv'
    OBVIOUS
<1>1. CASE \E i \in Items : Approve(i) \/ Leave(i)
    BY <1>1, OutsideKeepsIInv
<1>2. CASE Tick
    BY <1>2, TickKeepsIInv
<1>3. ASSUME NEW w \in Workers, Builder(w) PROVE IInv'
    BY <1>3, ClaimKeepsIInv, WorkKeepsIInv, EndKeepsIInv DEF Builder
<1>4. ASSUME NEW w \in Workers, Partition(w) \/ Heal(w) PROVE IInv'
    BY <1>4, OutsideKeepsIInv
<1>5. ASSUME NEW w \in Workers, GiveUp(w) \/ LoseClaim(w) \/ Crash(w) PROVE IInv'
    BY <1>5, EndKeepsIInv
<1>6. CASE UNCHANGED vars
    BY <1>6 DEF vars, IInv, TypeOK, HoldsClaim, Building, Statuses
<1> QED
    BY <1>1, <1>2, <1>3, <1>4, <1>5, <1>6 DEF Next

\* IInv holds in every behaviour.
LEMMA Inductive == Spec => []IInv
<1> QED
    BY InitIInv, IInvInductive, PTL DEF Spec

\* Every variable of the claimed builders keeps to its values; a worker has a
\* job exactly while a child of it runs.
THEOREM TypeCorrect == Spec => []TypeOK
<1>1. IInv => TypeOK
    BY DEF IInv
<1> QED
    BY <1>1, Inductive, PTL

\* Two workers that build the same thing are both the holder of its lock.
LEMMA HoldersAreOne == IInv => OneBuilder
BY DEF IInv, OneBuilder, HoldsClaim

\* No two workers ever build the same check of the same commit at the same
\* time, as long as nomad var lock gives up before lease and delay are over.
THEOREM ClaimsExclude == Spec => []OneBuilder
<1> QED
    BY Inductive, HoldersAreOne, PTL

-----------------------------------------------------------------------------
(* The refinement of Checks *)

BuildersOf(i) == {w \in Workers : Building(w) /\ job[w].item = i}
Builders == [i \in Items |-> BuildersOf(i)]

\* The builders of a check are nobody or one worker, and a worker builds one
\* check.
LEMMA BuilderAlone ==
    ASSUME IInv, NEW w \in Workers, Building(w)
    PROVE  /\ job[w].item \in Items
           /\ BuildersOf(job[w].item) = {w}
           /\ \A i \in Items : i # job[w].item => w \notin BuildersOf(i)
<1>1. job[w].item \in Items
    BY JobIsRow DEF IInv
<1>2. OneBuilder
    BY HoldersAreOne
<1> QED
    BY <1>1, <1>2 DEF OneBuilder, BuildersOf

\* What changes neither a child nor its job changes no builders.
LEMMA SameBuilders ==
    ASSUME UNCHANGED job, \A w \in Workers : Building(w)' <=> Building(w)
    PROVE  UNCHANGED Builders
BY DEF Builders, BuildersOf

\* The child of one worker goes away: its check has no builder any more.
LEMMA ChildGoneStops ==
    ASSUME IInv, NEW w \in Workers, ChildGone(w), Building(w)
    PROVE  Builders' = [Builders EXCEPT ![job[w].item] = {}]
<1> DEFINE k == job[w].item
<1>1. k \in Items /\ BuildersOf(k) = {w} /\ \A i \in Items : i # k => w \notin BuildersOf(i)
    BY BuilderAlone
<1>2. ~Building(w)' /\ \A v \in Workers \ {w} : job'[v] = job[v] /\ (Building(v)' <=> Building(v))
    BY DEF IInv, TypeOK, ChildGone, Building
<1>3. ASSUME NEW i \in Items PROVE BuildersOf(i)' = IF i = k THEN {} ELSE BuildersOf(i)
    BY <1>1, <1>2 DEF BuildersOf
<1> QED
    BY <1>1, <1>3 DEF Builders

\* What a worker claims, nobody builds.
LEMMA ClaimStarts ==
    ASSUME IInv, NEW w \in Workers, Claim(w)
    PROVE  \E i \in Items : Promise!Start(w, i)
<1>1. PICK r \in rows[w] : /\ claim[r.item].holder = NoWorker
                          /\ claim' = [claim EXCEPT ![r.item] = [holder |-> w, age |-> 0]]
                          /\ job' = [job EXCEPT ![w] = r]
    BY DEF Claim, Firsts
<1> DEFINE k == r.item
<1>2. k \in Items
    BY <1>1 DEF IInv, TypeOK, Row
<1>3. ~Building(w) /\ Building(w)' /\ job'[w].item = k
    BY <1>1 DEF Claim, Walking, Building, IInv, TypeOK
<1>4. \A v \in Workers \ {w} : job'[v] = job[v] /\ (Building(v)' <=> Building(v))
    BY <1>1 DEF Claim, IInv, TypeOK, Building
<1>5. BuildersOf(k) = {}
    BY <1>1, NoneAssumption DEF BuildersOf, IInv, HoldsClaim
<1>6. \A i \in Items : w \notin BuildersOf(i)
    BY <1>3 DEF BuildersOf
<1>7. ASSUME NEW i \in Items PROVE BuildersOf(i)' = IF i = k THEN {w} ELSE BuildersOf(i)
    BY <1>3, <1>4, <1>5 DEF BuildersOf
<1>8. Builders' = [Builders EXCEPT ![k] = {w}]
    BY <1>2, <1>7 DEF Builders
<1>9. UNCHANGED status
    BY DEF Claim
<1> QED
    BY <1>2, <1>5, <1>6, <1>8, <1>9 DEF Promise!Start, Builders, BuildersOf

\* Reports come from the builder, or get lost.
LEMMA ReportsAreTheBuilders ==
    ASSUME IInv, NEW w \in Workers, ReportStart(w) \/ ReportVerdict(w)
    PROVE  (\E i \in Items : Promise!Report(w, i)) \/ UNCHANGED <<status, Builders>>
<1> DEFINE k == job[w].item
<1>1. Building(w) /\ UNCHANGED job /\ \A v \in Workers : Building(v)' <=> Building(v)
    BY DEF ReportStart, ReportVerdict, Building, IInv, TypeOK
<1>2. k \in Items /\ BuildersOf(k) = {w}
    BY <1>1, BuilderAlone
<1>3. UNCHANGED Builders
    BY <1>1, SameBuilders
<1>4. UNCHANGED status \/ \E s \in Statuses : status' = [status EXCEPT ![k] = s]
    <2>1. Announced(job[w]) \in Statuses
        BY <1>2 DEF Announced, Statuses, IInv, TypeOK
    <2> QED
        BY <2>1 DEF ReportStart, ReportVerdict, Statuses
<1> QED
    BY <1>2, <1>3, <1>4 DEF Promise!Report, Promise!Statuses, Statuses, Builders, BuildersOf

\* A build ends, or a worker without one starts anew.
LEMMA EndsAreStops ==
    ASSUME IInv, NEW w \in Workers, Exit(w) \/ GiveUp(w) \/ LoseClaim(w) \/ Crash(w)
    PROVE  (\E i \in Items : Promise!Stop(w, i)) \/ UNCHANGED <<status, Builders>>
<1>1. ChildGone(w) /\ UNCHANGED status
    BY DEF Exit, GiveUp, LoseClaim, Crash
<1>2. CASE Building(w)
    <2>1. job[w].item \in Items /\ BuildersOf(job[w].item) = {w}
        BY <1>2, BuilderAlone
    <2>2. Builders' = [Builders EXCEPT ![job[w].item] = {}]
        BY <1>1, <1>2, ChildGoneStops
    <2> QED
        BY <1>1, <2>1, <2>2 DEF Promise!Stop, Builders, BuildersOf
<1>3. CASE ~Building(w)
    <2>1. \A v \in Workers : Building(v)' <=> Building(v)
        BY <1>1, <1>3 DEF ChildGone, Building, IInv, TypeOK
    <2>2. UNCHANGED job
        BY <1>1, <1>3 DEF ChildGone, IInv, TypeOK
    <2> QED
        BY <1>1, <2>1, <2>2, SameBuilders
<1> QED
    BY <1>2, <1>3

\* Every step is a step of the promise or a stutter.
LEMMA StepRefines == IInv /\ [Next]_vars => [Promise!Next]_(Promise!vars)
<1> SUFFICES ASSUME IInv, [Next]_vars
             PROVE  Promise!Next \/ UNCHANGED <<status, Builders>>
    BY DEF Promise!vars, Builders, BuildersOf
<1>1. ASSUME NEW i \in Items, Approve(i) PROVE Promise!Require(i)
    <2>1. UNCHANGED Builders
        BY <1>1, SameBuilders DEF Approve, Building
    <2> QED
        BY <1>1, <2>1 DEF Approve, Promise!Require, Builders, BuildersOf
<1>2. CASE \/ Tick
           \/ \E i \in Items : Leave(i)
           \/ \E w \in Workers : List(w) \/ NextRow(w) \/ Partition(w) \/ Heal(w)
           \/ UNCHANGED vars
    BY <1>2, SameBuilders DEF Tick, Leave, List, NextRow, Partition, Heal, vars, Building
<1>3. ASSUME NEW w \in Workers, Claim(w) PROVE Promise!Next
    BY <1>3, ClaimStarts DEF Promise!Next
<1>4. ASSUME NEW w \in Workers, ReportStart(w) \/ ReportVerdict(w)
      PROVE  Promise!Next \/ UNCHANGED <<status, Builders>>
    BY <1>4, ReportsAreTheBuilders DEF Promise!Next
<1>5. ASSUME NEW w \in Workers, Exit(w) \/ GiveUp(w) \/ LoseClaim(w) \/ Crash(w)
      PROVE  Promise!Next \/ UNCHANGED <<status, Builders>>
    BY <1>5, EndsAreStops DEF Promise!Next
<1> QED
    BY <1>1, <1>2, <1>3, <1>4, <1>5 DEF Next, Builder, Promise!Next

\* The initial states are those of the promise.
LEMMA InitRefines == Init => Promise!Init
BY DEF Init, Promise!Init, Building

\* The claimed builders keep the promise of Checks: whatever changes the
\* status of a check is the one worker that builds it, or the pull request
\* bot's request for it.
THEOREM KeepsThePromise == Spec => KeepsPromise
<1> QED
    BY Inductive, InitRefines, StepRefines, PTL DEF Spec, KeepsPromise, Promise!Spec
=============================================================================
