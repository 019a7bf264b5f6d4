--------------------------- MODULE ClaimedBuilders ---------------------------
(***************************************************************************)
(* Builders that take pull requests by claiming them (ci/claim-builder.sh, *)
(* ci/claims.sh, ci/build-one.sh and the statuses of ci/build-loop.sh).    *)
(*                                                                         *)
(* Every round, a worker lists everything that can be built, in the order  *)
(* of list-branch-pr --all-groups, and walks the list until it can claim a *)
(* row.  A claim is a lock of Nomad, held while the build runs as a child  *)
(* of "nomad var lock" and renewed in the background; it outlives a worker *)
(* that dies until its lease lapses and the lock delay is over.  Workers   *)
(* crash, lose Nomad while they still reach GitHub, and report to GitHub   *)
(* as well as they can.                                                    *)
(*                                                                         *)
(* Nomad's side of the lock is external: time is counted in ticks since    *)
(* the last renewal.                                                       *)
(***************************************************************************)
EXTENDS Naturals, FiniteSets

CONSTANTS
    Workers,
    NoWorker,
    Items,       \* pieces of work: one commit of a pull request, for one check
    NoItem,
    Rank,        \* [Items -> Nat]: priority label first, then the oldest
    FirstStage,  \* [Items -> stage]: "unreviewed" or "trusted"
    MaxListed,   \* 75 in the code: open pull requests that a query returns
    TTL,         \* -ttl, in ticks
    Delay,       \* -delay
    Notice,      \* ticks after which nomad var lock gives up renewing and kills its child
    MaxFaults    \* bound: failures of any kind

ASSUME NoneAssumption == NoWorker \notin Workers /\ NoItem \notin Items
ASSUME RankAssumption == Rank \in [Items -> Nat]
ASSUME StageAssumption == FirstStage \in [Items -> {"unreviewed", "trusted"}]
ASSUME ListedAssumption == MaxListed \in Nat \ {0}
ASSUME LeaseAssumption == TTL \in Nat \ {0} /\ Delay \in Nat /\ Notice \in Nat

\* What CLAIM_DELAY is for: a holder that lost Nomad stops within the delay.
ASSUME DelayAssumption == Notice < TTL + Delay

ASSUME BoundAssumption == MaxFaults \in Nat

VARIABLES
    status,      \* GitHub: state of the check of each item
    stage,       \* GitHub: "unreviewed", "trusted", "approved" or "gone"
    claim,       \* Nomad: holder of each lock, ticks since it was renewed
    connected,   \* workers that reach Nomad
    pc,          \* "walking", or what the child does: "starting", "building", "reported"
    rows,        \* hashes: what the worker has listed and not yet walked past
    job,         \* the row the child builds
    faults

vars == <<status, stage, claim, connected, pc, rows, job, faults>>

Types == {"untested", "failed", "succeeded"}
Row == [item : Items, type : Types]
NoJob == [item |-> NoItem, type |-> "untested"]
Statuses == {"none", "pending", "success", "error"}
Free == [holder |-> NoWorker, age |-> 0]

Building(w) == pc[w] \in {"starting", "building", "reported"}

TypeOK ==
    /\ status \in [Items -> Statuses]
    /\ stage \in [Items -> {"unreviewed", "trusted", "approved", "gone"}]
    /\ claim \in [Items -> [holder : Workers \union {NoWorker}, age : Nat]]
    /\ connected \in SUBSET Workers
    /\ pc \in [Workers -> {"walking", "starting", "building", "reported"}]
    /\ rows \in [Workers -> SUBSET Row]
    /\ job \in [Workers -> Row \union {NoJob}]
    /\ faults \in Nat
    /\ \A w \in Workers : IF Building(w) THEN job[w] # NoJob /\ rows[w] = {}
                                         ELSE job[w] = NoJob

Init ==
    /\ status = [i \in Items |-> "none"]
    /\ stage = FirstStage
    /\ claim = [i \in Items |-> Free]
    /\ connected = Workers
    /\ pc = [w \in Workers |-> "walking"]
    /\ rows = [w \in Workers |-> {}]
    /\ job = [w \in Workers |-> NoJob]
    /\ faults = 0

Fault == faults < MaxFaults /\ faults' = faults + 1
Buildable(i) == stage[i] \in {"trusted", "approved"}

-----------------------------------------------------------------------------
(* list-branch-pr *)

\* process_single_pr
BuildType(s) ==
    CASE s = "success" -> "succeeded"
      [] s = "error" -> "failed"
      [] OTHER -> "untested"

\* QUERY's `last: 75` of those ordered by UPDATED_AT, DESC: the least recently updated of all
\* that are open, buildable or not.  Which ones these are is left open.
Open == {i \in Items : stage[i] # "gone"}
Crowded == Cardinality(Open) > MaxListed
Pages == {page \in SUBSET Open :
             Cardinality(page) = IF Crowded THEN MaxListed ELSE Cardinality(Open)}

\* Mutant: what is pending counts as being tested.
ListingWithoutPending(page) ==
    {[item |-> i, type |-> BuildType(status[i])] :
        i \in {j \in page : Buildable(j) /\ status[j] # "pending"}}

Listing(page) == {[item |-> i, type |-> BuildType(status[i])] : i \in {j \in page : Buildable(j)}}

\* The order of --all-groups: untested, failed, succeeded, each by rank.
Group(type) == CASE type = "untested" -> 1 [] type = "failed" -> 2 [] type = "succeeded" -> 3
Before(r, s) ==
    \/ Group(r.type) < Group(s.type)
    \/ Group(r.type) = Group(s.type) /\ Rank[r.item] <= Rank[s.item]
Firsts(list) == {r \in list : \A s \in list : Before(r, s)}

-----------------------------------------------------------------------------
(* GitHub *)

\* The pull request bot's verdict: the review succeeds, the check is required.
Approve(i) ==
    /\ stage[i] \in {"unreviewed", "trusted"}
    /\ stage' = [stage EXCEPT ![i] = "approved"]
    /\ status' = [status EXCEPT ![i] = "pending"]
    /\ UNCHANGED <<claim, connected, pc, rows, job, faults>>

\* Merged, closed, or a new commit replaces it.
Leave(i) ==
    /\ stage[i] # "gone"
    /\ stage' = [stage EXCEPT ![i] = "gone"]
    /\ UNCHANGED <<status, claim, connected, pc, rows, job, faults>>

-----------------------------------------------------------------------------
(* Nomad *)

\* A worker's nomad var lock can renew: it is still running the child, it
\* reaches Nomad and the lease has not lapsed.
Renewable(w) == Building(w) /\ w \in connected /\ claim[job[w].item].age < TTL

\* Mutant: the lock is free as soon as the lease lapses.
LaterUndelayed(i) ==
    CASE claim[i].holder = NoWorker -> Free
      [] \E w \in Workers : claim[i].holder = w /\ job[w].item = i /\ Renewable(w) ->
             [claim[i] EXCEPT !.age = 0]
      [] OTHER -> IF claim[i].age + 1 >= TTL THEN Free
                  ELSE [claim[i] EXCEPT !.age = @ + 1]

\* A lease lapses after TTL; the lock is free after Delay more.
Later(i) ==
    CASE claim[i].holder = NoWorker -> Free
      [] \E w \in Workers : claim[i].holder = w /\ job[w].item = i /\ Renewable(w) ->
             [claim[i] EXCEPT !.age = 0]
      [] OTHER -> IF claim[i].age + 1 >= TTL + Delay THEN Free
                  ELSE [claim[i] EXCEPT !.age = @ + 1]

\* Mutant: a child outlives its claim.
TickWithoutKill ==
    /\ claim' = [i \in Items |-> Later(i)]
    /\ UNCHANGED <<status, stage, connected, pc, rows, job, faults>>

\* Time passes, but not past the moment when a child has to be killed.
Tick ==
    /\ \A w \in Workers : Building(w) => Renewable(w) \/ claim[job[w].item].age < Notice
    /\ claim' = [i \in Items |-> Later(i)]
    /\ UNCHANGED <<status, stage, connected, pc, rows, job, faults>>

Partition(w) ==
    /\ w \in connected
    /\ Fault
    /\ connected' = connected \ {w}
    /\ UNCHANGED <<status, stage, claim, pc, rows, job>>

Heal(w) ==
    /\ w \notin connected
    /\ connected' = connected \union {w}
    /\ UNCHANGED <<status, stage, claim, pc, rows, job, faults>>

-----------------------------------------------------------------------------
(* claim-builder.sh *)

\* A round: the listing; after it the worker walks.  It comes back here when
\* nothing could be claimed (and it slept) or when a build is over.
List(w) ==
    /\ pc[w] = "walking"
    /\ rows[w] = {}
    /\ \E page \in Pages : rows' = [rows EXCEPT ![w] = Listing(page)]
    /\ UNCHANGED <<status, stage, claim, connected, pc, job, faults>>

Walking(w) == pc[w] = "walking" /\ rows[w] # {}

\* Mutant: after a build the worker walks on.
ClaimWalksOn(w) ==
    /\ Walking(w)
    /\ w \in connected
    /\ \E r \in Firsts(rows[w]) :
           /\ claim[r.item].holder = NoWorker
           /\ claim' = [claim EXCEPT ![r.item] = [holder |-> w, age |-> 0]]
           /\ job' = [job EXCEPT ![w] = r]
           /\ rows' = [rows EXCEPT ![w] = @ \ {r}]
    /\ pc' = [pc EXCEPT ![w] = "starting"]
    /\ UNCHANGED <<status, stage, connected, faults>>

\* with_claim gets the lock: the child starts, and after it the worker lists
\* again instead of walking on.
Claim(w) ==
    /\ Walking(w)
    /\ w \in connected
    /\ \E r \in Firsts(rows[w]) :
           /\ claim[r.item].holder = NoWorker
           /\ claim' = [claim EXCEPT ![r.item] = [holder |-> w, age |-> 0]]
           /\ job' = [job EXCEPT ![w] = r]
    /\ pc' = [pc EXCEPT ![w] = "starting"]
    /\ rows' = [rows EXCEPT ![w] = {}]
    /\ UNCHANGED <<status, stage, connected, faults>>

\* -early-return: somebody else holds the claim, Nomad cannot be reached, or
\* the check is no longer configured.  On to the next row.
NextRow(w) ==
    /\ Walking(w)
    /\ \E r \in Firsts(rows[w]) :
           /\ rows' = [rows EXCEPT ![w] = @ \ {r}]
           /\ \/ claim[r.item].holder # NoWorker /\ UNCHANGED faults
              \/ w \notin connected /\ UNCHANGED faults
              \/ Fault
    /\ UNCHANGED <<status, stage, claim, connected, pc, job>>

-----------------------------------------------------------------------------
(* The child: build-one.sh and build-loop.sh *)

\* What the start of a build sets the check to, by the type it was listed as.
Announced(r) ==
    CASE r.type = "untested" -> "pending"
      [] r.type = "failed" -> "error"
      [] OTHER -> status[r.item]

\* Reports are best effort.
ReportStart(w) ==
    /\ pc[w] = "starting"
    /\ pc' = [pc EXCEPT ![w] = "building"]
    /\ \/ status' = [status EXCEPT ![job[w].item] = Announced(job[w])] /\ UNCHANGED faults
       \/ Fault /\ UNCHANGED status
    /\ UNCHANGED <<stage, claim, connected, rows, job>>

\* The build succeeds, is skipped, or fails in one way or another.
ReportVerdict(w) ==
    /\ pc[w] = "building"
    /\ pc' = [pc EXCEPT ![w] = "reported"]
    /\ \/ /\ \E verdict \in {"success", "error"} :
                 status' = [status EXCEPT ![job[w].item] = verdict]
          /\ UNCHANGED faults
       \/ Fault /\ UNCHANGED status
    /\ UNCHANGED <<stage, claim, connected, rows, job>>

\* The child is gone and the worker is back in its loop.
ChildGone(w) ==
    /\ pc' = [pc EXCEPT ![w] = "walking"]
    /\ job' = [job EXCEPT ![w] = NoJob]
    /\ rows' = [rows EXCEPT ![w] = {}]

\* nomad var lock releases the lock when the child exits, if it can.
Release(w) ==
    claim' = IF Renewable(w) THEN [claim EXCEPT ![job[w].item] = Free] ELSE claim

Exit(w) ==
    /\ pc[w] = "reported"
    /\ ChildGone(w)
    /\ Release(w)
    /\ UNCHANGED <<status, stage, connected, faults>>

\* build-one.sh gives up before it gets to build-loop.sh.
GiveUp(w) ==
    /\ pc[w] = "starting"
    /\ Fault
    /\ ChildGone(w)
    /\ Release(w)
    /\ UNCHANGED <<status, stage, connected>>

\* nomad var lock notices that it has lost the lock and kills the child.
LoseClaim(w) ==
    /\ Building(w)
    /\ ~Renewable(w)
    /\ ChildGone(w)
    /\ UNCHANGED <<status, stage, claim, connected, faults>>

\* The worker dies, with what it was building, and starts anew.
Crash(w) ==
    /\ Building(w) \/ Walking(w)
    /\ Fault
    /\ ChildGone(w)
    /\ UNCHANGED <<status, stage, claim, connected>>

-----------------------------------------------------------------------------
Builder(w) ==
    \/ List(w) \/ Claim(w) \/ NextRow(w)
    \/ ReportStart(w) \/ ReportVerdict(w) \/ Exit(w)

Next ==
    \/ \E i \in Items : Approve(i) \/ Leave(i)
    \/ Tick
    \/ \E w \in Workers :
           \/ Builder(w)
           \/ Partition(w) \/ Heal(w) \/ GiveUp(w) \/ LoseClaim(w) \/ Crash(w)

Spec == Init /\ [][Next]_vars

(* Workers run, builds end (LONG_TIMEOUT), time passes, a child that has   *)
(* lost its claim is killed, and Nomad comes back.                         *)
Fairness ==
    /\ \A w \in Workers : WF_vars(Builder(w)) /\ WF_vars(Heal(w))
    /\ \A w \in Workers : WF_vars(LoseClaim(w) /\ claim[job[w].item].age >= Notice)
    /\ WF_vars(Tick)

FairSpec == Spec /\ Fairness

-----------------------------------------------------------------------------
(* Properties *)

\* A claim keeps two workers from building the same check of the same commit
\* at the same time, although a worker may crash, take its time to notice
\* that it has lost Nomad, or find a lock that a dead worker left.
OneBuilder ==
    \A v, w \in Workers : Building(v) /\ Building(w) /\ job[v].item = job[w].item => v = w

\* The pool keeps the promise of Checks: whatever changes the status of a
\* check is the one worker that builds it, or the pull request bot.
Promise == INSTANCE Checks WITH
    builders <- [i \in Items |-> {w \in Workers : Building(w) /\ job[w].item = i}]
KeepsPromise == Promise!Spec

\* The listing was overtaken: what is claimed is not what was listed.
Overtaken(w) == /\ Building(w)' /\ ~Building(w)
                /\ job'[w].type # BuildType(status[job'[w].item])

\* A check that has no verdict gets one as long as it is wanted, whatever
\* crashed while it was being built and however many claims a dead worker
\* left behind; provided that listings are not overtaken for ever, and that no more pull
\* requests are open than a listing shows.
UntestedGetsVerdict ==
    (<>[][\A w \in Workers : ~Overtaken(w)]_vars) =>
        \A i \in Items :
            (Buildable(i) /\ status[i] \in {"none", "pending"})
                ~> (~Buildable(i) \/ status[i] \in {"success", "error"} \/ Crowded)

\* ci/build-loop.sh:66-72: the start of a build sets a status only if this is
\* the first build of the check; a rebuild only changes the message.
StartKeepsVerdict ==
    [][\A w \in Workers : ReportStart(w) /\ status[job[w].item] \in {"success", "error"}
                          => status'[job[w].item] = status[job[w].item]]_vars

\* ci/README.md:15-18: broken pull requests keep being tested.
RedIsRetested ==
    \A i \in Items : (Buildable(i) /\ status[i] = "error")
                         ~> (status[i] # "error" \/ ~Buildable(i)
                             \/ \E w \in Workers : Building(w) /\ job[w].item = i)
=============================================================================
