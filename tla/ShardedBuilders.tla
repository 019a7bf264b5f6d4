---------------------------- MODULE ShardedBuilders ----------------------------
(***************************************************************************)
(* Builders that share pull requests by their hashes: the loop of          *)
(* ci/continuous-builder.sh over a batch chosen by list-branch-pr, and the *)
(* statuses of ci/build-loop.sh, set through GithubClient.                 *)
(*                                                                         *)
(* Which commits a worker takes depends on its index and on the size of    *)
(* the pool, which the operator changes in files, worker by worker, while  *)
(* the workers go on.  Nothing else keeps them apart.                      *)
(***************************************************************************)
EXTENDS GithubClient

CONSTANTS
    Rank,         \* [Items -> Nat]: priority label first, then the oldest
    Hash,         \* [Items -> Nat]
    MaxListed,    \* 75 in the code: open pull requests that a query returns
    Deployments   \* pairs of [Workers -> [size, index]], before and after a change

ASSUME RankAssumption == Rank \in [Items -> Nat] /\ Hash \in [Items -> Nat]
ASSUME ListedAssumption == MaxListed \in Nat \ {0}
ASSUME DeploymentAssumption ==
    \A d \in Deployments : d \in [{1, 2} -> [Workers -> [size : Nat \ {0}, index : Nat]]]
\* The operator numbers the workers of a pool, before a change as after it.
ASSUME PoolAssumption ==
    \A d \in Deployments : \A n \in {1, 2} : \A v, w \in Workers :
        /\ d[n][v].size = d[n][w].size
        /\ v # w => d[n][v].index # d[n][w].index

VARIABLES
    deployments,  \* fixed
    config,       \* which of the two the files of each worker describe
    listed,       \* what they described when the worker listed its batch
    open,         \* GitHub: pull requests that may be built
    pc,           \* "next", or where the worker is in its row: "queue", "start", "reported"
    type,         \* build type of the batch
    batch,        \* HASHES, from the row after the current one
    job,          \* the row being built
    told,         \* what is left of batch for the loop that announces it
    mixed         \* history: workers that met one of another pool since they listed

loopVars == <<listed, pc, type, batch, job, told, mixed>>
vars == <<clientVars, deployments, config, open, loopVars>>

Types == {"untested", "failed", "succeeded"}

TypeOK ==
    /\ ClientTypeOK
    /\ deployments \in Deployments
    /\ config \in [Workers -> {1, 2}] /\ listed \in [Workers -> {1, 2}]
    /\ open \subseteq Items
    /\ pc \in [Workers -> {"next", "queue", "start", "reported"}]
    /\ type \in [Workers -> Types]
    /\ batch \in [Workers -> SUBSET Items] /\ told \in [Workers -> SUBSET Items]
    /\ job \in [Workers -> Items \union {NoItem}]
    /\ mixed \subseteq Workers
    /\ \A w \in Workers :
           /\ told[w] \subseteq batch[w]
           /\ job[w] \notin batch[w]
           /\ pc[w] = "next" <=> job[w] = NoItem
           /\ call[w] # NoCall => job[w] # NoItem /\ call[w].item \in batch[w] \union {job[w]}

Init ==
    /\ ClientInit
    /\ deployments \in Deployments
    /\ config = [w \in Workers |-> 1] /\ listed = config
    /\ open = Items
    /\ pc = [w \in Workers |-> "next"]
    /\ type = [w \in Workers |-> "untested"]
    /\ batch = [w \in Workers |-> {}] /\ told = batch
    /\ job = [w \in Workers |-> NoItem]
    /\ mixed = {}

-----------------------------------------------------------------------------
(* list-branch-pr *)

\* Mutant: an error is not taken for a verdict, only a failure is.
BuildTypeWithoutError(i) ==
    IF ~Checked(i) THEN "untested" ELSE
    IF Latest(i).state = "success" THEN "succeeded" ELSE "untested"

\* process_single_pr
BuildType(i) ==
    IF ~Checked(i) THEN "untested" ELSE
    CASE Latest(i).state = "success" -> "succeeded"
      [] Latest(i).state = "error" -> "failed"
      [] OTHER -> "untested"

\* Mutant: every index up to the worker's own.
ProcessesUpTo(w, i) == Hash[i] % deployments[config[w]][w].size <= deployments[config[w]][w].index
should_process(w, i) == Hash[i] % deployments[config[w]][w].size = deployments[config[w]][w].index

\* QUERY's `last: 75`: the least recently updated of all that are open.  Which ones these are
\* is left open.
Crowded == Cardinality(open) > MaxListed
Pages == {page \in SUBSET open :
             Cardinality(page) = IF Crowded THEN MaxListed ELSE Cardinality(open)}

Grouped(w, t, page) == {i \in page : should_process(w, i) /\ BuildType(i) = t}

\* Mutant: rebuilding what is red comes first.
SelectionRedFirst(w, page) ==
    LET one(t) == {[type |-> t, items |-> {i}] : i \in Grouped(w, t, page)}
    IN IF Grouped(w, "failed", page) # {} THEN one("failed")
       ELSE IF Grouped(w, "untested", page) # {}
       THEN {[type |-> "untested", items |-> Grouped(w, "untested", page)]} ELSE one("succeeded")

\* What is printed: everything untested, else one failed or succeeded item at random.
Selection(w, page) ==
    LET one(t) == {[type |-> t, items |-> {i}] : i \in Grouped(w, t, page)}
    IN IF Grouped(w, "untested", page) # {}
       THEN {[type |-> "untested", items |-> Grouped(w, "untested", page)]}
       ELSE one("failed") \union one("succeeded")

Firsts(S) == {i \in S : \A j \in S : Rank[i] <= Rank[j]}

-----------------------------------------------------------------------------
(* continuous-builder.sh *)

AtWork(w) == batch[w] # {} \/ job[w] # NoItem

\* Workers at work with a batch of another pool than the one that w lists for.
Strangers(w) == {x \in Workers \ {w} : AtWork(x) /\ listed[x] # config[w]}
Meets(w) ==
    mixed' = IF Strangers(w) = {} THEN mixed \ {w} ELSE mixed \union {w} \union Strangers(w)

\* A round: get_config and list-branch-pr, then the first row.
List(w) ==
    /\ pc[w] = "next" /\ batch[w] = {}
    /\ \E page \in Pages : \E selected \in Selection(w, page) :
           /\ type' = [type EXCEPT ![w] = selected.type]
           /\ batch' = [batch EXCEPT ![w] = selected.items]
    /\ listed' = [listed EXCEPT ![w] = config[w]]
    /\ Meets(w)
    /\ UNCHANGED <<clientVars, deployments, config, open, pc, job, told>>

Between(w) == pc[w] = "next" \/ (pc[w] = "reported" /\ Idle(w))

\* Mutant: the row that is built is announced as queued, too.
NextRowToldAll(w) ==
    /\ Between(w)
    /\ \E i \in Firsts(batch[w]) :
           /\ job' = [job EXCEPT ![w] = i]
           /\ batch' = [batch EXCEPT ![w] = @ \ {i}]
           /\ told' = [told EXCEPT ![w] = batch[w]]
    /\ pc' = [pc EXCEPT ![w] = "queue"]
    /\ UNCHANGED <<clientVars, deployments, config, open, listed, type, mixed>>

\* The next row, whatever has become of it since.
NextRow(w) ==
    /\ Between(w)
    /\ \E i \in Firsts(batch[w]) :
           /\ job' = [job EXCEPT ![w] = i]
           /\ batch' = [batch EXCEPT ![w] = @ \ {i}]
           /\ told' = [told EXCEPT ![w] = batch[w] \ {i}]
    /\ pc' = [pc EXCEPT ![w] = "queue"]
    /\ UNCHANGED <<clientVars, deployments, config, open, listed, type, mixed>>

\* The .env file is gone, or pip fails.
SkipRow(w) ==
    /\ Between(w)
    /\ Fault
    /\ \E i \in Firsts(batch[w]) : batch' = [batch EXCEPT ![w] = @ \ {i}]
    /\ UNCHANGED <<statuses, call, deployments, config, open, listed, pc, type, job, told, mixed>>

-----------------------------------------------------------------------------
(* build-loop.sh *)

Says(w, text) == <<text, w>>

\* The announcement of what is queued behind this row.
Announce(w) ==
    /\ pc[w] = "queue" /\ Idle(w)
    /\ type[w] = "untested"
    /\ \E i \in Firsts(told[w]) :
           /\ SetStatus(w, i, [state |-> "pending", url |-> "", text |-> Says(w, "queued")], FALSE)
           /\ told' = [told EXCEPT ![w] = @ \ {i}]
    /\ UNCHANGED <<statuses, deployments, config, open, listed, pc, type, batch, job, mixed>>

\* "Create a status ... but only if this is the first build of this check!"
Start(w) ==
    /\ pc[w] = "queue" /\ Idle(w) /\ told[w] = {}
    /\ pc' = [pc EXCEPT ![w] = "start"]
    /\ CASE type[w] = "untested" ->
              SetStatus(w, job[w], [state |-> "pending", url |-> "", text |-> Says(w, "started")], FALSE)
         [] type[w] = "failed" ->
              SetStatus(w, job[w], [state |-> "error", url |-> "", text |-> Says(w, "rechecking")], TRUE)
         [] OTHER -> UNCHANGED <<call, faults>>
    /\ UNCHANGED <<statuses, deployments, config, open, listed, type, batch, job, told, mixed>>

\* The build is over, or something before it has failed: the verdict.
Verdict(w) ==
    /\ pc[w] = "start" /\ Idle(w)
    /\ pc' = [pc EXCEPT ![w] = "reported"]
    /\ \E state \in {"success", "error"} :
           SetStatus(w, job[w], [state |-> state, url |-> "log", text |-> NoText], FALSE)
    /\ UNCHANGED <<statuses, deployments, config, open, listed, type, batch, job, told, mixed>>

\* The worker has no batch any more.
Forgets(w) ==
    /\ pc' = [pc EXCEPT ![w] = "next"]
    /\ job' = [job EXCEPT ![w] = NoItem]
    /\ batch' = [batch EXCEPT ![w] = {}] /\ told' = [told EXCEPT ![w] = {}]
    /\ type' = [type EXCEPT ![w] = "untested"]
    /\ listed' = [listed EXCEPT ![w] = 1]
    /\ mixed' = mixed \ {w}

\* The last row of the batch.
BatchDone(w) ==
    /\ pc[w] = "reported" /\ Idle(w) /\ batch[w] = {}
    /\ Forgets(w)
    /\ UNCHANGED <<clientVars, deployments, config, open>>

-----------------------------------------------------------------------------
(* Around them *)

\* Merged, closed, or a new commit replaces it.  Counted with the failures.
Leave(i) ==
    /\ i \in open
    /\ Fault
    /\ open' = open \ {i}
    /\ UNCHANGED <<statuses, call, deployments, config, loopVars>>

\* The operator rewrites worker-index and workers-pool-size of one worker.
Reconfigure(w) ==
    /\ config[w] = 1
    /\ config' = [config EXCEPT ![w] = 2]
    /\ UNCHANGED <<clientVars, deployments, open, loopVars>>

\* The worker dies with its batch and is started again.
Crash(w) ==
    /\ AtWork(w)
    /\ Fault
    /\ Returns(w)
    /\ Forgets(w)
    /\ UNCHANGED <<statuses, deployments, config, open>>

Talk(w) == Request(w) /\ UNCHANGED <<deployments, config, open, loopVars>>

Builder(w) ==
    \/ List(w) \/ NextRow(w) \/ Announce(w) \/ Start(w) \/ Verdict(w) \/ BatchDone(w)
    \/ Talk(w)

Next ==
    \/ \E w \in Workers :
           \/ Builder(w) \/ SkipRow(w) \/ Reconfigure(w) \/ Crash(w)
           \/ RequestFails(w) /\ UNCHANGED <<deployments, config, open, loopVars>>
    \/ \E i \in Items :
           \/ Leave(i)
           \/ OthersPost(i) /\ UNCHANGED <<deployments, config, open, loopVars>>

Spec == Init /\ [][Next]_vars

(* A worker runs on: its requests are answered and its builds end, because *)
(* every command it runs has a timeout.                                    *)
Fairness == \A w \in Workers : WF_vars(Builder(w))

FairSpec == Spec /\ Fairness

-----------------------------------------------------------------------------
(* Properties *)

\* Two workers have the same commit in hand only while the files of the pool were changed
\* between their listings: hashing alone keeps workers of one pool apart.
OneBuilderPerShard ==
    \A v, w \in Workers : \A i \in Items :
        v # w /\ i \in batch[v] \union {job[v]} /\ i \in batch[w] \union {job[w]}
            => listed[v] # listed[w]

\* A call about to post that has seen the latest status: all its requests were answered,
\* and nobody else sets this status meanwhile.
Undisturbed(w) ==
    call[w].stage = "post" /\ Checked(call[w].item) /\ w \notin mixed /\ call[w].whole

\* ci/build-loop.sh:38: "queued" and "started", decided from a listing that may be hours
\* old, reset a verdict only when workers of two pools were at work since.
QueuedKeepsVerdict ==
    \A w \in Workers : Undisturbed(w) /\ call[w].ask.state = "pending"
                            => Latest(call[w].item).state = "pending"

\* ci/build-loop.sh:66-72: rebuilds keep the URL of the red status, on whatever page of the
\* statuses it is, although others add to the list while it is read.
RecheckKeepsUrl ==
    \A w \in Workers : Undisturbed(w) /\ call[w].ask.text[1] = "rechecking"
                            => call[w].ask.url = Latest(call[w].item).url

\* The same status is not set twice in a row, which would eat up requests and GitHub's limit.
NothingRepeated == \A w \in Workers : Undisturbed(w) => call[w].ask # Latest(call[w].item)

Covered(i) == \E w \in Workers : should_process(w, i)
AtLimit(i) == Len(statuses[i]) = Room[i]

\* It is waiting for a verdict, a worker is configured for it, GitHub would take it, and no
\* more pull requests are open than a listing shows.
Waiting(i) == i \in open /\ BuildType(i) = "untested" /\ Covered(i) /\ ~AtLimit(i) /\ ~Crowded

\* What is untested gets a verdict, whatever crashed or was announced as queued in between
\* and however the files are being changed, as long as some worker is configured for it.
UntestedGetsVerdict == \A i \in Items : []<>~Waiting(i)
=============================================================================
