------------------------------- MODULE PrQueue -------------------------------
(***************************************************************************)
(* The work queue of the pull request bot (class PrRPC of                  *)
(* ci/process-pull-request-http.py).                                       *)
(*                                                                         *)
(* The reactor thread receives GitHub's callbacks, runs the periodic       *)
(* add_all_open_prs and, every processQueueEvery seconds, hands the whole  *)
(* queue to one worker thread.  The worker visits the pull requests of its *)
(* batch one by one and returns those that must be visited again.          *)
(* The queue lives in memory only, GitHub may lose a callback, the         *)
(* configuration files are rewritten while they are read (ci/run-http.sh)  *)
(* and every API call may fail.                                            *)
(*                                                                         *)
(* What a visit does to the pull request is the subject of PrApproval.     *)
(***************************************************************************)
EXTENDS Naturals, FiniteSets

CONSTANTS
    PRs,         \* pull requests, as group/repo#num
    Configured,  \* those of a repository that perms.yml configures
    NoPR,        \* no pull request
    MaxEvents,   \* bound: things that happen to pull requests
    MaxFaults    \* bound: failures of any kind

ASSUME ConfiguredAssumption == Configured \subseteq PRs
ASSUME NoPRAssumption == NoPR \notin PRs
ASSUME BoundsAssumption == MaxEvents \in Nat /\ MaxFaults \in Nat

VARIABLES
    open,        \* GitHub: open pull requests
    hooks,       \* GitHub: callbacks sent and not yet received or lost
    items,       \* self.items
    worker,      \* "waiting" (callLater), "loading", "looping", "visiting"
    batch,       \* pull requests the worker's loop has yet to visit
    unprocessed, \* the worker's set of the same name
    current,     \* the pull request in pull_state_machine
    periodic,    \* LoopingCall(add_all_open_prs): "running" or "stopped"
    mustExit,    \* self.must_exit
    events, faults,  \* counters against the bounds
    (* History: what the queue owes, for the properties *)
    owed,        \* something happened that no completed visit has seen
    dropped      \* left the queue unvisited on one of the paths that do so

github == <<open, hooks>>
queue  == <<items, worker, batch, unprocessed, current>>
vars   == <<open, hooks, items, worker, batch, unprocessed, current, periodic,
            mustExit, events, faults, owed, dropped>>

TypeOK ==
    /\ open \subseteq PRs
    /\ hooks \subseteq PRs
    /\ items \subseteq PRs
    /\ worker \in {"waiting", "loading", "looping", "visiting"}
    /\ batch \subseteq unprocessed
    /\ unprocessed \subseteq PRs
    /\ current \in PRs \union {NoPR}
    /\ periodic \in {"running", "stopped"}
    /\ mustExit \in BOOLEAN
    /\ events \in Nat
    /\ faults \in Nat
    /\ owed \subseteq PRs
    /\ dropped \subseteq PRs

Init ==
    /\ open = PRs
    /\ hooks = {}
    /\ items = {}
    /\ worker = "waiting"
    /\ batch = {}
    /\ unprocessed = {}
    /\ current = NoPR
    /\ periodic = "running"
    /\ mustExit = FALSE
    /\ events = 0
    /\ faults = 0
    /\ owed = {}
    /\ dropped = {}

Fault == faults < MaxFaults /\ faults' = faults + 1

\* items.update / items.add: what is queued is not dropped any more.
Enqueue(S) == items' = items \union S /\ dropped' = dropped \ S

-----------------------------------------------------------------------------
(* GitHub *)

\* A pull request is opened or pushed to, commented on, or one of its
\* statuses changes: GitHub sends a callback.
Event(pr) ==
    /\ events < MaxEvents
    /\ events' = events + 1
    /\ pr \in open
    /\ hooks' = hooks \union {pr}
    /\ owed' = owed \union {pr}
    /\ UNCHANGED <<open, queue, periodic, mustExit, faults, dropped>>

Close(pr) ==
    /\ pr \in open
    /\ open' = open \ {pr}
    /\ UNCHANGED <<hooks, queue, periodic, mustExit, events, faults, owed, dropped>>

-----------------------------------------------------------------------------
(* The reactor thread *)

\* github_callback: the pull request is put in the queue, whatever its
\* repository and whatever the worker is doing.
Callback(pr) ==
    /\ pr \in hooks
    /\ hooks' = hooks \ {pr}
    /\ Enqueue({pr})
    /\ UNCHANGED <<open, worker, batch, unprocessed, current, periodic, mustExit,
                   events, faults, owed>>

\* The callback never arrives, or names a sha that is not in the cache of
\* pulls, or the cache changes size while it is being searched.
CallbackUnhandled(pr) ==
    /\ pr \in hooks
    /\ Fault
    /\ hooks' = hooks \ {pr}
    /\ dropped' = dropped \union {pr}
    /\ UNCHANGED <<open, queue, periodic, mustExit, events, owed>>

\* Mutant: get_pulls reads the first page only.
AddAllOpenPrsFirstPage ==
    /\ periodic = "running"
    /\ \E listed \in SUBSET (open \intersect Configured) :
           Cardinality(listed) <= 1 /\ Enqueue(listed)
    /\ UNCHANGED <<github, worker, batch, unprocessed, current, periodic, mustExit,
                   events, faults, owed>>

\* add_all_open_prs: the open pull requests of the repositories that could
\* be listed; none of them when perms.yml could not be parsed.
AddAllOpenPrs ==
    /\ periodic = "running"
    /\ \/ /\ Enqueue(open \intersect Configured)
          /\ UNCHANGED faults
       \/ /\ Fault
          /\ \E listed \in SUBSET (open \intersect Configured) : Enqueue(listed)
    /\ UNCHANGED <<github, worker, batch, unprocessed, current, periodic, mustExit,
                   events, owed>>

\* Any other exception (a network error that is not a GithubException, an
\* empty perms.yml) leaves the LoopingCall stopped; what was listed before
\* stays queued.
AddAllOpenPrsRaises ==
    /\ periodic = "running"
    /\ Fault
    /\ periodic' = "stopped"
    /\ \E listed \in SUBSET (open \intersect Configured) : Enqueue(listed)
    /\ UNCHANGED <<github, worker, batch, unprocessed, current, mustExit, events, owed>>

\* Mutant: the worker does not start from all it was given.
SchedulesEmptyUnprocessed ==
    /\ worker = "waiting"
    /\ ~mustExit
    /\ worker' = "loading"
    /\ batch' = items
    /\ unprocessed' = {}
    /\ items' = {}
    /\ UNCHANGED <<github, current, periodic, mustExit, events, faults, owed, dropped>>

\* schedule_process_pull_requests: the queue becomes the worker's batch.
ScheduleProcessPullRequests ==
    /\ worker = "waiting"
    /\ ~mustExit
    /\ worker' = "loading"
    /\ batch' = items
    /\ unprocessed' = items
    /\ items' = {}
    /\ UNCHANGED <<github, current, periodic, mustExit, events, faults, owed, dropped>>

SetMustExit ==
    /\ ~mustExit
    /\ Fault
    /\ mustExit' = TRUE
    /\ UNCHANGED <<github, queue, periodic, events, owed, dropped>>

\* The process ends (after a shutdown, once the worker thread has returned,
\* or at any moment) and a new one starts with an empty queue.
Restart ==
    /\ \/ mustExit /\ worker = "waiting" /\ UNCHANGED faults
       \/ Fault
    /\ items' = {}
    /\ worker' = "waiting"
    /\ batch' = {}
    /\ unprocessed' = {}
    /\ current' = NoPR
    /\ periodic' = "running"
    /\ mustExit' = FALSE
    /\ owed' = owed \union ({current} \ {NoPR})
    /\ dropped' = dropped \union items \union unprocessed
    /\ UNCHANGED <<github, events>>

-----------------------------------------------------------------------------
(* The worker thread *)

\* Mutant: what the worker returned replaces the queue.
WorkerReturnsOverwriting(returned) ==
    /\ worker' = "waiting"
    /\ items' = returned
    /\ batch' = {}
    /\ unprocessed' = {}

\* The worker is done: the reactor requeues what it returned and re-arms
\* the timer.
WorkerReturns(returned) ==
    /\ worker' = "waiting"
    /\ items' = items \union returned
    /\ batch' = {}
    /\ unprocessed' = {}

LoadPerms ==
    /\ worker = "loading"
    /\ worker' = "looping"
    /\ UNCHANGED <<github, items, batch, unprocessed, current, periodic, mustExit,
                   events, faults, owed, dropped>>

\* perms.yml cannot be read or parsed: no repository is configured, so the
\* loop skips and forgets every pull request, or those it gets to before
\* the process must exit.
LoadPermsUnreadable ==
    /\ worker = "loading"
    /\ Fault
    /\ \E skipped \in SUBSET unprocessed :
           /\ skipped = unprocessed \/ mustExit
           /\ WorkerReturns(unprocessed \ skipped)
           /\ dropped' = (dropped \ unprocessed) \union skipped
    /\ UNCHANGED <<github, current, periodic, mustExit, events, owed>>

\* load_perms raises: the errback logs it and the batch is forgotten.
LoadPermsRaises ==
    /\ worker = "loading"
    /\ Fault
    /\ WorkerReturns({})
    /\ dropped' = dropped \union unprocessed
    /\ UNCHANGED <<github, current, periodic, mustExit, events, owed>>

\* The loop ends: nothing is left to visit, or the process must exit.
EndOfBatch ==
    /\ worker = "looping"
    /\ batch = {} \/ mustExit
    /\ WorkerReturns(unprocessed)
    /\ dropped' = dropped \ unprocessed
    /\ UNCHANGED <<github, current, periodic, mustExit, events, faults, owed>>

SkipUnconfigured(pr) ==
    /\ worker = "looping"
    /\ ~mustExit
    /\ pr \in batch \ Configured
    /\ batch' = batch \ {pr}
    /\ unprocessed' = unprocessed \ {pr}
    /\ owed' = owed \ {pr}
    /\ UNCHANGED <<github, items, worker, current, periodic, mustExit, events, faults,
                   dropped>>

\* pull_state_machine fetches the pull request: the visit sees all that has
\* happened to it so far.
StartVisit(pr) ==
    /\ worker = "looping"
    /\ ~mustExit
    /\ pr \in batch \intersect Configured
    /\ worker' = "visiting"
    /\ current' = pr
    /\ batch' = batch \ {pr}
    /\ owed' = owed \ {pr}
    /\ UNCHANGED <<github, items, unprocessed, periodic, mustExit, events, faults, dropped>>

EndVisit ==
    /\ worker = "visiting"
    /\ worker' = "looping"
    /\ current' = NoPR

\* pull_state_machine returns True.
VisitDone ==
    /\ EndVisit
    /\ unprocessed' = unprocessed \ {current}
    /\ UNCHANGED <<github, items, batch, periodic, mustExit, events, faults, owed, dropped>>

\* It returns False (mergeability is not known yet) or an exception other
\* than MetaGitException is caught: the pull request stays unprocessed.
VisitAgain ==
    /\ EndVisit
    /\ Fault
    /\ owed' = owed \union {current}
    /\ UNCHANGED <<github, items, batch, unprocessed, periodic, mustExit, events, dropped>>

\* MetaGitException: "removing from list", until something adds it again.
VisitFails ==
    /\ EndVisit
    /\ Fault
    /\ unprocessed' = unprocessed \ {current}
    /\ owed' = owed \union {current}
    /\ dropped' = dropped \union {current}
    /\ UNCHANGED <<github, items, batch, periodic, mustExit, events>>

-----------------------------------------------------------------------------
GitHub == \E pr \in PRs : Event(pr) \/ Close(pr)

Worker ==
    \/ LoadPerms \/ EndOfBatch \/ VisitDone
    \/ \E pr \in PRs : SkipUnconfigured(pr) \/ StartVisit(pr)

Failures ==
    \/ \E pr \in PRs : CallbackUnhandled(pr)
    \/ AddAllOpenPrsRaises
    \/ SetMustExit
    \/ LoadPermsUnreadable \/ LoadPermsRaises
    \/ VisitAgain \/ VisitFails

Next ==
    \/ GitHub
    \/ \E pr \in PRs : Callback(pr)
    \/ AddAllOpenPrs
    \/ ScheduleProcessPullRequests
    \/ Restart
    \/ Worker
    \/ Failures

Spec == Init /\ [][Next]_vars

(* Timers fire, threads run, and what supervises the process restarts it   *)
(* after a shutdown.  Nothing is assumed of GitHub.                        *)
Fairness ==
    /\ WF_vars(AddAllOpenPrs)
    /\ WF_vars(ScheduleProcessPullRequests)
    /\ WF_vars(Worker)
    /\ WF_vars(Restart /\ mustExit)

FairSpec == Spec /\ Fairness

-----------------------------------------------------------------------------
(* Properties *)

\* What the bot still owes a pull request is on its way to the queue, in
\* the queue, or in the worker's hands, unless it left on one of the paths
\* that drop it: no callback is lost between the copy of items and the
\* requeueing of what the worker returns.  Nothing leaves that way as long
\* as nothing has failed.
NothingForgotten ==
    /\ owed \subseteq hooks \union items \union unprocessed \union dropped
    /\ faults = 0 => dropped = {}

\* As long as the periodic scan survives, every change of an open pull
\* request of a configured repository ends up seen by a completed visit,
\* whatever was lost in between.
Handled(pr) == (pr \in owed) ~> (pr \notin owed \/ pr \notin open)
HandledWhileScanning ==
    (<>[](periodic = "running")) => \A pr \in Configured : Handled(pr)

\* ci/run-http.sh:9: the periodic scan catches up with lost callbacks.
CatchesUpWithLostCallbacks == \A pr \in Configured : Handled(pr)
=============================================================================
