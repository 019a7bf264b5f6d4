---------------------------- MODULE PrQueue_proofs ---------------------------
(* Proofs that hold for any pull requests and any bounds: the state of the *)
(* queue is well typed, and no pull request is ever forgotten.             *)
EXTENDS PrQueue, TLAPS

\* Between two batches the worker holds nothing; it visits one of its pull
\* requests at a time, which stays unprocessed until the visit ends, and
\* what happens to that one meanwhile is not lost with the end of the visit.
\* Only a shutdown sets must_exit.
WorkerHoldsCurrent ==
    /\ worker = "waiting" => unprocessed = {}
    /\ current # NoPR => worker = "visiting"
    /\ worker = "visiting" => current \in unprocessed \ batch
    /\ worker = "visiting" /\ current \in owed => current \in hooks \union items \union dropped
    /\ mustExit => faults > 0

\* NothingForgotten is not inductive: a callback that comes during a visit
\* must be found again after unprocessed has lost the pull request.
IInv == TypeOK /\ NothingForgotten /\ WorkerHoldsCurrent

USE NoPRAssumption

\* IInv holds before anything happens.
LEMMA InitIInv == Init => IInv
<1> SUFFICES ASSUME Init PROVE IInv
  OBVIOUS
<1>1. TypeOK
  BY DEF Init, TypeOK
<1>2. NothingForgotten /\ WorkerHoldsCurrent
  BY DEF Init, NothingForgotten, WorkerHoldsCurrent
<1> QED BY <1>1, <1>2 DEF IInv

\* GitHub only adds to what is owed together with a callback.
LEMMA GitHubKeepsIInv == ASSUME IInv, GitHub PROVE IInv'
<1> USE DEF IInv, TypeOK, NothingForgotten, WorkerHoldsCurrent, queue
<1>1. ASSUME NEW pr \in PRs, Event(pr) PROVE IInv'
  BY <1>1 DEF Event
<1>2. ASSUME NEW pr \in PRs, Close(pr) PROVE IInv'
  BY <1>2 DEF Close
<1> QED BY <1>1, <1>2 DEF GitHub

\* What the reactor thread does between the worker's batches and during them.
LEMMA ReactorKeepsIInv ==
    ASSUME IInv,
           \/ \E pr \in PRs : Callback(pr)
           \/ AddAllOpenPrs
           \/ ScheduleProcessPullRequests
           \/ Restart
    PROVE  IInv'
<1> USE DEF IInv, TypeOK, NothingForgotten, WorkerHoldsCurrent, github, Enqueue
<1>1. ASSUME NEW pr \in PRs, Callback(pr) PROVE IInv'
  BY <1>1 DEF Callback
<1>2. CASE AddAllOpenPrs
  <2>1. PICK listed \in SUBSET (open \intersect Configured) :
           /\ Enqueue(listed)
           /\ UNCHANGED <<github, worker, batch, unprocessed, current, periodic,
                          mustExit, events, owed>>
    BY <1>2 DEF AddAllOpenPrs
  <2>2. faults' \in Nat /\ (faults' = faults \/ faults' > 0)
    BY <1>2 DEF AddAllOpenPrs, Fault
  <2> QED BY <2>1, <2>2
<1>3. CASE ScheduleProcessPullRequests
  BY <1>3 DEF ScheduleProcessPullRequests
<1>4. CASE Restart
  <2>1. faults' \in Nat /\ faults' > 0
    BY <1>4 DEF Restart, Fault
  <2>2. TypeOK'
    BY <1>4, <2>1 DEF Restart
  <2>3. NothingForgotten'
    BY <1>4, <2>1 DEF Restart
  <2>4. WorkerHoldsCurrent'
    BY <1>4, <2>1 DEF Restart
  <2> QED BY <2>2, <2>3, <2>4
<1> QED BY <1>1, <1>2, <1>3, <1>4

\* Steps of the worker threads.
LEMMA WorkerKeepsIInv == ASSUME IInv, Worker PROVE IInv'
<1> USE DEF IInv, TypeOK, NothingForgotten, WorkerHoldsCurrent, github
<1>1. CASE LoadPerms
  BY <1>1 DEF LoadPerms
<1>2. CASE EndOfBatch
  BY <1>2 DEF EndOfBatch, WorkerReturns
<1>3. CASE VisitDone
  BY <1>3 DEF VisitDone, EndVisit
<1>4. ASSUME NEW pr \in PRs, SkipUnconfigured(pr) PROVE IInv'
  BY <1>4 DEF SkipUnconfigured
<1>5. ASSUME NEW pr \in PRs, StartVisit(pr) PROVE IInv'
  BY <1>5 DEF StartVisit
<1> QED BY <1>1, <1>2, <1>3, <1>4, <1>5 DEF Worker

\* Failures, of one step or of the process.
LEMMA FailuresKeepIInv == ASSUME IInv, Failures PROVE IInv'
<1> USE DEF IInv, TypeOK, NothingForgotten, WorkerHoldsCurrent, github, queue, Fault
<1>1. ASSUME NEW pr \in PRs, CallbackUnhandled(pr) PROVE IInv'
  BY <1>1 DEF CallbackUnhandled
<1>2. CASE AddAllOpenPrsRaises
  <2>1. PICK listed \in SUBSET (open \intersect Configured) : Enqueue(listed)
    BY <1>2 DEF AddAllOpenPrsRaises
  <2> QED BY <1>2, <2>1 DEF AddAllOpenPrsRaises, Enqueue
<1>3. CASE SetMustExit
  BY <1>3 DEF SetMustExit
<1>4. CASE LoadPermsUnreadable
  <2>1. PICK skipped \in SUBSET unprocessed :
            /\ WorkerReturns(unprocessed \ skipped)
            /\ dropped' = (dropped \ unprocessed) \union skipped
    BY <1>4 DEF LoadPermsUnreadable
  <2> QED BY <1>4, <2>1 DEF LoadPermsUnreadable, WorkerReturns
<1>5. CASE LoadPermsRaises
  BY <1>5 DEF LoadPermsRaises, WorkerReturns
<1>6. CASE VisitAgain
  BY <1>6 DEF VisitAgain, EndVisit
<1>7. CASE VisitFails
  BY <1>7 DEF VisitFails, EndVisit
<1> QED BY <1>1, <1>2, <1>3, <1>4, <1>5, <1>6, <1>7 DEF Failures

\* IInv is inductive.
LEMMA IInvInductive == IInv /\ [Next]_vars => IInv'
<1> SUFFICES ASSUME IInv, [Next]_vars PROVE IInv'
  OBVIOUS
<1>1. CASE GitHub
  BY <1>1, GitHubKeepsIInv
<1>2. CASE \/ \E pr \in PRs : Callback(pr)
           \/ AddAllOpenPrs
           \/ ScheduleProcessPullRequests
           \/ Restart
  BY <1>2, ReactorKeepsIInv
<1>3. CASE Worker
  BY <1>3, WorkerKeepsIInv
<1>4. CASE Failures
  BY <1>4, FailuresKeepIInv
<1>5. CASE UNCHANGED vars
  BY <1>5 DEF IInv, TypeOK, NothingForgotten, WorkerHoldsCurrent, vars
<1> QED BY <1>1, <1>2, <1>3, <1>4, <1>5 DEF Next

\* IInv holds in every behaviour.
LEMMA Inductive == Spec => []IInv
BY InitIInv, IInvInductive, PTL DEF Spec

\* The queue's variables keep their types in every behaviour of process_pull_
\* requests and the reactor, whatever the number of pull requests.
THEOREM TypeCorrect == Spec => []TypeOK
<1>1. IInv => TypeOK
  BY DEF IInv
<1> QED BY <1>1, Inductive, PTL

\* Whatever the order in which callbacks, scans, visits, failures and
\* restarts follow each other, what the bot owes a pull request is in the
\* queue, with the worker or on the way, or left by a path that drops it.
THEOREM NothingIsForgotten == Spec => []NothingForgotten
<1>1. IInv => NothingForgotten
  BY DEF IInv
<1> QED BY <1>1, Inductive, PTL
=============================================================================
