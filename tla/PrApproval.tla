----------------------------- MODULE PrApproval ------------------------------
(***************************************************************************)
(* What the bot does to one pull request: pull_state_machine, the class    *)
(* State and TRANSITIONS of ci/process-pull-request-http.py, on top of     *)
(* MetaGit_GitHub (metagit/__init__.py).                                   *)
(*                                                                         *)
(* The bot keeps no state of its own.  On every visit it replays the       *)
(* comments written since the head commit through a small state machine    *)
(* and runs the action of the state it ends in; its own comments carry the *)
(* state from one visit to the next.  Every API call is a step: users      *)
(* comment, authors push, checks finish and the reactor's add_all_open_prs *)
(* replaces the cached pull between any two of them.                       *)
(*                                                                         *)
(* Users vote and chat; only the bot writes the comments that begin with a *)
(* sha.                                                                    *)
(***************************************************************************)
EXTENDS Approvers

CONSTANTS
    Bot,          \* --bot-user
    Author,       \* who opened the pull request
    Votes,        \* votes that may be cast: records of a user and a kind
    NoCommit,
    MaxSha,       \* bound: heads of the pull request, pushed in this order
    Rules,        \* rules of perms.yml for the repository
    Paths,        \* [1..MaxSha -> SUBSET path]: files each head changes
    MaxFiles,     \* 50 in the code: above it only the admins are asked
    Tests,        \* sequence: required tests of the repository
    MaxVotes,     \* bound: comments of users
    MaxComments,  \* bound: a visit starts only below this many comments
    MaxTroubles   \* bound: failing API calls and tests, moves of the target branch

Shas == 1..MaxSha
Contexts == {"review"} \union {Tests[i] : i \in DOMAIN Tests}
States == {"STATE_INITIAL", "STATE_APPROVAL_PENDING", "STATE_TESTS_ONLY",
           "STATE_TESTS_AUTOMERGE", "STATE_MERGE_APPROVAL_PENDING"}

\* Comments: votes carry no sha; those of the bot carry the sha they are
\* about and, where the text lists them, the approvers.
VoteKinds == {"+1", "+test"}
BotKinds  == {"approval required", "testing approved", "approved", "tests OK",
              "empty", "conflicts"}

ASSUME BoundsAssumption == MaxSha \in Nat \ {0} /\ MaxTroubles \in Nat
ASSUME RulesAssumption == Rules \subseteq Rule(UNION {r.paths : r \in Rules})
ASSUME TestsAssumption ==
    LET names == {Tests[i] : i \in DOMAIN Tests}
    IN  Tests \in Seq(names) /\ "review" \notin names
ASSUME VotesAssumption == Votes \subseteq [who : Users, kind : VoteKinds] /\ Bot \notin Users

VARIABLES
    (* GitHub *)
    head,       \* head commit
    since,      \* [Shas -> Nat]: comments older than the commit's date
    comments,
    status,     \* [Shas -> [Contexts -> state]]
    mergeable,  \* "clean", "dirty" or "unknown"
    closed,
    merged,     \* commit that was merged
    (* The worker thread *)
    pc,         \* "idle", "replaying", "checking permissions" or "acting"
    pull,       \* sha of the pull fetched when the visit started
    cached,     \* head sha of the object in gh_pulls
    state,      \* class State: its name, approvers and the two lists of votes
    todo,       \* API calls that the action has yet to make
    (* History and bounds *)
    asked,      \* something outside the bot changed since a visit last started
    stirred,    \* the same, for the visit under way: when it started or since
    troubles

github == <<head, since, comments, status, mergeable, closed, merged>>
worker == <<pc, pull, cached, state, todo>>
vars   == <<github, worker, asked, stirred, troubles>>

NoVotes == <<>>
Initial == [name |-> "STATE_INITIAL", approvers |-> Pending({}),
            haveApproved |-> NoVotes, haveApproved_p2 |-> NoVotes]

-----------------------------------------------------------------------------
(* Transition.evolve *)

MayComment(st, who) == who \in Flat(st.approvers) \union {Bot} \union Admins

\* Mutant: "approved" is not recognised from the initial state.
FromPendingOnly(kind) ==
    CASE kind \in VoteKinds -> {"STATE_INITIAL", "STATE_APPROVAL_PENDING",
                                "STATE_MERGE_APPROVAL_PENDING"}
      [] kind \in {"approval required", "testing approved"} ->
             {"STATE_INITIAL", "STATE_APPROVAL_PENDING"}
      [] kind = "approved" -> {"STATE_APPROVAL_PENDING"}
      [] kind = "tests OK" -> {"STATE_TESTS_ONLY"}
      [] OTHER -> {}

\* The states a comment of each kind moves from, and the state it moves to.
From(kind) ==
    CASE kind \in VoteKinds -> {"STATE_INITIAL", "STATE_APPROVAL_PENDING",
                                "STATE_MERGE_APPROVAL_PENDING"}
      [] kind \in {"approval required", "testing approved", "approved"} ->
             {"STATE_INITIAL", "STATE_APPROVAL_PENDING"}
      [] kind = "tests OK" -> {"STATE_TESTS_ONLY"}
      [] OTHER -> {}

\* Mutant: "approved" leads where "testing approved" does.
ToTestsOnly(kind) ==
    CASE kind = "approval required" -> "STATE_APPROVAL_PENDING"
      [] kind \in {"approved", "testing approved"} -> "STATE_TESTS_ONLY"
      [] kind = "tests OK" -> "STATE_MERGE_APPROVAL_PENDING"

To(kind) ==
    CASE kind = "approval required" -> "STATE_APPROVAL_PENDING"
      [] kind = "testing approved"  -> "STATE_TESTS_ONLY"
      [] kind = "approved"          -> "STATE_TESTS_AUTOMERGE"
      [] kind = "tests OK"          -> "STATE_MERGE_APPROVAL_PENDING"

\* A vote is only recorded, whoever casts it; a comment of the bot about
\* this sha moves the state and, if it lists approvers, replaces them.
Evolve(st, c) ==
    LET vote == [u |-> c.who, what |-> c.kind]
    IN  CASE st.name \notin From(c.kind) -> st
          [] c.kind \in VoteKinds /\ st.name \in From(c.kind) ->
                 IF st.name = "STATE_MERGE_APPROVAL_PENDING"
                 THEN [st EXCEPT !.haveApproved_p2 = Append(@, vote)]
                 ELSE [st EXCEPT !.haveApproved = Append(@, vote)]
          [] OTHER ->
                 IF c.sha # pull \/ ~MayComment(st, c.who) THEN st
                 ELSE IF c.kind = "approved"
                 THEN [st EXCEPT !.name = To(c.kind)]
                 ELSE [st EXCEPT !.name = To(c.kind), !.approvers = Reparsed(c.approvers)]

\* Mutant: comments of every age are replayed.
ReplayAll ==
    LET after[n \in 0..Len(comments)] ==
            IF n = 0 THEN Initial ELSE Evolve(after[n - 1], comments[n])
    IN  after[Len(comments)]

\* pull_state_machine: the comments not older than the head commit.
Replay ==
    LET after[n \in since[pull]..Len(comments)] ==
            IF n = since[pull] THEN Initial ELSE Evolve(after[n - 1], comments[n])
    IN  after[Len(comments)]

-----------------------------------------------------------------------------
(* API calls that the actions of a state make, in order *)

SetStatus(context, value)   == [call |-> "set_status", context |-> context, value |-> value]
AddComment(kind, app)       == [call |-> "add_comment", kind |-> kind, approvers |-> app]
MergePull                   == [call |-> "merge"]
GetTest(test)               == [call |-> "get_test", context |-> test]
RestoreReview               == [call |-> "restore_review"]
AskAgain(changed, app)      == [call |-> "ask_again", changed |-> changed, approvers |-> app]
AskAgainForMerge(changed, app) ==
    [call |-> "ask_again_for_merge", changed |-> changed, approvers |-> app]
Complain(what)              == [call |-> "complain", what |-> what]

\* Mutant: description instead of state.
RequestApprovalMisnamed(app) ==
    <<SetStatus("review", "pending approval"), AddComment("approval required", app)>>

RequestApproval(app) ==
    <<SetStatus("review", "pending"), AddComment("approval required", app)>>

\* The votes applied one by one to the approvers of the state: what is left
\* of them, whether any vote counted and whether one that did was "+test".
Tally(app, votes) ==
    LET Count(t, v) == IF Counts(t.approvers, v.u)
                       THEN [approvers |-> Approve(t.approvers, v.u), changed |-> TRUE,
                             testsOnly |-> t.testsOnly \/ v.what = "+test"]
                       ELSE t
        after[n \in 0..Len(votes)] ==
            IF n = 0 THEN [approvers |-> app, changed |-> FALSE, testsOnly |-> FALSE]
            ELSE Count(after[n - 1], votes[n])
    IN  after[Len(votes)]

\* action_approval_pending; unchanged is approvers_unchanged, the approvers
\* before any vote.
ApprovalPending(app, votes) ==
    LET t == Tally(app, votes)
    IN  IF t.approvers.all
        THEN <<SetStatus("review", "success")>>
             \o [i \in DOMAIN Tests |-> SetStatus(Tests[i], "pending")]
             \o <<IF t.testsOnly THEN AddComment("testing approved", app)
                                 ELSE AddComment("approved", Approved)>>
        ELSE <<AskAgain(t.changed, t.approvers)>>

\* action_approval_required, which action_check_permissions ends with.
ApprovalRequired(app, votes) ==
    LET left == Tally(app, votes).approvers
    IN  ApprovalPending(app, votes) \o (IF left.all THEN <<>> ELSE RequestApproval(left))

\* The loop over the required tests, then what success leads to; without
\* tests ok stays False.
WhenTestsPass(call) ==
    <<RestoreReview>>
    \o (IF Tests = <<>> THEN <<>>
        ELSE [i \in DOMAIN Tests |-> GetTest(Tests[i])] \o <<call>>)

\* State.action, for every state but STATE_INITIAL.
Action(st) ==
    CASE st.name = "STATE_APPROVAL_PENDING" ->
             ApprovalPending(st.approvers, st.haveApproved)
      [] st.name = "STATE_TESTS_ONLY" -> WhenTestsPass(AddComment("tests OK", st.approvers))
      [] st.name = "STATE_TESTS_AUTOMERGE" -> WhenTestsPass(MergePull)
      [] st.name = "STATE_MERGE_APPROVAL_PENDING" ->
             LET t == Tally(st.approvers, st.haveApproved_p2)
             IN  IF t.approvers.all THEN <<MergePull>>
                 ELSE <<AskAgainForMerge(t.changed, t.approvers)>>

\* What each head asks for.  Too many files are not looked at one by one.
FileRules ==
    [s \in Shas |->
        IF Cardinality(Paths[s]) > MaxFiles THEN {[free |-> FALSE, u |-> Admins, n |-> 1]}
        ELSE {FileApprovers(Rules, p, Author) : p \in Paths[s]}]

-----------------------------------------------------------------------------
Init ==
    /\ head = 1
    /\ since = [s \in Shas |-> 0]
    /\ comments = <<>>
    /\ status = [s \in Shas |-> [c \in Contexts |-> "none"]]
    /\ mergeable = "unknown"
    /\ closed = FALSE
    /\ merged = NoCommit
    /\ pc = "idle"
    /\ pull = 1
    /\ cached = 1
    /\ state = Initial
    /\ todo = <<>>
    /\ asked = TRUE
    /\ stirred = TRUE
    /\ troubles = 0

(* GitHub: users, authors, checks *)

Outside == asked' = TRUE /\ stirred' = TRUE /\ UNCHANGED worker
Trouble == troubles < MaxTroubles /\ troubles' = troubles + 1

Vote(v) ==
    /\ ~closed
    /\ Cardinality({i \in DOMAIN comments : comments[i].kind \in VoteKinds}) < MaxVotes
    /\ comments' = Append(comments, [who |-> v.who, kind |-> v.kind, sha |-> NoCommit,
                                     approvers |-> Pending({})])
    /\ Outside
    /\ UNCHANGED <<head, since, status, mergeable, closed, merged, troubles>>

\* A new head, whose commit may be older than comments already written.
Push ==
    /\ ~closed
    /\ head < MaxSha
    /\ head' = head + 1
    /\ \E n \in 0..Len(comments) : since' = [since EXCEPT ![head'] = n]
    /\ mergeable' = "unknown"
    /\ Outside
    /\ UNCHANGED <<comments, status, closed, merged, troubles>>

\* GitHub works out in the background whether the head can be merged.
Mergeability ==
    /\ ~closed
    /\ mergeable = "unknown"
    /\ \/ mergeable' = "clean" /\ UNCHANGED troubles
       \/ mergeable' = "dirty" /\ Trouble
    /\ Outside
    /\ UNCHANGED <<head, since, comments, status, closed, merged>>

\* The target branch moves: the answer has to be worked out again.
TargetMoves ==
    /\ ~closed
    /\ mergeable # "unknown"
    /\ Trouble
    /\ mergeable' = "unknown"
    /\ Outside
    /\ UNCHANGED <<head, since, comments, status, closed, merged>>

TestFinishes(test) ==
    /\ ~closed
    /\ \/ status[head][test] # "success" /\ UNCHANGED troubles
          /\ status' = [status EXCEPT ![head][test] = "success"]
       \/ status[head][test] # "failure" /\ Trouble
          /\ status' = [status EXCEPT ![head][test] = "failure"]
    /\ Outside
    /\ UNCHANGED <<head, since, comments, mergeable, closed, merged>>

Close ==
    /\ ~closed
    /\ closed' = TRUE
    /\ Outside
    /\ UNCHANGED <<head, since, comments, status, mergeable, merged, troubles>>

\* The reactor thread: get_pulls replaces the object in gh_pulls.
RefreshCache ==
    /\ cached # head
    /\ cached' = head
    /\ UNCHANGED <<github, pc, pull, state, todo, asked, stirred, troubles>>

-----------------------------------------------------------------------------
(* The worker thread *)

EndVisit == pc' = "idle" /\ state' = Initial /\ todo' = <<>>

\* get_pull, not cached.  A closed pull request, or one whose mergeability
\* is not known yet, is left alone.
StartVisit ==
    /\ pc = "idle"
    /\ ~closed
    /\ Len(comments) < MaxComments
    /\ Paths[head] # {} => mergeable # "unknown"
    /\ pull' = head
    /\ cached' = head
    /\ asked' = FALSE
    /\ stirred' = asked
    /\ \/ /\ Paths[head] = {}
          /\ pc' = "acting"
          /\ todo' = <<Complain("empty")>>
       \/ /\ Paths[head] # {}
          /\ mergeable = "dirty"
          /\ pc' = "acting"
          /\ todo' = <<Complain("conflicts")>>
       \/ /\ Paths[head] # {}
          /\ mergeable = "clean"
          /\ pc' = "replaying"
          /\ todo' = <<>>
    /\ UNCHANGED <<github, state, troubles>>

ReplayComments ==
    /\ pc = "replaying"
    /\ state' = Replay
    /\ \/ /\ state'.name = "STATE_INITIAL"
          /\ pc' = "checking permissions"
          /\ UNCHANGED todo
       \/ /\ state'.name # "STATE_INITIAL"
          /\ pc' = "acting"
          /\ todo' = Action(state')
    /\ UNCHANGED <<github, pull, cached, asked, stirred, troubles>>

\* action_check_permissions gets the files of the pull request from GitHub:
\* those of its head at that moment.
CheckPermissionsOfFiles ==
    /\ pc = "checking permissions"
    /\ pc' = "acting"
    /\ todo' = ApprovalRequired(CheckPermissions(FileRules[head]), state.haveApproved)
    /\ UNCHANGED <<github, pull, cached, state, asked, stirred, troubles>>

\* The next API call of the action; statuses are those of the cached head.
Calling(call) == pc = "acting" /\ todo # <<>> /\ Head(todo).call = call
Review == status[cached]["review"]
OnlyThen(calls) ==
    /\ todo' = calls \o Tail(todo)
    /\ UNCHANGED <<github, pc, pull, cached, state, asked, stirred, troubles>>

CallSetStatus ==
    /\ Calling("set_status")
    /\ status' = [status EXCEPT ![cached][Head(todo).context] = Head(todo).value]
    /\ todo' = Tail(todo)
    /\ UNCHANGED <<head, since, comments, mergeable, closed, merged,
                   pc, pull, cached, state, asked, stirred, troubles>>

CallAddComment ==
    /\ Calling("add_comment")
    /\ comments' = Append(comments, [who |-> Bot, kind |-> Head(todo).kind, sha |-> pull,
                                     approvers |-> Head(todo).approvers])
    /\ todo' = Tail(todo)
    /\ UNCHANGED <<head, since, status, mergeable, closed, merged,
                   pc, pull, cached, state, asked, stirred, troubles>>

CallRestoreReview ==
    /\ Calling("restore_review")
    /\ OnlyThen(IF Review = "success" THEN <<>> ELSE <<SetStatus("review", "success")>>)

\* The first required test that has not succeeded ends the loop and the visit.
CallGetTest ==
    /\ Calling("get_test")
    /\ todo' = IF status[cached][Head(todo).context] = "success" THEN Tail(todo) ELSE <<>>
    /\ UNCHANGED <<github, pc, pull, cached, state, asked, stirred, troubles>>

\* Mutant: asks again as long as the review is not successful.
CallAskAgainAlways ==
    /\ Calling("ask_again")
    /\ OnlyThen(IF Head(todo).changed \/ Review # "success"
                THEN RequestApproval(Head(todo).approvers) ELSE <<>>)

CallAskAgain ==
    /\ Calling("ask_again")
    /\ OnlyThen(IF Head(todo).changed \/ Review \notin {"none", "pending"}
                THEN RequestApproval(Head(todo).approvers) ELSE <<>>)

CallAskAgainForMerge ==
    /\ Calling("ask_again_for_merge")
    /\ OnlyThen((IF Review = "success" THEN <<>> ELSE <<SetStatus("review", "success")>>)
                \o (IF Head(todo).changed \/ Review # "success"
                    THEN RequestApproval(Head(todo).approvers) ELSE <<>>))

CallComplain ==
    /\ Calling("complain")
    /\ OnlyThen(IF Review = Head(todo).what THEN <<>>
                ELSE <<AddComment(Head(todo).what, Pending({})),
                       SetStatus("review", Head(todo).what)>>)

\* The merge API is given no sha: GitHub merges the head of the moment, if
\* it can.
CallMerge ==
    /\ Calling("merge")
    /\ ~closed
    /\ mergeable # "dirty"
    /\ closed' = TRUE
    /\ merged' = head
    /\ EndVisit
    /\ UNCHANGED <<head, since, comments, status, mergeable,
                   pull, cached, asked, stirred, troubles>>

MergeRefused ==
    /\ Calling("merge")
    /\ closed \/ mergeable # "clean"
    /\ EndVisit
    /\ UNCHANGED <<github, pull, cached, asked, stirred, troubles>>

VisitEnds ==
    /\ pc = "acting"
    /\ todo = <<>>
    /\ EndVisit
    /\ UNCHANGED <<github, pull, cached, asked, stirred, troubles>>

\* An API call raises, before or after it has had its effect.
CallFails ==
    /\ pc # "idle"
    /\ Trouble
    /\ asked' = TRUE
    /\ EndVisit
    /\ UNCHANGED <<github, pull, cached, stirred>>

Visit ==
    \/ StartVisit \/ ReplayComments \/ CheckPermissionsOfFiles
    \/ CallSetStatus \/ CallAddComment \/ CallRestoreReview \/ CallGetTest
    \/ CallAskAgain \/ CallAskAgainForMerge \/ CallComplain
    \/ CallMerge \/ MergeRefused \/ VisitEnds

Next ==
    \/ \E v \in Votes : Vote(v)
    \/ Push \/ Mergeability \/ TargetMoves \/ Close
    \/ \E i \in DOMAIN Tests : TestFinishes(Tests[i])
    \/ RefreshCache
    \/ Visit
    \/ CallFails

Spec == Init /\ [][Next]_vars

\* The queue visits the pull request again and again (PrQueue), and API
\* calls return.
FairSpec == Spec /\ WF_vars(Visit)

-----------------------------------------------------------------------------
(* Properties *)

Comment == [who : Users \union {Bot}, kind : VoteKinds \union BotKinds,
            sha : Shas \union {NoCommit}, approvers : Value]
StatusValues == {"none", "pending", "success", "failure", "empty", "conflicts"}
Recorded == [u : Users, what : VoteKinds]
StateRecord == [name : States, approvers : Value,
                haveApproved : Seq(Recorded), haveApproved_p2 : Seq(Recorded)]
Call ==
    [call : {"set_status"}, context : Contexts, value : StatusValues]
    \union [call : {"add_comment"}, kind : BotKinds, approvers : Value]
    \union [call : {"merge", "restore_review"}]
    \union [call : {"get_test"}, context : Contexts]
    \union [call : {"ask_again", "ask_again_for_merge"}, changed : BOOLEAN, approvers : Value]
    \union [call : {"complain"}, what : {"empty", "conflicts"}]

TypeOK ==
    /\ head \in Shas /\ pull \in Shas /\ cached \in Shas
    /\ comments \in Seq(Comment)
    /\ since \in [Shas -> Nat] /\ \A s \in Shas : since[s] <= Len(comments)
    /\ status \in [Shas -> [Contexts -> StatusValues]]
    /\ mergeable \in {"clean", "dirty", "unknown"}
    /\ merged \in Shas \union {NoCommit}
    /\ pc \in {"idle", "replaying", "checking permissions", "acting"}
    /\ state \in StateRecord
    /\ todo \in Seq(Call)
    /\ asked \in BOOLEAN /\ stirred \in BOOLEAN /\ closed \in BOOLEAN
    /\ troubles \in 0..MaxTroubles

\* Users whose votes a visit of this commit replays.
Cast(sha, kinds) ==
    {comments[i].who : i \in {j \in since[sha] + 1..Len(comments) : comments[j].kind \in kinds}}

Merging == pc = "acting" /\ todo # <<>> /\ Head(todo).call = "merge"

\* The bot asks GitHub to merge only if the users who commented after the
\* head commit satisfy the rules of its files: votes that earlier visits
\* already took off the list of approvers, that came between a replay and
\* the comment it led to, or that were cast twice, are counted once each.
QuorumBeforeMerge == Merging => Agreed(FileRules[pull], Cast(pull, VoteKinds))

\* The bot announces one verdict about a commit, either "approved" or
\* "testing approved", and so resets its tests once: a later visit finds
\* the verdict before it counts votes again.
Verdicts(sha) == {i \in DOMAIN comments : /\ comments[i].sha = sha
                                          /\ comments[i].kind \in {"approved", "testing approved"}}
OneVerdict == \A s \in Shas : Cardinality(Verdicts(s)) <= 1

\* A visit that starts with nothing new since the previous one started, and
\* during which nothing happens, writes no comment, except while a merge
\* approval is pending.
QuietWhenNothingNew ==
    [][/\ Len(comments') > Len(comments)
       /\ comments'[Len(comments')].who = Bot
       => stirred \/ state.name = "STATE_MERGE_APPROVAL_PENDING"]_vars

\* A pull request whose votes say "+1" and suffice, that can be merged and
\* whose tests stay successful gets merged, whatever failed before.
Ready ==
    \/ closed
    \/ /\ mergeable = "clean"
       /\ Paths[head] # {}
       /\ Len(comments) < MaxComments
       /\ \A i \in DOMAIN Tests : status[head][Tests[i]] = "success"
       /\ Cast(head, {"+test"}) = {}
       /\ Agreed(FileRules[head], Cast(head, {"+1"}))
ReadyGetsMerged == (<>[]Ready) => <>closed

\* The request for approval says "+1 to merge" and "+test to run tests only".
VotesSayMerge == Merging => Agreed(FileRules[pull], Cast(pull, {"+1"}))
=============================================================================
