----------------------------- MODULE GithubClient -----------------------------
(***************************************************************************)
(* setGithubStatus of alibot_helpers/github_utilities.py, with the get and *)
(* post it is made of, as run by several processes at a time.              *)
(*                                                                         *)
(* GitHub keeps every status ever set on a commit, newest first, up to a   *)
(* limit, and hands them out in pages.  A call reads page after page until *)
(* it meets its own context, compares, and posts.  Others may post between *)
(* any two of these requests, and every request may fail.                  *)
(*                                                                         *)
(* The cache of responses is not part of the state: GitHub answers 304     *)
(* only when the page is what the cache has, with the same next page, since *)
(* a page that is full changes whenever a status is added.                 *)
(***************************************************************************)
EXTENDS Naturals, Sequences, FiniteSets

CONSTANTS
    Workers,
    Items,        \* commits, each with one check that is set here
    NoItem,
    PageSize,
    Room,         \* [Items -> Nat]: how many statuses are left of GitHub's limit
    MaxOthers,    \* [Items -> Nat], bound: statuses of other contexts
    MaxFaults     \* bound: failures of any kind (and what the callers count with them)

ASSUME ItemAssumption == NoItem \notin Items
ASSUME PageAssumption == PageSize \in Nat \ {0} /\ Room \in [Items -> Nat]
ASSUME BoundAssumption == MaxOthers \in [Items -> Nat] /\ MaxFaults \in Nat

VARIABLES
    statuses,  \* GitHub: [Items -> Seq(Status)], newest first
    call,      \* of each worker, the call of setGithubStatus that is under way
    faults

clientVars == <<statuses, call, faults>>

\* text is the description: empty, or what a worker is doing and the worker's name.
NoText == <<"">>
Texts == {NoText} \union {"queued", "started", "rechecking"} \X Workers
Ask == [state : {"pending", "success", "error"}, url : {"", "log"}, text : Texts]
Other == [state |-> "other", url |-> "", text |-> NoText]   \* another context
Status == Ask \union {Other}

\* A call wants `ask` set on `item`; with keep, whatever the URL.
NoCall == [stage |-> "none", item |-> NoItem]
Call == [stage : {"get", "post"}, item : Items, ask : Ask, keep : BOOLEAN, page : Nat \ {0},
         whole : BOOLEAN]   \* history: no page was refused

ClientTypeOK ==
    /\ statuses \in [Items -> Seq(Status)]
    /\ \A i \in Items : Len(statuses[i]) <= Room[i]
    /\ call \in [Workers -> Call \union {NoCall}]
    /\ faults \in 0..MaxFaults

ClientInit ==
    /\ statuses = [i \in Items |-> <<>>]
    /\ call = [w \in Workers |-> NoCall]
    /\ faults = 0

Fault == faults < MaxFaults /\ faults' = faults + 1

\* The statuses of the context, by position.
Own(list) == {k \in DOMAIN list : list[k] # Other}

\* What GitHub shows as the check of a commit: the newest of the context.
Newest(S) == CHOOSE k \in S : \A m \in S : k <= m
Checked(i) == Own(statuses[i]) # {}
Latest(i) == statuses[i][Newest(Own(statuses[i]))]

-----------------------------------------------------------------------------
(* Requests *)

Idle(w) == call[w] = NoCall

Returns(w) == call' = [call EXCEPT ![w] = NoCall]
Posts(w, c, url) == call' = [call EXCEPT ![w] = [c EXCEPT !.stage = "post", !.ask.url = url]]

OnPage(list, p) == {k \in DOMAIN list : (k - 1) \div PageSize = p - 1}

Matches(s, c) == s.state = c.ask.state /\ s.text = c.ask.text /\ (c.keep \/ s.url = c.ask.url)

\* Mutant: the URL is compared as it should be, and then set anew.
DecideWithNewUrl(w, c, s) == IF Matches(s, c) THEN Returns(w) ELSE Posts(w, c, c.ask.url)

\* The first status of the context decides.
Decide(w, c, s) ==
    IF Matches(s, c) THEN Returns(w) ELSE Posts(w, c, IF c.keep THEN s.url ELSE c.ask.url)

\* The list has ended without one: the status is created, without a URL to keep.
Create(w, c) == Posts(w, c, IF c.keep THEN "" ELSE c.ask.url)

\* Mutant: the first page is taken for the whole list.
HasNextNever(list, p) == FALSE
HasNext(list, p) == Len(list) > p * PageSize

\* A page of the call c is read.
Read(w, c) ==
    LET list == statuses[c.item]
        own == OnPage(list, c.page) \intersect Own(list)
    IN \/ own # {} /\ Decide(w, c, list[Newest(own)])
       \/ own = {} /\ HasNext(list, c.page) /\ call' = [call EXCEPT ![w] = [c EXCEPT !.page = @ + 1]]
       \/ own = {} /\ ~HasNext(list, c.page) /\ Create(w, c)

\* The call up to its first page.  When that is refused (403, 404, 422) get returns None,
\* which is iterated and raises; any other failure raises too.
SetStatus(w, i, ask, keep) ==
    \/ /\ Read(w, [stage |-> "get", item |-> i, ask |-> ask, keep |-> keep, page |-> 1,
                whole |-> TRUE])
       /\ UNCHANGED faults
    \/ Fault /\ Returns(w)

\* pagination: the next page is requested only when the last one is used up.
GetPage(w) ==
    /\ call[w].stage = "get"
    /\ Read(w, call[w])
    /\ UNCHANGED <<statuses, faults>>

\* A later page that is refused is taken for the end of the list; other failures raise.
GetPageFails(w) ==
    /\ call[w].stage = "get"
    /\ Fault
    /\ Returns(w) \/ Create(w, [call[w] EXCEPT !.whole = FALSE])
    /\ UNCHANGED statuses

\* post: nobody looks at the status code; at the limit it is 422.
Post(w) ==
    LET c == call[w]
    IN /\ c.stage = "post"
       /\ statuses' = IF Len(statuses[c.item]) < Room[c.item]
                      THEN [statuses EXCEPT ![c.item] = <<c.ask>> \o @] ELSE statuses
       /\ Returns(w)
       /\ UNCHANGED faults

PostFails(w) ==
    /\ call[w].stage = "post"
    /\ Fault
    /\ Returns(w)
    /\ UNCHANGED statuses

\* Somebody else sets the status of another context.
OthersPost(i) ==
    /\ Cardinality(DOMAIN statuses[i] \ Own(statuses[i])) < MaxOthers[i]
    /\ Len(statuses[i]) < Room[i]
    /\ statuses' = [statuses EXCEPT ![i] = <<Other>> \o @]
    /\ UNCHANGED <<call, faults>>

Request(w) == GetPage(w) \/ Post(w)
RequestFails(w) == GetPageFails(w) \/ PostFails(w)
=============================================================================
