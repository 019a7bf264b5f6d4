-------------------------- MODULE PrApproval_proofs --------------------------
(* Proofs about the visits to one pull request, for any rules, files and   *)
(* required tests, any number of users, heads, comments and failures, and  *)
(* every interleaving of the two threads with users, authors and GitHub.   *)
(*                                                                         *)
(* Three invariants, each inductive with the ones before it: QInv, what    *)
(* the comments, the replayed state and the calls to come say about a      *)
(* commit; VInv, where the one verdict about a commit can come from; SInv, *)
(* what a visit that nothing disturbs has done so far and will leave.      *)
EXTENDS PrApproval, Approvers_proofs, SequenceTheorems

USE UsersAssumption, AdminsAssumption

-----------------------------------------------------------------------------
(* What the comments, the replayed state and the calls to come say about a *)
(* commit.                                                                 *)

Voters(sha) == Cast(sha, VoteKinds)

\* The approvers are what is left of those of a commit once some of the
\* users who voted since have been heard.
Standing(app, sha) ==
    \E W \in SUBSET Voters(sha) : Stands(app, FileRules[sha], W)

\* What a comment of the bot about a commit commits it to.
Claim(kind, app, sha) ==
    /\ kind = "approved" => Agreed(FileRules[sha], Voters(sha))
    /\ kind \in {"approval required", "testing approved", "tests OK"} => Standing(app, sha)

\* Users vote, the bot comments, on heads that have been there.
Signed(c) ==
    IF c.kind \in VoteKinds THEN c.who \in Users ELSE c.who = Bot /\ c.sha \in 1..head

Honest(sha) ==
    \A i \in DOMAIN comments :
        comments[i].kind \notin VoteKinds /\ comments[i].sha = sha
            => Claim(comments[i].kind, comments[i].approvers, sha)

\* The state a replay of the comments about a commit leads to.
Sound(st, sha) ==
    /\ st \in StateRecord
    /\ st.haveApproved \in Seq([u : Voters(sha), what : VoteKinds])
    /\ st.haveApproved_p2 \in Seq([u : Voters(sha), what : VoteKinds])
    /\ st.name = "STATE_TESTS_AUTOMERGE" => Agreed(FileRules[sha], Voters(sha))
    /\ st.name \in {"STATE_APPROVAL_PENDING", "STATE_TESTS_ONLY", "STATE_MERGE_APPROVAL_PENDING"}
           => Standing(st.approvers, sha)

\* A merge needs its quorum whatever has been pushed meanwhile.  A comment
\* is about the commit the visit started with, but the files were those of
\* the head: what it says holds only while the two are the same.
Justified(c) ==
    /\ c.call = "merge" => Agreed(FileRules[pull], Voters(pull))
    /\ c.call = "add_comment" /\ pull = head => Claim(c.kind, c.approvers, pull)
    /\ c.call \in {"ask_again", "ask_again_for_merge"} /\ pull = head
           => Standing(c.approvers, pull)
JustifiedCalls == {c \in Call : Justified(c)}

QInv ==
    /\ TypeOK
    /\ pull <= head
    /\ \A i \in DOMAIN comments : Signed(comments[i])
    /\ Honest(head)
    /\ pc = "replaying" => Honest(pull)
    /\ pc = "checking permissions" => Sound(state, pull)
    /\ todo \in Seq(JustifiedCalls)

-----------------------------------------------------------------------------
(* The two loops.  A recursive function is a CHOICE of a function that     *)
(* satisfies its equation: it has to be shown that there is one, from the  *)
(* least number of rounds for which there would not be.                    *)

\* The replay takes the comments one by one.
LEMMA ReplayStepwise ==
    ASSUME comments \in Seq(Comment), since[pull] \in 0..Len(comments)
    PROVE  \E after : /\ Replay = after[Len(comments)]
                      /\ after[since[pull]] = Initial
                      /\ \A n \in since[pull] + 1..Len(comments) :
                             after[n] = Evolve(after[n - 1], comments[n])
<1> DEFINE lo == since[pull]
           hi == Len(comments)
           Loop(f, k) == f = [n \in lo..k |-> IF n = lo THEN Initial
                                              ELSE Evolve(f[n - 1], comments[n])]
           Bad == {k \in lo..hi : ~ \E f : Loop(f, k)}
<1>1. lo \in Nat /\ hi \in Nat /\ lo <= hi
  OBVIOUS
<1>2. \E f : Loop(f, hi)
  <2> SUFFICES ASSUME Bad # {} PROVE FALSE
    BY <1>1
  <2>1. PICK k \in Bad : \A j \in Bad : <<j, k>> \notin OpToRel(<, Nat)
    <3>1. Bad \subseteq Nat
      BY <1>1
    <3> HIDE DEF Bad
    <3> QED BY <3>1, NatLessThanWellFounded, WFMin
  <2>2. k \in lo..hi /\ k \in Nat /\ ~ \E f : Loop(f, k)
    <3> HIDE DEF Loop
    <3>1. k \in lo..hi /\ ~ \E f : Loop(f, k)
      OBVIOUS
    <3> QED BY <1>1, <3>1
  <2>3. CASE k = lo
    <3> DEFINE f == [n \in lo..k |-> Initial]
    <3>1. \A n \in lo..k : n = lo
      BY <1>1, <2>3
    <3>2. Loop(f, k)
      BY <3>1, Zenon
    <3> QED BY <2>2, <3>2
  <2>4. CASE k > lo
    <3>1. k - 1 \in lo..hi /\ k - 1 \in Nat /\ k - 1 < k
      BY <1>1, <2>2, <2>4
    <3>2. k - 1 \notin Bad
      BY <2>1, <2>2, <3>1 DEF OpToRel
    <3>3. PICK g : Loop(g, k - 1)
      BY <3>1, <3>2
    <3> DEFINE f == [n \in lo..k |-> IF n = k THEN Evolve(g[k - 1], comments[k]) ELSE g[n]]
    <3>4. ASSUME NEW n \in lo..k
          PROVE  f[n] = IF n = lo THEN Initial ELSE Evolve(f[n - 1], comments[n])
      <4>1. CASE n = k
        <5>1. k - 1 \in lo..k /\ k - 1 # k /\ n # lo
          BY <1>1, <2>2, <2>4, <4>1
        <5>2. f[n] = Evolve(g[k - 1], comments[k]) /\ f[k - 1] = g[k - 1]
          BY <4>1, <5>1
        <5> QED BY <4>1, <5>1, <5>2
      <4>2. CASE n # k /\ n = lo
        <5>1. f[n] = g[n] /\ n \in lo..(k - 1)
          BY <1>1, <2>2, <4>2
        <5>2. g[n] = Initial
          BY <3>3, <4>2, <5>1
        <5> QED BY <4>2, <5>1, <5>2
      <4>3. CASE n # k /\ n # lo
        <5>1. /\ n \in lo..(k - 1) /\ n - 1 \in lo..k /\ n - 1 # k
              /\ f[n] = g[n] /\ f[n - 1] = g[n - 1]
          BY <1>1, <2>2, <4>3
        <5>2. g[n] = Evolve(g[n - 1], comments[n])
          BY <3>3, <4>3, <5>1
        <5> QED BY <4>3, <5>1, <5>2
      <4> QED BY <4>1, <4>2, <4>3
    <3>5. f = [n \in lo..k |-> f[n]]
      OBVIOUS
    <3>6. Loop(f, k)
      <4> HIDE DEF f
      <4> QED BY <3>4, <3>5
    <3> QED BY <2>2, <3>6
  <2> QED BY <1>1, <2>2, <2>3, <2>4
<1> DEFINE after == CHOOSE f : Loop(f, hi)
<1>3. Loop(after, hi)
  <2> HIDE DEF Loop
  <2> QED BY <1>2
<1>4. Replay = after[hi]
  BY DEF Replay
<1>5. after[lo] = Initial
  <2> HIDE DEF after
  <2> QED BY <1>1, <1>3
<1>6. ASSUME NEW n \in lo + 1..hi PROVE after[n] = Evolve(after[n - 1], comments[n])
  <2>1. n \in lo..hi /\ n # lo
    BY <1>1
  <2> HIDE DEF after
  <2> QED BY <1>3, <2>1
<1> QED BY <1>4, <1>5, <1>6

\* The tally takes the votes one by one.
CountOne(t, v) ==
    IF Counts(t.approvers, v.u)
    THEN [approvers |-> Approve(t.approvers, v.u), changed |-> TRUE,
          testsOnly |-> t.testsOnly \/ v.what = "+test"]
    ELSE t
Uncounted(app) == [approvers |-> app, changed |-> FALSE, testsOnly |-> FALSE]

\* The loop over the votes, vote by vote.
LEMMA TallyStepwise ==
    ASSUME NEW app, NEW votes, Len(votes) \in Nat
    PROVE  \E after : /\ Tally(app, votes) = after[Len(votes)]
                      /\ after[0] = Uncounted(app)
                      /\ \A n \in 1..Len(votes) : after[n] = CountOne(after[n - 1], votes[n])
<1> DEFINE lo == 0
           hi == Len(votes)
           Loop(f, k) == f = [n \in lo..k |-> IF n = lo THEN Uncounted(app)
                                              ELSE CountOne(f[n - 1], votes[n])]
           Bad == {k \in lo..hi : ~ \E f : Loop(f, k)}
<1>1. lo \in Nat /\ hi \in Nat /\ lo <= hi
  OBVIOUS
<1>2. \E f : Loop(f, hi)
  <2> SUFFICES ASSUME Bad # {} PROVE FALSE
    BY <1>1
  <2>1. PICK k \in Bad : \A j \in Bad : <<j, k>> \notin OpToRel(<, Nat)
    <3>1. Bad \subseteq Nat
      BY <1>1
    <3> HIDE DEF Bad
    <3> QED BY <3>1, NatLessThanWellFounded, WFMin
  <2>2. k \in lo..hi /\ k \in Nat /\ ~ \E f : Loop(f, k)
    <3> HIDE DEF Loop
    <3>1. k \in lo..hi /\ ~ \E f : Loop(f, k)
      OBVIOUS
    <3> QED BY <1>1, <3>1
  <2>3. CASE k = lo
    <3> DEFINE f == [n \in lo..k |-> Uncounted(app)]
    <3>1. \A n \in lo..k : n = lo
      BY <1>1, <2>3
    <3>2. Loop(f, k)
      BY <3>1, Zenon
    <3> QED BY <2>2, <3>2
  <2>4. CASE k > lo
    <3>1. k - 1 \in lo..hi /\ k - 1 \in Nat /\ k - 1 < k
      BY <1>1, <2>2, <2>4
    <3>2. k - 1 \notin Bad
      BY <2>1, <2>2, <3>1 DEF OpToRel
    <3>3. PICK g : Loop(g, k - 1)
      BY <3>1, <3>2
    <3> DEFINE f == [n \in lo..k |-> IF n = k THEN CountOne(g[k - 1], votes[k]) ELSE g[n]]
    <3>4. ASSUME NEW n \in lo..k
          PROVE  f[n] = IF n = lo THEN Uncounted(app) ELSE CountOne(f[n - 1], votes[n])
      <4>1. CASE n = k
        <5>1. k - 1 \in lo..k /\ k - 1 # k /\ n # lo
          BY <1>1, <2>2, <2>4, <4>1
        <5>2. f[n] = CountOne(g[k - 1], votes[k]) /\ f[k - 1] = g[k - 1]
          BY <4>1, <5>1
        <5> QED BY <4>1, <5>1, <5>2
      <4>2. CASE n # k /\ n = lo
        <5>1. f[n] = g[n] /\ n \in lo..(k - 1)
          BY <1>1, <2>2, <4>2
        <5>2. g[n] = Uncounted(app)
          BY <3>3, <4>2, <5>1
        <5> QED BY <4>2, <5>1, <5>2
      <4>3. CASE n # k /\ n # lo
        <5>1. /\ n \in lo..(k - 1) /\ n - 1 \in lo..k /\ n - 1 # k
              /\ f[n] = g[n] /\ f[n - 1] = g[n - 1]
          BY <1>1, <2>2, <4>3
        <5>2. g[n] = CountOne(g[n - 1], votes[n])
          BY <3>3, <4>3, <5>1
        <5> QED BY <4>3, <5>1, <5>2
      <4> QED BY <4>1, <4>2, <4>3
    <3>5. f = [n \in lo..k |-> f[n]]
      OBVIOUS
    <3>6. Loop(f, k)
      <4> HIDE DEF f
      <4> QED BY <3>4, <3>5
    <3> QED BY <2>2, <3>6
  <2> QED BY <1>1, <2>2, <2>3, <2>4
<1> DEFINE after == CHOOSE f : Loop(f, hi)
<1>3. Loop(after, hi)
  <2> HIDE DEF Loop
  <2> QED BY <1>2
<1>4. Tally(app, votes) = after[hi]
  BY DEF Tally, CountOne, Uncounted
<1>5. after[lo] = Uncounted(app)
  <2> HIDE DEF after
  <2> QED BY <1>1, <1>3
<1>6. ASSUME NEW n \in 1..hi PROVE after[n] = CountOne(after[n - 1], votes[n])
  <2>1. n \in lo..hi /\ n # lo
    BY <1>1
  <2> HIDE DEF after
  <2> QED BY <1>3, <2>1
<1> QED BY <1>4, <1>5, <1>6

-----------------------------------------------------------------------------
(* What the replay and the tally are worth. *)

\* The files of every head ask for something that can be given.
LEMMA HeadsFiles ==
    ASSUME NEW s \in Shas
    PROVE  \A f \in FileRules[s] : File(f)
<1>1. CASE Cardinality(Paths[s]) > MaxFiles
  <2>1. FileRules[s] = {[free |-> FALSE, u |-> Admins, n |-> 1]}
    BY <1>1 DEF FileRules
  <2>2. Cardinality(Admins) \in Nat /\ 1 <= Cardinality(Admins)
    BY UserSets, FS_EmptySet
  <2>3. ASSUME NEW f, f = [free |-> FALSE, u |-> Admins, n |-> 1] PROVE File(f)
    BY <2>2, <2>3 DEF File, Possible
  <2> QED BY <2>1, <2>3
<1>2. CASE ~(Cardinality(Paths[s]) > MaxFiles)
  <2>1. FileRules[s] = {FileApprovers(Rules, p, Author) : p \in Paths[s]}
    BY <1>2 DEF FileRules
  <2> QED BY <2>1, FileIsPossible, RulesAssumption
<1> QED BY <1>1, <1>2

\* Only users vote.
LEMMA VotersAreUsers ==
    ASSUME TypeOK, \A i \in DOMAIN comments : Signed(comments[i]), NEW s \in Shas
    PROVE  Voters(s) \in SUBSET Users
<1> SUFFICES ASSUME NEW i \in since[s] + 1..Len(comments), comments[i].kind \in VoteKinds
             PROVE  comments[i].who \in Users
  BY DEF Voters, Cast
<1>1. comments \in Seq(Comment) /\ since[s] \in Nat
  BY DEF TypeOK
<1>2. i \in DOMAIN comments
  BY <1>1
<1> QED BY <1>2 DEF Signed

\* A vote that does not count leaves the approvers as Approve would.
LEMMA CountOneApproves ==
    ASSUME NEW t, t.approvers \in Value, t.changed \in BOOLEAN, NEW v
    PROVE  /\ CountOne(t, v).approvers = Approve(t.approvers, v.u)
           /\ CountOne(t, v).changed \in BOOLEAN
<1>1. CASE Counts(t.approvers, v.u)
  BY <1>1 DEF CountOne
<1>2. CASE ~Counts(t.approvers, v.u)
  <2>1. Approve(t.approvers, v.u) = t.approvers
    BY <1>2 DEF Counts, Approve, Value
  <2> QED BY <1>2, <2>1 DEF CountOne
<1> QED BY <1>1, <1>2

\* What the tally leaves is what is left once the users it has heard have
\* voted too.
LEMMA TallyStands ==
    ASSUME NEW files, \A f \in files : File(f), NEW U \in SUBSET Users,
           NEW V \in SUBSET U, NEW app, Stands(app, files, V),
           NEW votes \in Seq([u : U, what : VoteKinds])
    PROVE  /\ \E W \in SUBSET U : Stands(Tally(app, votes).approvers, files, W)
           /\ Tally(app, votes).changed \in BOOLEAN
<1>1. Len(votes) \in Nat
  OBVIOUS
<1>2. PICK after : /\ Tally(app, votes) = after[Len(votes)]
                   /\ after[0] = Uncounted(app)
                   /\ \A n \in 1..Len(votes) : after[n] = CountOne(after[n - 1], votes[n])
  BY <1>1, TallyStepwise
<1> DEFINE Good(t) == /\ t.approvers \in Value /\ t.changed \in BOOLEAN
                      /\ \E W \in SUBSET U : Stands(t.approvers, files, W)
           Bad == {n \in 0..Len(votes) : ~Good(after[n])}
<1>3. Good(after[0])
  <2>1. app \in Value
    BY DEF Stands
  <2> QED BY <1>2, <2>1 DEF Uncounted
<1>4. ASSUME NEW n \in 1..Len(votes), Good(after[n - 1]) PROVE Good(after[n])
  <2>1. votes[n] \in [u : U, what : VoteKinds]
    BY <1>1, ElementOfSeq
  <2>2. votes[n].u \in U
    BY <2>1
  <2>3. PICK W \in SUBSET U : Stands(after[n - 1].approvers, files, W)
    BY <1>4
  <2>4. Stands(Approve(after[n - 1].approvers, votes[n].u), files, W \union {votes[n].u})
    <3>1. votes[n].u \in Users /\ W \in SUBSET Users
      BY <2>2
    <3> QED BY <2>3, <3>1, ApproveStands
  <2>5. after[n] = CountOne(after[n - 1], votes[n])
    BY <1>2
  <2>6. /\ after[n].approvers = Approve(after[n - 1].approvers, votes[n].u)
        /\ after[n].changed \in BOOLEAN
    BY <1>4, <2>5, CountOneApproves
  <2>7. after[n].approvers \in Value
    BY <2>4, <2>6 DEF Stands
  <2>8. Stands(after[n].approvers, files, W \union {votes[n].u}) /\ W \union {votes[n].u} \in SUBSET U
    BY <2>2, <2>4, <2>6
  <2> QED BY <2>6, <2>7, <2>8
<1>5. Bad = {}
  <2> SUFFICES ASSUME Bad # {} PROVE FALSE
    OBVIOUS
  <2>1. PICK k \in Bad : \A j \in Bad : <<j, k>> \notin OpToRel(<, Nat)
    <3>1. Bad \subseteq Nat
      BY <1>1
    <3> HIDE DEF Bad
    <3> QED BY <3>1, NatLessThanWellFounded, WFMin
  <2> HIDE DEF Good
  <2>2. k \in 1..Len(votes)
    BY <1>1, <1>3
  <2>3. k - 1 \notin Bad
    <3>1. k - 1 \in Nat /\ k \in Nat /\ k - 1 < k
      BY <1>1, <2>2
    <3> HIDE DEF Bad
    <3> QED BY <2>1, <3>1 DEF OpToRel
  <2>4. Good(after[k - 1])
    BY <1>1, <2>2, <2>3
  <2> QED BY <1>4, <2>2, <2>4
<1>6. Good(after[Len(votes)])
  <2> HIDE DEF Good
  <2> QED BY <1>1, <1>5
<1> QED BY <1>2, <1>6

\* What was written about a commit still stands once it is read back.
LEMMA ReparsedStanding ==
    ASSUME TypeOK, \A i \in DOMAIN comments : Signed(comments[i]),
           NEW s \in Shas, NEW app, Standing(app, s)
    PROVE  Standing(Reparsed(app), s) /\ Reparsed(app) \in Value
<1>1. PICK W \in SUBSET Voters(s) : Stands(app, FileRules[s], W)
  BY DEF Standing
<1>2. W \in SUBSET Users
  BY VotersAreUsers
<1>3. Stands(Reparsed(app), FileRules[s], W)
  BY <1>1, <1>2, HeadsFiles, ReparsedStands
<1>4. Standing(Reparsed(app), s)
  BY <1>3 DEF Standing
<1> QED BY <1>3, <1>4 DEF Stands

\* A comment of the visit's commit keeps the replayed state sound.
LEMMA EvolveSound ==
    ASSUME TypeOK, \A i \in DOMAIN comments : Signed(comments[i]), Honest(pull),
           NEW st, Sound(st, pull), NEW i \in since[pull] + 1..Len(comments)
    PROVE  Sound(Evolve(st, comments[i]), pull)
<1> DEFINE c == comments[i]
           S == [u : Voters(pull), what : VoteKinds]
<1>1. i \in DOMAIN comments /\ c \in Comment /\ pull \in Shas
  <2>1. comments \in Seq(Comment) /\ since[pull] \in Nat /\ pull \in Shas
    BY DEF TypeOK
  <2>2. i \in 1..Len(comments)
    BY <2>1
  <2>3. c \in Comment
    BY <2>1, <2>2, ElementOfSeq
  <2> QED BY <2>1, <2>2, <2>3
<1>2. /\ st.name \in States /\ st.approvers \in Value
      /\ st.haveApproved \in Seq(S) /\ st.haveApproved_p2 \in Seq(S)
      /\ st \in StateRecord
  BY DEF Sound, StateRecord
<1>3. CASE st.name \notin From(c.kind)
  <2>1. Evolve(st, c) = st
    BY <1>3 DEF Evolve
  <2> QED BY <2>1
<1>4. CASE st.name \in From(c.kind) /\ c.kind \in VoteKinds
  <2> DEFINE vote == [u |-> c.who, what |-> c.kind]
  <2>1. Evolve(st, c) = IF st.name = "STATE_MERGE_APPROVAL_PENDING"
                        THEN [st EXCEPT !.haveApproved_p2 = Append(@, vote)]
                        ELSE [st EXCEPT !.haveApproved = Append(@, vote)]
    BY <1>4 DEF Evolve
  <2>2. vote \in S
    BY <1>4 DEF Voters, Cast
  <2>3. vote \in Recorded
    BY <1>1, <1>4 DEF Signed, Recorded
  <2>4. /\ Append(st.haveApproved, vote) \in Seq(S)
        /\ Append(st.haveApproved_p2, vote) \in Seq(S)
    <3> HIDE DEF S, vote
    <3> QED BY <1>2, <2>2, AppendProperties
  <2>5. /\ Append(st.haveApproved, vote) \in Seq(Recorded)
        /\ Append(st.haveApproved_p2, vote) \in Seq(Recorded)
    <3>1. st.haveApproved \in Seq(Recorded) /\ st.haveApproved_p2 \in Seq(Recorded)
      BY <1>2 DEF StateRecord
    <3> HIDE DEF vote
    <3> QED BY <2>3, <3>1, AppendProperties
  <2> HIDE DEF vote, S, c
  <2>6. Evolve(st, c) \in StateRecord
    BY <1>2, <2>1, <2>5 DEF StateRecord
  <2>7. /\ Evolve(st, c).name = st.name /\ Evolve(st, c).approvers = st.approvers
        /\ Evolve(st, c).haveApproved \in Seq(S) /\ Evolve(st, c).haveApproved_p2 \in Seq(S)
    BY <1>2, <2>1, <2>4 DEF StateRecord
  <2> QED BY <2>6, <2>7 DEF Sound, S, c
<1>5. CASE st.name \in From(c.kind) /\ c.kind \notin VoteKinds
           /\ (c.sha # pull \/ ~MayComment(st, c.who))
  <2>1. Evolve(st, c) = st
    BY <1>5 DEF Evolve
  <2> QED BY <2>1
<1>6. CASE st.name \in From(c.kind) /\ c.kind \notin VoteKinds /\ c.sha = pull
           /\ MayComment(st, c.who)
  <2>1. c.kind \in {"approval required", "testing approved", "approved", "tests OK"}
    BY <1>6 DEF From
  <2>2. Claim(c.kind, c.approvers, pull)
    BY <1>1, <1>6 DEF Honest
  <2>3. Evolve(st, c) = IF c.kind = "approved"
                        THEN [st EXCEPT !.name = To(c.kind)]
                        ELSE [st EXCEPT !.name = To(c.kind), !.approvers = Reparsed(c.approvers)]
    BY <1>6 DEF Evolve
  <2>4. CASE c.kind = "approved"
    <3>1. Agreed(FileRules[pull], Voters(pull))
      BY <2>2, <2>4 DEF Claim
    <3>2. To(c.kind) = "STATE_TESTS_AUTOMERGE"
      BY <2>4 DEF To
    <3> HIDE DEF c
    <3>3. Evolve(st, c) = [st EXCEPT !.name = "STATE_TESTS_AUTOMERGE"]
      BY <2>3, <2>4, <3>2
    <3>4. Evolve(st, c) \in StateRecord
      BY <1>2, <3>3 DEF StateRecord, States
    <3>5. /\ Evolve(st, c).name = "STATE_TESTS_AUTOMERGE"
          /\ Evolve(st, c).haveApproved = st.haveApproved
          /\ Evolve(st, c).haveApproved_p2 = st.haveApproved_p2
      BY <1>2, <3>3 DEF StateRecord
    <3> QED BY <1>2, <3>1, <3>4, <3>5 DEF Sound, c
  <2>5. CASE c.kind # "approved"
    <3>1. Standing(Reparsed(c.approvers), pull) /\ Reparsed(c.approvers) \in Value
      BY <1>1, <2>1, <2>2, <2>5, ReparsedStanding DEF Claim
    <3>2. To(c.kind) \in {"STATE_APPROVAL_PENDING", "STATE_TESTS_ONLY", "STATE_MERGE_APPROVAL_PENDING"}
      BY <2>1, <2>5 DEF To
    <3> HIDE DEF c
    <3>3. Evolve(st, c) = [st EXCEPT !.name = To(c.kind), !.approvers = Reparsed(c.approvers)]
      BY <2>3, <2>5
    <3>4. Evolve(st, c) \in StateRecord
      BY <1>2, <3>1, <3>2, <3>3 DEF StateRecord, States
    <3>5. /\ Evolve(st, c).name = To(c.kind)
          /\ Evolve(st, c).approvers = Reparsed(c.approvers)
          /\ Evolve(st, c).haveApproved = st.haveApproved
          /\ Evolve(st, c).haveApproved_p2 = st.haveApproved_p2
      BY <1>2, <3>3 DEF StateRecord
    <3> QED BY <1>2, <3>1, <3>2, <3>4, <3>5 DEF Sound, c
  <2> QED BY <2>4, <2>5
<1> QED BY <1>3, <1>4, <1>5, <1>6

\* Every round of the replay keeps what the comments commit the bot to.
LEMMA ReplayRounds ==
    ASSUME TypeOK, \A i \in DOMAIN comments : Signed(comments[i]), Honest(pull)
    PROVE  \E after : /\ Replay = after[Len(comments)]
                      /\ \A n \in since[pull]..Len(comments) : Sound(after[n], pull)
                      /\ \A n \in since[pull] + 1..Len(comments) :
                             after[n] = Evolve(after[n - 1], comments[n])
<1>1. /\ comments \in Seq(Comment) /\ since[pull] \in 0..Len(comments)
      /\ Len(comments) \in Nat /\ since[pull] \in Nat
  <2>1. /\ comments \in Seq(Comment) /\ pull \in Shas /\ since \in [Shas -> Nat]
        /\ since[pull] <= Len(comments)
    BY DEF TypeOK
  <2>2. since[pull] \in Nat /\ Len(comments) \in Nat
    BY <2>1, LenProperties
  <2> QED BY <2>1, <2>2
<1>2. PICK after : /\ Replay = after[Len(comments)]
                   /\ after[since[pull]] = Initial
                   /\ \A n \in since[pull] + 1..Len(comments) :
                          after[n] = Evolve(after[n - 1], comments[n])
  BY <1>1, ReplayStepwise
<1>3. Sound(Initial, pull)
  <2>1. Pending({}) \in Value
    BY Values
  <2>2. Initial \in StateRecord
    BY <2>1, EmptySeq DEF Initial, StateRecord, States, NoVotes
  <2>3. <<>> \in Seq([u : Voters(pull), what : VoteKinds])
    BY EmptySeq
  <2> QED BY <2>2, <2>3 DEF Initial, Sound, NoVotes
<1> DEFINE Bad == {n \in since[pull]..Len(comments) : ~Sound(after[n], pull)}
<1>4. Bad = {}
  <2> SUFFICES ASSUME Bad # {} PROVE FALSE
    OBVIOUS
  <2>1. PICK k \in Bad : \A j \in Bad : <<j, k>> \notin OpToRel(<, Nat)
    <3>1. Bad \subseteq Nat
      BY <1>1
    <3> HIDE DEF Bad
    <3> QED BY <3>1, NatLessThanWellFounded, WFMin
  <2>2. k \in since[pull] + 1..Len(comments)
    BY <1>1, <1>2, <1>3
  <2>3. k - 1 \notin Bad
    <3>1. k - 1 \in Nat /\ k \in Nat /\ k - 1 < k
      BY <1>1, <2>2
    <3> HIDE DEF Bad
    <3> QED BY <2>1, <3>1 DEF OpToRel
  <2>4. Sound(after[k - 1], pull)
    BY <1>1, <2>2, <2>3
  <2>5. Sound(after[k], pull)
    BY <1>2, <2>2, <2>4, EvolveSound
  <2> QED BY <2>5
<1> QED BY <1>2, <1>4

\* What the replay ends with.
LEMMA ReplaySound ==
    ASSUME TypeOK, \A i \in DOMAIN comments : Signed(comments[i]), Honest(pull)
    PROVE  Sound(Replay, pull)
<1>1. PICK after : /\ Replay = after[Len(comments)]
                   /\ \A n \in since[pull]..Len(comments) : Sound(after[n], pull)
  BY ReplayRounds
<1>2. Len(comments) \in since[pull]..Len(comments)
  <2>1. /\ comments \in Seq(Comment) /\ pull \in Shas /\ since \in [Shas -> Nat]
        /\ since[pull] <= Len(comments)
    BY DEF TypeOK
  <2>2. since[pull] \in Nat /\ Len(comments) \in Nat
    BY <2>1, LenProperties
  <2> QED BY <2>1, <2>2
<1> QED BY <1>1, <1>2

-----------------------------------------------------------------------------
(* The calls of every action are justified by the state it runs in. *)

\* Sequences of at most two members of a set.
LEMMA ShortSequences ==
    ASSUME NEW S, NEW x \in S, NEW y \in S
    PROVE  <<>> \in Seq(S) /\ <<x>> \in Seq(S) /\ <<x, y>> \in Seq(S)
OBVIOUS

\* Calls that claim nothing.
LEMMA PlainCalls ==
    /\ \A c \in Contexts, v \in StatusValues : SetStatus(c, v) \in JustifiedCalls
    /\ \A c \in Contexts : GetTest(c) \in JustifiedCalls
    /\ RestoreReview \in JustifiedCalls
    /\ \A w \in {"empty", "conflicts"} : Complain(w) \in JustifiedCalls
BY DEF SetStatus, GetTest, RestoreReview, Complain, JustifiedCalls, Justified, Call

\* Calls that are justified once their claim is.
LEMMA WordyCalls ==
    /\ \A k \in BotKinds, a \in Value :
           (pull = head => Claim(k, a, pull)) => AddComment(k, a) \in JustifiedCalls
    /\ \A ch \in BOOLEAN, a \in Value :
           (pull = head => Standing(a, pull))
               => AskAgain(ch, a) \in JustifiedCalls /\ AskAgainForMerge(ch, a) \in JustifiedCalls
    /\ Agreed(FileRules[pull], Voters(pull)) => MergePull \in JustifiedCalls
BY DEF AddComment, AskAgain, AskAgainForMerge, MergePull, JustifiedCalls, Justified, Call

\* The loops over the required tests.
LEMMA TestCalls ==
    /\ [i \in DOMAIN Tests |-> SetStatus(Tests[i], "pending")] \in Seq(JustifiedCalls)
    /\ [i \in DOMAIN Tests |-> GetTest(Tests[i])] \in Seq(JustifiedCalls)
<1>1. \A i \in DOMAIN Tests : Tests[i] \in Contexts
  BY DEF Contexts
<1>2. "pending" \in StatusValues
  BY DEF StatusValues
<1>3. Len(Tests) \in Nat /\ DOMAIN Tests = 1..Len(Tests)
  BY TestsAssumption
<1>4. /\ \A i \in 1..Len(Tests) : SetStatus(Tests[i], "pending") \in JustifiedCalls
      /\ \A i \in 1..Len(Tests) : GetTest(Tests[i]) \in JustifiedCalls
  BY <1>1, <1>2, <1>3, PlainCalls
<1> QED BY <1>3, <1>4

\* A request for approval is justified by the approvers it lists.
LEMMA RequestJustified ==
    ASSUME NEW app \in Value, pull = head => Standing(app, pull)
    PROVE  RequestApproval(app) \in Seq(JustifiedCalls)
<1>1. SetStatus("review", "pending") \in JustifiedCalls
  BY PlainCalls DEF Contexts, StatusValues
<1>2. AddComment("approval required", app) \in JustifiedCalls
  BY WordyCalls DEF BotKinds, Claim
<1> QED BY <1>1, <1>2, ShortSequences DEF RequestApproval

\* Approvers with nobody heard but voters of the visit's commit, the votes
\* it has replayed, and files that are those of the commit unless it is not
\* the head any more.
LEMMA RequestsJustified ==
    ASSUME TypeOK, \A i \in DOMAIN comments : Signed(comments[i]),
           NEW files, \A f \in files : File(f), pull = head => files = FileRules[pull],
           NEW V \in SUBSET Voters(pull), NEW app, Stands(app, files, V),
           NEW votes \in Seq([u : Voters(pull), what : VoteKinds])
    PROVE  /\ ApprovalPending(app, votes) \in Seq(JustifiedCalls)
           /\ ApprovalRequired(app, votes) \in Seq(JustifiedCalls)
<1> DEFINE t == Tally(app, votes)
<1>1. Voters(pull) \in SUBSET Users
  BY VotersAreUsers DEF TypeOK
<1>2. PICK W \in SUBSET Voters(pull) : Stands(t.approvers, files, W)
  BY <1>1, TallyStands
<1>3. t.changed \in BOOLEAN /\ t.approvers \in Value /\ app \in Value
  <2>1. t.changed \in BOOLEAN
    BY <1>1, TallyStands
  <2> QED BY <1>2, <2>1 DEF Stands
<1> HIDE DEF t
<1>4. pull = head => Standing(t.approvers, pull) /\ Standing(app, pull)
  BY <1>2 DEF Standing
<1>5. ApprovalPending(app, votes) \in Seq(JustifiedCalls)
  <2>1. ApprovalPending(app, votes) =
            IF t.approvers.all
            THEN <<SetStatus("review", "success")>>
                 \o [i \in DOMAIN Tests |-> SetStatus(Tests[i], "pending")]
                 \o <<IF t.testsOnly THEN AddComment("testing approved", app)
                                     ELSE AddComment("approved", Approved)>>
            ELSE <<AskAgain(t.changed, t.approvers)>>
    BY DEF ApprovalPending, t
  <2>2. CASE t.approvers.all
    <3>1. Agreed(files, Voters(pull))
      <4>1. Agreed(files, W)
        BY <1>2, <2>2 DEF Stands
      <4> QED BY <1>1, <4>1, AgreedStays
    <3>2. AddComment("testing approved", app) \in JustifiedCalls
      BY <1>3, <1>4, WordyCalls DEF BotKinds, Claim
    <3>3. AddComment("approved", Approved) \in JustifiedCalls
      <4>1. Approved \in Value
        BY Values
      <4> QED BY <3>1, <4>1, WordyCalls DEF BotKinds, Claim
    <3>4. SetStatus("review", "success") \in JustifiedCalls
      BY PlainCalls DEF Contexts, StatusValues
    <3> DEFINE last == IF t.testsOnly THEN AddComment("testing approved", app)
                                      ELSE AddComment("approved", Approved)
               tests == [i \in DOMAIN Tests |-> SetStatus(Tests[i], "pending")]
    <3>5. /\ <<SetStatus("review", "success")>> \in Seq(JustifiedCalls)
          /\ <<last>> \in Seq(JustifiedCalls)
          /\ tests \in Seq(JustifiedCalls)
      <4>1. last \in JustifiedCalls
        BY <3>2, <3>3
      <4> HIDE DEF last
      <4> QED BY <3>4, <4>1, ShortSequences, TestCalls
    <3>6. ApprovalPending(app, votes) = <<SetStatus("review", "success")>> \o tests \o <<last>>
      BY <2>1, <2>2
    <3> HIDE DEF last, tests
    <3> QED BY <3>5, <3>6, ConcatProperties
  <2>3. CASE ~t.approvers.all
    <3>1. AskAgain(t.changed, t.approvers) \in JustifiedCalls
      BY <1>3, <1>4, WordyCalls
    <3> QED BY <2>1, <2>3, <3>1, ShortSequences
  <2> QED BY <2>2, <2>3
<1>6. ApprovalRequired(app, votes) \in Seq(JustifiedCalls)
  <2>1. ApprovalRequired(app, votes) =
            ApprovalPending(app, votes)
            \o (IF t.approvers.all THEN <<>> ELSE RequestApproval(t.approvers))
    BY DEF ApprovalRequired, t
  <2>2. RequestApproval(t.approvers) \in Seq(JustifiedCalls)
    BY <1>3, <1>4, RequestJustified
  <2>3. (IF t.approvers.all THEN <<>> ELSE RequestApproval(t.approvers)) \in Seq(JustifiedCalls)
    BY <2>2, EmptySeq
  <2> QED BY <1>5, <2>1, <2>3, ConcatProperties
<1> QED BY <1>5, <1>6

\* The tests come before a call, and justify nothing more.
LEMMA WhenTestsPassJustified ==
    ASSUME NEW call \in JustifiedCalls
    PROVE  WhenTestsPass(call) \in Seq(JustifiedCalls)
<1> DEFINE gets == [i \in DOMAIN Tests |-> GetTest(Tests[i])]
           rest == IF Tests = <<>> THEN <<>> ELSE gets \o <<call>>
<1>1. /\ <<RestoreReview>> \in Seq(JustifiedCalls) /\ <<call>> \in Seq(JustifiedCalls)
      /\ gets \in Seq(JustifiedCalls) /\ <<>> \in Seq(JustifiedCalls)
  BY PlainCalls, TestCalls, ShortSequences
<1>2. WhenTestsPass(call) = <<RestoreReview>> \o rest
  BY DEF WhenTestsPass
<1> HIDE DEF gets
<1>3. rest \in Seq(JustifiedCalls)
  BY <1>1, ConcatProperties
<1> HIDE DEF rest
<1> QED BY <1>1, <1>2, <1>3, ConcatProperties

\* The action of a sound state makes justified calls only.
LEMMA ActionJustified ==
    ASSUME TypeOK, \A i \in DOMAIN comments : Signed(comments[i]),
           NEW st, Sound(st, pull), st.name # "STATE_INITIAL"
    PROVE  Action(st) \in Seq(JustifiedCalls)
<1>1. /\ pull \in Shas /\ st.approvers \in Value /\ st.name \in States
      /\ Voters(pull) \in SUBSET Users
  BY VotersAreUsers DEF TypeOK, Sound, StateRecord
<1>2. CASE st.name = "STATE_APPROVAL_PENDING"
  <2>1. PICK W \in SUBSET Voters(pull) : Stands(st.approvers, FileRules[pull], W)
    BY <1>2 DEF Sound, Standing
  <2>2. ApprovalPending(st.approvers, st.haveApproved) \in Seq(JustifiedCalls)
    BY <1>1, <2>1, HeadsFiles, RequestsJustified DEF Sound
  <2> QED BY <1>2, <2>2 DEF Action
<1>3. CASE st.name = "STATE_TESTS_ONLY"
  <2>1. Standing(st.approvers, pull)
    BY <1>3 DEF Sound
  <2>2. AddComment("tests OK", st.approvers) \in JustifiedCalls
    BY <1>1, <2>1, WordyCalls DEF BotKinds, Claim
  <2>3. Action(st) = WhenTestsPass(AddComment("tests OK", st.approvers))
    BY <1>3 DEF Action
  <2> QED BY <2>2, <2>3, WhenTestsPassJustified
<1>4. CASE st.name = "STATE_TESTS_AUTOMERGE"
  <2>1. MergePull \in JustifiedCalls
    BY <1>4, WordyCalls DEF Sound
  <2>2. Action(st) = WhenTestsPass(MergePull)
    BY <1>4 DEF Action
  <2> QED BY <2>1, <2>2, WhenTestsPassJustified
<1>5. CASE st.name = "STATE_MERGE_APPROVAL_PENDING"
  <2> DEFINE t == Tally(st.approvers, st.haveApproved_p2)
  <2>1. PICK V \in SUBSET Voters(pull) : Stands(st.approvers, FileRules[pull], V)
    BY <1>5 DEF Sound, Standing
  <2>2. /\ \E W \in SUBSET Voters(pull) : Stands(t.approvers, FileRules[pull], W)
        /\ t.changed \in BOOLEAN
    BY <1>1, <2>1, HeadsFiles, TallyStands DEF Sound
  <2>3. PICK W \in SUBSET Voters(pull) : Stands(t.approvers, FileRules[pull], W)
    BY <2>2
  <2>4. Action(st) = IF t.approvers.all THEN <<MergePull>>
                     ELSE <<AskAgainForMerge(t.changed, t.approvers)>>
    BY <1>5 DEF Action
  <2> HIDE DEF t
  <2>5. CASE t.approvers.all
    <3>1. Agreed(FileRules[pull], W)
      BY <2>3, <2>5 DEF Stands
    <3>2. Agreed(FileRules[pull], Voters(pull))
      BY <1>1, <3>1, HeadsFiles, AgreedStays
    <3> QED BY <2>4, <2>5, <3>2, WordyCalls, ShortSequences
  <2>6. CASE ~t.approvers.all
    <3>1. t.approvers \in Value /\ Standing(t.approvers, pull)
      BY <2>3 DEF Stands, Standing
    <3>2. AskAgainForMerge(t.changed, t.approvers) \in JustifiedCalls
      BY <2>2, <3>1, WordyCalls
    <3> QED BY <2>4, <2>6, <3>2, ShortSequences
  <2> QED BY <2>5, <2>6
<1> QED BY <1>1, <1>2, <1>3, <1>4, <1>5 DEF States

\* The fields of each kind of call.
LEMMA CallFields ==
    ASSUME NEW c \in Call
    PROVE  /\ c.call = "set_status" => c.context \in Contexts /\ c.value \in StatusValues
           /\ c.call = "add_comment" => c.kind \in BotKinds /\ c.approvers \in Value
           /\ c.call \in {"ask_again", "ask_again_for_merge"}
                  => c.changed \in BOOLEAN /\ c.approvers \in Value
           /\ c.call = "complain" => c.what \in {"empty", "conflicts"}
BY DEF Call

\* The first of the calls to be made, and the rest.
LEMMA NextCall ==
    ASSUME QInv, todo # <<>>
    PROVE  /\ Head(todo) \in Call /\ Justified(Head(todo))
           /\ Tail(todo) \in Seq(JustifiedCalls)
<1>1. Head(todo) \in JustifiedCalls /\ Tail(todo) \in Seq(JustifiedCalls)
  BY HeadTailProperties DEF QInv
<1> QED BY <1>1 DEF JustifiedCalls

-----------------------------------------------------------------------------
(* The inductive step.  Comments are only added, so what they say about a  *)
(* commit that has been pushed stays true.                                 *)

\* Votes are never withdrawn.
LEMMA VotersGrow ==
    ASSUME TypeOK, NEW s \in Shas, since'[s] = since[s],
           comments' = comments \/ \E c \in Comment : comments' = Append(comments, c)
    PROVE  Voters(s) \subseteq Voters(s)'
<1>1. comments \in Seq(Comment) /\ since[s] \in Nat
  BY DEF TypeOK
<1>2. /\ Len(comments) \in Nat /\ Len(comments') \in Nat /\ Len(comments) <= Len(comments')
      /\ \A i \in 1..Len(comments) : comments'[i] = comments[i]
  <2>1. CASE comments' = comments
    BY <1>1, <2>1
  <2>2. CASE \E c \in Comment : comments' = Append(comments, c)
    BY <1>1, <2>2, AppendProperties
  <2> QED BY <2>1, <2>2
<1>3. ASSUME NEW i \in since[s] + 1..Len(comments), comments[i].kind \in VoteKinds
      PROVE  /\ i \in since'[s] + 1..Len(comments')
             /\ comments'[i].kind \in VoteKinds /\ comments'[i].who = comments[i].who
  <2>1. i \in 1..Len(comments)
    BY <1>1, <1>2
  <2> QED BY <1>2, <1>3, <2>1
<1> QED BY <1>3 DEF Voters, Cast

\* Only users vote, after a step as before it.
LEMMA VotersStayUsers ==
    ASSUME TypeOK', \A i \in DOMAIN comments' : Signed(comments[i])', NEW s \in Shas
    PROVE  Voters(s)' \in SUBSET Users
<1> SUFFICES ASSUME NEW i \in since'[s] + 1..Len(comments'), comments'[i].kind \in VoteKinds
             PROVE  comments'[i].who \in Users
  BY DEF Voters, Cast
<1>1. comments' \in Seq(Comment) /\ since'[s] \in Nat
  BY DEF TypeOK
<1>2. i \in DOMAIN comments'
  BY <1>1
<1> QED BY <1>2 DEF Signed

\* What a comment appended to the others leaves of them.
LEMMA OneMoreComment ==
    ASSUME TypeOK, NEW c \in Comment, comments' = Append(comments, c), since' = since
    PROVE  /\ comments' \in Seq(Comment)
           /\ Len(comments) \in Nat /\ Len(comments') = Len(comments) + 1
           /\ DOMAIN comments = 1..Len(comments) /\ DOMAIN comments' = 1..Len(comments')
           /\ \A i \in 1..Len(comments) : comments'[i] = comments[i]
           /\ comments'[Len(comments')] = c
           /\ since' \in [Shas -> Nat] /\ \A s \in Shas : since'[s] <= Len(comments')
<1>1. comments \in Seq(Comment) /\ Len(comments) \in Nat
  BY LenProperties DEF TypeOK
<1>2. /\ comments' \in Seq(Comment)
      /\ Len(comments') = Len(comments) + 1
      /\ DOMAIN comments = 1..Len(comments) /\ DOMAIN comments' = 1..Len(comments')
      /\ \A i \in 1..Len(comments) : comments'[i] = comments[i]
      /\ comments'[Len(comments')] = c
  BY <1>1, AppendProperties, LenProperties
<1>3. since' \in [Shas -> Nat] /\ \A s \in Shas : since'[s] <= Len(comments')
  <2>1. since \in [Shas -> Nat] /\ \A s \in Shas : since[s] <= Len(comments)
    BY DEF TypeOK
  <2> QED BY <1>1, <1>2, <2>1
<1> QED BY <1>1, <1>2, <1>3

\* More votes take back nothing that was claimed.
LEMMA ClaimsStay ==
    ASSUME NEW s \in Shas, Voters(s) \subseteq Voters(s)', Voters(s)' \in SUBSET Users
    PROVE  /\ Agreed(FileRules[s], Voters(s)) => Agreed(FileRules[s], Voters(s)')
           /\ \A app : Standing(app, s) => Standing(app, s)'
           /\ \A kind, app : Claim(kind, app, s) => Claim(kind, app, s)'
           /\ \A st : Sound(st, s) => Sound(st, s)'
<1>1. Agreed(FileRules[s], Voters(s)) => Agreed(FileRules[s], Voters(s)')
  BY HeadsFiles, AgreedStays
<1>2. \A app : Standing(app, s) => Standing(app, s)'
  BY DEF Standing
<1>3. \A kind, app : Claim(kind, app, s) => Claim(kind, app, s)'
  BY <1>1, <1>2 DEF Claim
<1>4. \A votes : votes \in Seq([u : Voters(s), what : VoteKinds])
                     => votes \in Seq([u : Voters(s)', what : VoteKinds])
  <2>1. [u : Voters(s), what : VoteKinds] \subseteq [u : Voters(s)', what : VoteKinds]
    OBVIOUS
  <2> QED BY <2>1, SeqMonotonic
<1>5. \A st : Sound(st, s) => Sound(st, s)'
  BY <1>1, <1>2, <1>4 DEF Sound
<1> QED BY <1>1, <1>2, <1>3, <1>5

\* A step that leaves the history of the pull request alone.
LEMMA SameHistory ==
    ASSUME QInv, TypeOK', UNCHANGED <<head, since, comments, pull>>,
           pc' = "replaying" => pc = "replaying",
           pc' = "checking permissions" => Sound(state', pull),
           todo' \in Seq(JustifiedCalls)
    PROVE  QInv'
<1>1. head' = head /\ since' = since /\ comments' = comments /\ pull' = pull
  OBVIOUS
<1>2. \A s : Voters(s)' = Voters(s)
  BY <1>1 DEF Voters, Cast
<1>3. \A s, app : Standing(app, s)' <=> Standing(app, s)
  BY <1>2 DEF Standing
<1>4. \A s, kind, app : Claim(kind, app, s)' <=> Claim(kind, app, s)
  BY <1>2, <1>3 DEF Claim
<1>5. \A s : Honest(s)' <=> Honest(s)
  BY <1>1, <1>4 DEF Honest
<1>6. \A s, st : Sound(st, s)' <=> Sound(st, s)
  BY <1>2, <1>3 DEF Sound
<1>7. \A i \in DOMAIN comments' : Signed(comments[i])'
  BY <1>1 DEF QInv, Signed
<1>8. JustifiedCalls' = JustifiedCalls
  BY <1>1, <1>2, <1>3, <1>4 DEF JustifiedCalls, Justified
<1>9. Honest(head)' /\ (pc' = "replaying" => Honest(pull)')
  BY <1>1, <1>5 DEF QInv
<1>10. pc' = "checking permissions" => Sound(state, pull)'
  BY <1>1, <1>6
<1>11. todo' \in Seq(JustifiedCalls')
  BY <1>8
<1> QED BY <1>1, <1>7, <1>9, <1>10, <1>11 DEF QInv

\* QInv holds before anything happens.
LEMMA InitQInv == Init => QInv
<1> SUFFICES ASSUME Init PROVE QInv
  OBVIOUS
<1>1. 1 \in Shas /\ 1..MaxSha = Shas
  BY BoundsAssumption DEF Shas
<1>2. Initial \in StateRecord
  <2>1. Pending({}) \in Value
    BY Values
  <2> QED BY <2>1, EmptySeq DEF Initial, StateRecord, States, NoVotes
<1>3. TypeOK
  <2>1. \A s \in Shas : since[s] = 0 /\ Len(comments) = 0
    BY EmptySeq DEF Init
  <2>2. since \in [Shas -> Nat] /\ \A s \in Shas : since[s] <= Len(comments)
    BY <2>1 DEF Init
  <2>3. status \in [Shas -> [Contexts -> StatusValues]]
    BY DEF Init, StatusValues
  <2>4. comments \in Seq(Comment) /\ todo \in Seq(Call)
    BY EmptySeq DEF Init
  <2>5. troubles \in 0..MaxTroubles
    BY BoundsAssumption DEF Init
  <2> QED BY <1>1, <1>2, <2>2, <2>3, <2>4, <2>5 DEF Init, TypeOK
<1>4. DOMAIN comments = {}
  BY DEF Init
<1>5. Honest(head) /\ \A i \in DOMAIN comments : Signed(comments[i])
  BY <1>4 DEF Honest
<1>6. todo \in Seq(JustifiedCalls)
  BY EmptySeq DEF Init
<1> QED BY <1>3, <1>5, <1>6 DEF Init, QInv

(* GitHub and the reactor *)

\* Steps of GitHub and of the reactor that touch no comment and no head.
LEMMA OutsideKeepsQInv ==
    ASSUME QInv, \/ Mergeability \/ TargetMoves \/ Close \/ RefreshCache
                 \/ \E i \in DOMAIN Tests : TestFinishes(Tests[i])
    PROVE  QInv'
<1>1. /\ UNCHANGED <<head, since, comments, pull, pc, state, todo>>
      /\ mergeable' \in {"clean", "dirty", "unknown"}
      /\ merged' = merged
      /\ closed' \in BOOLEAN /\ asked' \in BOOLEAN /\ stirred' \in BOOLEAN
      /\ cached' \in Shas
  BY DEF Mergeability, TargetMoves, Close, RefreshCache, TestFinishes, Outside, Trouble,
         worker, github, QInv, TypeOK
<1>2. troubles' \in 0..MaxTroubles
  <2>1. troubles' = troubles \/ Trouble
    BY DEF Mergeability, TargetMoves, Close, RefreshCache, TestFinishes
  <2>2. troubles \in 0..MaxTroubles /\ MaxTroubles \in Nat
    BY BoundsAssumption DEF QInv, TypeOK
  <2> QED BY <2>1, <2>2 DEF Trouble
<1>3. status' \in [Shas -> [Contexts -> StatusValues]]
  <2>1. CASE status' = status
    BY <2>1 DEF QInv, TypeOK
  <2>2. ASSUME NEW i \in DOMAIN Tests, TestFinishes(Tests[i])
        PROVE  status' \in [Shas -> [Contexts -> StatusValues]]
    <3>1. Tests[i] \in Contexts
      BY DEF Contexts
    <3>2. PICK v \in {"success", "failure"} : status' = [status EXCEPT ![head][Tests[i]] = v]
      BY <2>2 DEF TestFinishes
    <3>3. v \in StatusValues /\ status \in [Shas -> [Contexts -> StatusValues]] /\ head \in Shas
      BY DEF StatusValues, QInv, TypeOK
    <3> QED BY <3>1, <3>2, <3>3
  <2> QED BY <2>1, <2>2 DEF Mergeability, TargetMoves, Close, RefreshCache, github
<1>4. TypeOK'
  BY <1>1, <1>2, <1>3 DEF QInv, TypeOK
<1> QED BY <1>1, <1>4, SameHistory DEF QInv

\* A vote only adds a voter.
LEMMA VoteKeepsQInv == ASSUME QInv, NEW v \in Votes, Vote(v) PROVE QInv'
<1> DEFINE c == [who |-> v.who, kind |-> v.kind, sha |-> NoCommit, approvers |-> Pending({})]
<1>1. /\ comments' = Append(comments, c)
      /\ UNCHANGED <<head, since, status, mergeable, closed, merged, troubles,
                     pc, pull, cached, state, todo>>
      /\ asked' = TRUE /\ stirred' = TRUE
  BY DEF Vote, Outside, worker
<1>2. v.who \in Users /\ v.kind \in VoteKinds
  BY VotesAssumption
<1>3. c \in Comment
  <2>1. Pending({}) \in Value
    BY Values
  <2> QED BY <1>2, <2>1 DEF Comment
<1> HIDE DEF c
<1>4. /\ comments' \in Seq(Comment)
      /\ since' \in [Shas -> Nat] /\ \A s \in Shas : since'[s] <= Len(comments')
  BY <1>1, <1>3, OneMoreComment DEF QInv
<1>5. TypeOK'
  BY <1>1, <1>4 DEF QInv, TypeOK
<1>6. \A i \in DOMAIN comments' : \/ i \in DOMAIN comments /\ comments'[i] = comments[i]
                                 \/ comments'[i] = c
  <2>1. /\ Len(comments) \in Nat /\ Len(comments') = Len(comments) + 1
        /\ DOMAIN comments = 1..Len(comments) /\ DOMAIN comments' = 1..Len(comments')
        /\ \A i \in 1..Len(comments) : comments'[i] = comments[i]
        /\ comments'[Len(comments')] = c
    BY <1>1, <1>3, OneMoreComment DEF QInv
  <2> QED BY <2>1
<1>7. c.kind \in VoteKinds /\ c.who \in Users
  BY <1>2 DEF c
<1>8. \A i \in DOMAIN comments' : Signed(comments[i])'
  BY <1>1, <1>6, <1>7 DEF QInv, Signed
<1>9. \A s \in Shas : Voters(s) \subseteq Voters(s)' /\ Voters(s)' \in SUBSET Users
  <2>1. ASSUME NEW s \in Shas PROVE Voters(s) \subseteq Voters(s)'
    BY <1>1, <1>3, VotersGrow DEF QInv
  <2>2. ASSUME NEW s \in Shas PROVE Voters(s)' \in SUBSET Users
    BY <1>5, <1>8, VotersStayUsers
  <2> QED BY <2>1, <2>2
<1>10. head \in Shas /\ pull \in Shas
  BY DEF QInv, TypeOK
<1>11. ASSUME NEW s \in Shas, Honest(s) PROVE Honest(s)'
  BY <1>6, <1>7, <1>9, <1>11, ClaimsStay DEF Honest
<1>12. Honest(head)' /\ (pc' = "replaying" => Honest(pull)')
  BY <1>1, <1>10, <1>11 DEF QInv
<1>13. pc' = "checking permissions" => Sound(state, pull)'
  BY <1>1, <1>9, <1>10, ClaimsStay DEF QInv
<1>14. JustifiedCalls \subseteq JustifiedCalls'
  BY <1>1, <1>9, <1>10, ClaimsStay DEF JustifiedCalls, Justified
<1>15. todo' \in Seq(JustifiedCalls')
  BY <1>1, <1>14, SeqMonotonic DEF QInv
<1> QED BY <1>1, <1>5, <1>8, <1>12, <1>13, <1>15 DEF QInv

\* A new head has no comments of the bot yet.
LEMMA PushKeepsQInv == ASSUME QInv, Push PROVE QInv'
<1>1. /\ head < MaxSha /\ head' = head + 1 /\ comments' = comments
      /\ mergeable' = "unknown" /\ asked' = TRUE /\ stirred' = TRUE
      /\ UNCHANGED <<status, closed, merged, troubles, pc, pull, cached, state, todo>>
  BY DEF Push, Outside, worker
<1>2. PICK n \in 0..Len(comments) : since' = [since EXCEPT ![head'] = n]
  BY DEF Push
<1>3. /\ head \in 1..MaxSha /\ head' \in Shas /\ pull \in Shas /\ pull <= head /\ head \in Nat
      /\ comments \in Seq(Comment) /\ Len(comments) \in Nat
      /\ since \in [Shas -> Nat] /\ \A s \in Shas : since[s] <= Len(comments)
  <2>1. head \in 1..MaxSha /\ pull \in 1..MaxSha /\ pull <= head /\ MaxSha \in Nat
    BY BoundsAssumption DEF QInv, TypeOK, Shas
  <2>2. head' \in 1..MaxSha
    BY <1>1, <2>1
  <2>3. /\ comments \in Seq(Comment) /\ Len(comments) \in Nat
        /\ since \in [Shas -> Nat] /\ \A s \in Shas : since[s] <= Len(comments)
    BY LenProperties DEF QInv, TypeOK
  <2> QED BY <2>1, <2>2, <2>3 DEF Shas
<1>4. TypeOK'
  <2>1. since' \in [Shas -> Nat] /\ \A s \in Shas : since'[s] <= Len(comments')
    BY <1>1, <1>2, <1>3
  <2> QED BY <1>1, <1>3, <2>1 DEF QInv, TypeOK
<1>5. \A s \in 1..head : since'[s] = since[s]
  BY <1>1, <1>2, <1>3, BoundsAssumption DEF Shas
<1>6. \A i \in DOMAIN comments' : Signed(comments[i])'
  <2>1. 1..head \subseteq 1..head'
    BY <1>1, <1>3
  <2>2. \A i \in DOMAIN comments : Signed(comments[i])
    BY DEF QInv
  <2> QED BY <1>1, <2>1, <2>2 DEF Signed
<1>7. Voters(pull)' = Voters(pull)
  BY <1>1, <1>3, <1>5, BoundsAssumption DEF Voters, Cast, Shas
<1>8. Honest(head)'
  <2>1. ASSUME NEW i \in DOMAIN comments, comments[i].kind \notin VoteKinds
        PROVE  comments[i].sha # head'
    <3>1. comments[i].sha \in 1..head
      BY <2>1 DEF QInv, Signed
    <3> QED BY <1>1, <1>3, <3>1
  <2> QED BY <1>1, <2>1 DEF Honest
<1>9. \A app : Standing(app, pull) => Standing(app, pull)'
  BY <1>1, <1>7 DEF Standing
<1>10. pc' = "replaying" => Honest(pull)'
  BY <1>1, <1>7, <1>9 DEF QInv, Honest, Claim
<1>11. pc' = "checking permissions" => Sound(state, pull)'
  BY <1>1, <1>7, <1>9 DEF QInv, Sound
<1>12. JustifiedCalls \subseteq JustifiedCalls'
  <2>1. pull' # head'
    BY <1>1, <1>3
  <2> QED BY <1>1, <1>7, <2>1 DEF JustifiedCalls, Justified
<1>13. todo' \in Seq(JustifiedCalls')
  BY <1>1, <1>12, SeqMonotonic DEF QInv
<1>14. pull' <= head'
  BY <1>1, <1>3
<1> QED BY <1>4, <1>6, <1>8, <1>10, <1>11, <1>13, <1>14 DEF QInv

(* The worker thread *)

\* A visit starts with the head, about which every comment is honest.
LEMMA StartKeepsQInv == ASSUME QInv, StartVisit PROVE QInv'
<1>1. /\ UNCHANGED <<head, since, comments, status, mergeable, closed, merged, state, troubles>>
      /\ pull' = head /\ cached' = head /\ asked' = FALSE /\ stirred' = asked
      /\ pc' \in {"replaying", "acting"}
      /\ \/ todo' = <<Complain("empty")>> \/ todo' = <<Complain("conflicts")>> \/ todo' = <<>>
  BY DEF StartVisit, github
<1>2. \A w \in {"empty", "conflicts"} : Complain(w) \in Call
  BY DEF Complain, Call
<1>3. todo' \in Seq(Call)
  BY <1>1, <1>2, ShortSequences
<1>4. TypeOK'
  BY <1>1, <1>3 DEF QInv, TypeOK
<1>5. \A s : Voters(s)' = Voters(s)
  BY <1>1 DEF Voters, Cast
<1>6. \A s, app : Standing(app, s)' <=> Standing(app, s)
  BY <1>5 DEF Standing
<1>7. Honest(head)' /\ Honest(pull)'
  BY <1>1, <1>5, <1>6 DEF QInv, Honest, Claim
<1>8. \A i \in DOMAIN comments' : Signed(comments[i])'
  BY <1>1 DEF QInv, Signed
<1>9. todo' \in Seq(JustifiedCalls')
  <2>1. \A w \in {"empty", "conflicts"} : Complain(w) \in JustifiedCalls'
    BY <1>2 DEF JustifiedCalls, Justified, Complain
  <2> QED BY <1>1, <2>1, ShortSequences
<1>10. pull' <= head'
  <2>1. head \in 1..MaxSha
    BY DEF QInv, TypeOK, Shas
  <2> QED BY <1>1, <2>1, BoundsAssumption
<1> QED BY <1>1, <1>4, <1>7, <1>8, <1>9, <1>10 DEF QInv

\* The replay ends in a sound state.
LEMMA ReplayKeepsQInv == ASSUME QInv, ReplayComments PROVE QInv'
<1>1. /\ UNCHANGED <<head, since, comments, pull, status, mergeable, closed, merged, cached,
                     asked, stirred, troubles>>
      /\ state' = Replay /\ pc = "replaying"
      /\ pc' \in {"checking permissions", "acting"}
      /\ todo' = todo \/ (state'.name # "STATE_INITIAL" /\ todo' = Action(state'))
  BY DEF ReplayComments, github
<1>2. Sound(state', pull)
  BY <1>1, ReplaySound DEF QInv
<1>3. todo' \in Seq(JustifiedCalls)
  BY <1>1, <1>2, ActionJustified DEF QInv
<1>4. todo' \in Seq(Call)
  BY <1>3, SeqMonotonic DEF JustifiedCalls
<1>5. TypeOK'
  BY <1>1, <1>2, <1>4 DEF QInv, TypeOK, Sound
<1> QED BY <1>1, <1>2, <1>3, <1>5, SameHistory

\* The files are those of the head, whatever it is by now.
LEMMA CheckPermissionsKeepsQInv == ASSUME QInv, CheckPermissionsOfFiles PROVE QInv'
<1>1. /\ UNCHANGED <<head, since, comments, pull, status, mergeable, closed, merged, cached,
                     state, asked, stirred, troubles>>
      /\ pc = "checking permissions" /\ pc' = "acting"
      /\ todo' = ApprovalRequired(CheckPermissions(FileRules[head]), state.haveApproved)
  BY DEF CheckPermissionsOfFiles, github
<1>2. Stands(CheckPermissions(FileRules[head]), FileRules[head], {})
  BY HeadsFiles, CheckPermissionsStands DEF QInv, TypeOK
<1>3. state.haveApproved \in Seq([u : Voters(pull), what : VoteKinds])
  BY <1>1 DEF QInv, Sound
<1>4. todo' \in Seq(JustifiedCalls)
  <2>1. \A f \in FileRules[head] : File(f)
    BY HeadsFiles DEF QInv, TypeOK
  <2>2. {} \in SUBSET Voters(pull)
    OBVIOUS
  <2> QED BY <1>1, <1>2, <1>3, <2>1, <2>2, RequestsJustified DEF QInv
<1>5. todo' \in Seq(Call)
  BY <1>4, SeqMonotonic DEF JustifiedCalls
<1>6. TypeOK'
  BY <1>1, <1>5 DEF QInv, TypeOK
<1> QED BY <1>1, <1>4, <1>6, SameHistory

\* Calls that leave the comments alone.
LEMMA PlainCallKeepsQInv ==
    ASSUME QInv, CallSetStatus \/ CallRestoreReview \/ CallGetTest \/ CallMerge
    PROVE  QInv'
<1>1. /\ UNCHANGED <<head, since, comments, pull, cached, mergeable, asked, stirred, troubles>>
      /\ todo # <<>> /\ pc' \in {"idle", "acting"} /\ (state' = state \/ state' = Initial)
      /\ (closed' = closed \/ closed' = TRUE) /\ (merged' = merged \/ merged' = head)
  BY DEF CallSetStatus, CallRestoreReview, CallGetTest, CallMerge, OnlyThen, Calling,
         EndVisit, github
<1>2. Head(todo) \in Call /\ Tail(todo) \in Seq(JustifiedCalls)
  BY <1>1, NextCall
<1>3. todo' \in Seq(JustifiedCalls)
  <2>1. CASE CallSetStatus
    BY <1>2, <2>1 DEF CallSetStatus
  <2>2. CASE CallRestoreReview
    <3>1. SetStatus("review", "success") \in JustifiedCalls
      BY PlainCalls DEF Contexts, StatusValues
    <3>2. (IF Review = "success" THEN <<>> ELSE <<SetStatus("review", "success")>>)
              \in Seq(JustifiedCalls)
      BY <3>1, ShortSequences
    <3> QED BY <1>2, <2>2, <3>2, ConcatProperties DEF CallRestoreReview, OnlyThen
  <2>3. CASE CallGetTest
    BY <1>2, <2>3, EmptySeq DEF CallGetTest
  <2>4. CASE CallMerge
    BY <2>4, EmptySeq DEF CallMerge, EndVisit
  <2> QED BY <2>1, <2>2, <2>3, <2>4
<1>4. todo' \in Seq(Call)
  BY <1>3, SeqMonotonic DEF JustifiedCalls
<1>5. status' \in [Shas -> [Contexts -> StatusValues]]
  <2>1. CASE status' = status
    BY <2>1 DEF QInv, TypeOK
  <2>2. CASE CallSetStatus
    <3>1. Head(todo).context \in Contexts /\ Head(todo).value \in StatusValues
      BY <1>2, <2>2, CallFields DEF CallSetStatus, Calling
    <3>2. status' = [status EXCEPT ![cached][Head(todo).context] = Head(todo).value]
      BY <2>2 DEF CallSetStatus
    <3> QED BY <3>1, <3>2 DEF QInv, TypeOK
  <2> QED BY <2>1, <2>2 DEF CallRestoreReview, CallGetTest, CallMerge, OnlyThen, github
<1>6. state' \in StateRecord
  <2>1. Initial \in StateRecord
    <3>1. Pending({}) \in Value
      BY Values
    <3> QED BY <3>1, EmptySeq DEF Initial, StateRecord, States, NoVotes
  <2> QED BY <1>1, <2>1 DEF QInv, TypeOK
<1>7. TypeOK'
  BY <1>1, <1>4, <1>5, <1>6 DEF QInv, TypeOK
<1> QED BY <1>1, <1>3, <1>7, SameHistory

\* Calls that lead to further calls.
LEMMA AskingKeepsQInv ==
    ASSUME QInv, CallAskAgain \/ CallAskAgainForMerge \/ CallComplain
    PROVE  QInv'
<1> DEFINE c == Head(todo)
<1>1. /\ UNCHANGED <<head, since, comments, pull, cached, status, mergeable, closed, merged,
                     pc, state, asked, stirred, troubles>>
      /\ todo # <<>> /\ pc = "acting"
  BY DEF CallAskAgain, CallAskAgainForMerge, CallComplain, OnlyThen, Calling, github
<1>2. c \in Call /\ Justified(c) /\ Tail(todo) \in Seq(JustifiedCalls)
  BY <1>1, NextCall
<1>3. PICK calls \in Seq(JustifiedCalls) : todo' = calls \o Tail(todo)
  <2>1. <<>> \in Seq(JustifiedCalls) /\ <<SetStatus("review", "success")>> \in Seq(JustifiedCalls)
    BY PlainCalls, ShortSequences DEF Contexts, StatusValues
  <2>2. CASE CallAskAgain
    <3>1. RequestApproval(c.approvers) \in Seq(JustifiedCalls)
      BY <1>2, <2>2, CallFields, RequestJustified DEF CallAskAgain, Calling, Justified
    <3> QED BY <2>1, <2>2, <3>1 DEF CallAskAgain, OnlyThen
  <2>3. CASE CallAskAgainForMerge
    <3>1. RequestApproval(c.approvers) \in Seq(JustifiedCalls)
      BY <1>2, <2>3, CallFields, RequestJustified DEF CallAskAgainForMerge, Calling, Justified
    <3> DEFINE first == IF Review = "success" THEN <<>> ELSE <<SetStatus("review", "success")>>
               then == IF c.changed \/ Review # "success"
                       THEN RequestApproval(c.approvers) ELSE <<>>
    <3>2. first \in Seq(JustifiedCalls) /\ then \in Seq(JustifiedCalls)
      BY <2>1, <3>1
    <3>3. todo' = (first \o then) \o Tail(todo)
      BY <2>3 DEF CallAskAgainForMerge, OnlyThen
    <3> HIDE DEF first, then
    <3> QED BY <3>2, <3>3, ConcatProperties
  <2>4. CASE CallComplain
    <3>1. c.what \in {"empty", "conflicts"}
      BY <1>2, <2>4, CallFields DEF CallComplain, Calling
    <3>2. AddComment(c.what, Pending({})) \in JustifiedCalls
      BY <3>1, Values, WordyCalls DEF Claim, BotKinds
    <3>3. SetStatus("review", c.what) \in JustifiedCalls
      BY <3>1, PlainCalls DEF Contexts, StatusValues
    <3>4. <<AddComment(c.what, Pending({})), SetStatus("review", c.what)>> \in Seq(JustifiedCalls)
      BY <3>2, <3>3, ShortSequences
    <3> QED BY <2>1, <2>4, <3>4 DEF CallComplain, OnlyThen
  <2> QED BY <2>2, <2>3, <2>4
<1>4. todo' \in Seq(JustifiedCalls)
  BY <1>2, <1>3, ConcatProperties
<1>5. todo' \in Seq(Call)
  BY <1>4, SeqMonotonic DEF JustifiedCalls
<1>6. TypeOK'
  BY <1>1, <1>5 DEF QInv, TypeOK
<1> QED BY <1>1, <1>4, <1>6, SameHistory

\* The end of a visit, or its failure, forgets the calls.
LEMMA EndKeepsQInv == ASSUME QInv, MergeRefused \/ VisitEnds \/ CallFails PROVE QInv'
<1>1. /\ UNCHANGED <<head, since, comments, pull, cached, status, mergeable, closed, merged,
                     stirred>>
      /\ pc' = "idle" /\ state' = Initial /\ todo' = <<>>
      /\ (asked' = asked \/ asked' = TRUE) /\ (troubles' = troubles \/ Trouble)
  BY DEF MergeRefused, VisitEnds, CallFails, EndVisit, github
<1>2. Initial \in StateRecord
  <2>1. Pending({}) \in Value
    BY Values
  <2> QED BY <2>1, EmptySeq DEF Initial, StateRecord, States, NoVotes
<1>3. troubles' \in 0..MaxTroubles
  <2>1. troubles \in 0..MaxTroubles /\ MaxTroubles \in Nat
    BY BoundsAssumption DEF QInv, TypeOK
  <2> QED BY <1>1, <2>1 DEF Trouble
<1>4. <<>> \in Seq(Call) /\ <<>> \in Seq(JustifiedCalls)
  BY EmptySeq
<1>5. TypeOK'
  BY <1>1, <1>2, <1>3, <1>4 DEF QInv, TypeOK
<1> QED BY <1>1, <1>4, <1>5, SameHistory

\* While the commit of the visit is the head, the comment says of it what
\* the call was justified by; afterwards no visit replays the comment.
LEMMA CommentKeepsQInv == ASSUME QInv, CallAddComment PROVE QInv'
<1> DEFINE call == Head(todo)
           c == [who |-> Bot, kind |-> call.kind, sha |-> pull, approvers |-> call.approvers]
<1>1. /\ comments' = Append(comments, c)
      /\ UNCHANGED <<head, since, status, mergeable, closed, merged, troubles,
                     pc, pull, cached, state, asked, stirred>>
      /\ todo' = Tail(todo) /\ todo # <<>> /\ pc = "acting" /\ call.call = "add_comment"
  BY DEF CallAddComment, Calling
<1>2. call \in Call /\ Justified(call) /\ todo' \in Seq(JustifiedCalls)
  BY <1>1, NextCall
<1>3. call.kind \in BotKinds /\ call.approvers \in Value
  BY <1>1, <1>2, CallFields
<1> HIDE DEF call
<1>4. c \in Comment
  BY <1>3 DEF Comment, QInv, TypeOK
<1>5. /\ c.kind = call.kind /\ c.approvers = call.approvers /\ c.sha = pull /\ c.who = Bot
      /\ c.kind \notin VoteKinds
  BY <1>3 DEF BotKinds, VoteKinds
<1> HIDE DEF c
<1>6. /\ comments' \in Seq(Comment)
      /\ since' \in [Shas -> Nat] /\ \A s \in Shas : since'[s] <= Len(comments')
  BY <1>1, <1>4, OneMoreComment DEF QInv
<1>7. todo' \in Seq(Call)
  BY <1>2, SeqMonotonic DEF JustifiedCalls
<1>8. TypeOK'
  BY <1>1, <1>6, <1>7 DEF QInv, TypeOK
<1>9. \A i \in DOMAIN comments' : \/ i \in DOMAIN comments /\ comments'[i] = comments[i]
                                 \/ comments'[i] = c
  <2>1. /\ Len(comments) \in Nat /\ Len(comments') = Len(comments) + 1
        /\ DOMAIN comments = 1..Len(comments) /\ DOMAIN comments' = 1..Len(comments')
        /\ \A i \in 1..Len(comments) : comments'[i] = comments[i]
        /\ comments'[Len(comments')] = c
    BY <1>1, <1>4, OneMoreComment DEF QInv
  <2> QED BY <2>1
<1>10. pull \in Shas /\ head \in Shas /\ pull \in 1..head
  <2>1. pull \in 1..MaxSha /\ head \in 1..MaxSha /\ pull <= head
    BY DEF QInv, TypeOK, Shas
  <2> QED BY <2>1, BoundsAssumption DEF Shas
<1>11. \A i \in DOMAIN comments' : Signed(comments[i])'
  BY <1>1, <1>5, <1>9, <1>10 DEF QInv, Signed
<1>12. \A s \in Shas : Voters(s) \subseteq Voters(s)' /\ Voters(s)' \in SUBSET Users
  <2>1. ASSUME NEW s \in Shas PROVE Voters(s) \subseteq Voters(s)'
    BY <1>1, <1>4, VotersGrow DEF QInv
  <2>2. ASSUME NEW s \in Shas PROVE Voters(s)' \in SUBSET Users
    BY <1>8, <1>11, VotersStayUsers
  <2> QED BY <2>1, <2>2
<1>13. Honest(head)'
  <2>1. c.sha = head => Claim(c.kind, c.approvers, head)
    BY <1>1, <1>2, <1>5 DEF Justified
  <2>2. head' = head
    BY <1>1
  <2>3. \A kind, app : Claim(kind, app, head) => Claim(kind, app, head)'
    <3>1. ASSUME NEW s \in Shas, s = head, NEW kind, NEW app, Claim(kind, app, s)
          PROVE  Claim(kind, app, head)'
      <4>1. Claim(kind, app, s)'
        BY <1>12, <3>1, ClaimsStay
      <4> QED BY <2>2, <3>1, <4>1
    <3> QED BY <1>10, <3>1
  <2> QED BY <1>9, <2>1, <2>2, <2>3 DEF QInv, Honest
<1>14. JustifiedCalls \subseteq JustifiedCalls'
  BY <1>1, <1>10, <1>12, ClaimsStay DEF JustifiedCalls, Justified
<1>15. todo' \in Seq(JustifiedCalls')
  BY <1>2, <1>14, SeqMonotonic
<1>16. pull' <= head'
  BY <1>1 DEF QInv
<1> QED BY <1>1, <1>8, <1>11, <1>13, <1>15, <1>16 DEF QInv

\* QInv is inductive.
LEMMA QInvInductive == Spec => []QInv
<1>1. QInv /\ [Next]_vars => QInv'
  <2> SUFFICES ASSUME QInv, [Next]_vars PROVE QInv'
    OBVIOUS
  <2>1. CASE UNCHANGED vars
    <3>1. /\ UNCHANGED <<head, since, comments, pull, cached, status, mergeable, closed, merged,
                         pc, state, todo, asked, stirred, troubles>>
      BY <2>1 DEF vars, github, worker
    <3>2. TypeOK'
      BY <3>1 DEF QInv, TypeOK
    <3> QED BY <3>1, <3>2, SameHistory DEF QInv
  <2>2. CASE Visit
    BY <2>2, StartKeepsQInv, ReplayKeepsQInv, CheckPermissionsKeepsQInv, PlainCallKeepsQInv,
       AskingKeepsQInv, CommentKeepsQInv, EndKeepsQInv DEF Visit
  <2>3. CASE \E v \in Votes : Vote(v)
    BY <2>3, VoteKeepsQInv
  <2> QED BY <2>1, <2>2, <2>3, OutsideKeepsQInv, PushKeepsQInv, EndKeepsQInv DEF Next
<1> QED BY <1>1, InitQInv, PTL DEF Spec

-----------------------------------------------------------------------------
\* Every variable keeps its type: the calls still to be made, the comments
\* and the replayed state are what the code expects of them.
THEOREM TypeCorrect == Spec => []TypeOK
<1>1. QInv => TypeOK
  BY DEF QInv
<1> QED BY <1>1, QInvInductive, PTL

\* The bot never asks GitHub to merge before the users who commented since
\* the head commit of the visit satisfy the rules of its files, whatever was
\* pushed, voted, written or lost between any two API calls.
THEOREM MergesHaveTheirQuorum == Spec => []QuorumBeforeMerge
<1>1. QInv => QuorumBeforeMerge
  <2> SUFFICES ASSUME QInv, Merging PROVE Agreed(FileRules[pull], Cast(pull, VoteKinds))
    BY DEF QuorumBeforeMerge
  <2>1. Justified(Head(todo)) /\ Head(todo).call = "merge"
    BY NextCall DEF Merging
  <2> QED BY <2>1 DEF Justified, Voters
<1> QED BY <1>1, QInvInductive, PTL

-----------------------------------------------------------------------------
(* One verdict for a commit.  Until the bot has written one, only the last *)
(* call of an action writes it; once it has, every replay ends beyond the  *)
(* states whose actions could.                                             *)

IsVerdict(c) == c.call = "add_comment" /\ c.kind \in {"approved", "testing approved"}
NoneIn(calls)   == \A i \in DOMAIN calls : ~IsVerdict(calls[i])
LastOnly(calls) == \A i \in DOMAIN calls : IsVerdict(calls[i]) => i = Len(calls)

VInv ==
    /\ \A s \in 1..head : \A i \in Verdicts(s) : since[s] < i
    /\ \A s \in Shas : \A i, j \in Verdicts(s) : i = j
    /\ pc = "checking permissions" => Verdicts(pull) = {}
    /\ LastOnly(todo)
    /\ NoneIn(todo) \/ Verdicts(pull) = {}

Late == {"STATE_TESTS_ONLY", "STATE_TESTS_AUTOMERGE", "STATE_MERGE_APPROVAL_PENDING"}

\* Verdicts in a concatenation that starts without any.
LEMMA ConcatVerdicts ==
    ASSUME NEW S, NEW s \in Seq(S), NEW t \in Seq(S), NoneIn(s)
    PROVE  /\ NoneIn(t) => NoneIn(s \o t)
           /\ LastOnly(t) => LastOnly(s \o t)
<1>1. /\ Len(s) \in Nat /\ Len(t) \in Nat /\ DOMAIN s = 1..Len(s) /\ DOMAIN t = 1..Len(t)
      /\ s \o t \in Seq(S) /\ Len(s \o t) = Len(s) + Len(t)
      /\ DOMAIN (s \o t) = 1..Len(s) + Len(t)
      /\ \A i \in 1..Len(s) + Len(t) :
             (s \o t)[i] = IF i <= Len(s) THEN s[i] ELSE t[i - Len(s)]
  BY LenProperties, ConcatProperties
<1>2. ASSUME NEW i \in DOMAIN (s \o t), IsVerdict((s \o t)[i])
      PROVE  i - Len(s) \in DOMAIN t /\ IsVerdict(t[i - Len(s)])
  <2>1. ~(i <= Len(s))
    BY <1>1, <1>2 DEF NoneIn
  <2> QED BY <1>1, <1>2, <2>1
<1>3. NoneIn(t) => NoneIn(s \o t)
  BY <1>2 DEF NoneIn
<1>4. LastOnly(t) => LastOnly(s \o t)
  <2> SUFFICES ASSUME LastOnly(t), NEW i \in DOMAIN (s \o t), IsVerdict((s \o t)[i])
               PROVE  i = Len(s \o t)
    BY DEF LastOnly
  <2>1. i - Len(s) = Len(t)
    BY <1>2 DEF LastOnly
  <2> QED BY <1>1, <2>1
<1> QED BY <1>3, <1>4

\* Verdicts in short sequences.
LEMMA SingleCalls ==
    ASSUME NEW x, NEW y
    PROVE  /\ <<x>> \in Seq({x}) /\ <<x, y>> \in Seq({x, y}) /\ LastOnly(<<x>>)
           /\ ~IsVerdict(x) => NoneIn(<<x>>)
           /\ ~IsVerdict(x) /\ ~IsVerdict(y) => NoneIn(<<x, y>>)
           /\ NoneIn(<<>>) /\ LastOnly(<<>>)
BY DEF NoneIn, LastOnly

\* No verdict at all is no verdict before the last call.
LEMMA NoneIsLastOnly == ASSUME NEW calls, NoneIn(calls) PROVE LastOnly(calls)
BY DEF NoneIn, LastOnly

\* Which calls are verdicts.
LEMMA CallVerdicts ==
    /\ \A c, v : ~IsVerdict(SetStatus(c, v))
    /\ \A c : ~IsVerdict(GetTest(c)) /\ ~IsVerdict(Complain(c))
    /\ ~IsVerdict(RestoreReview) /\ ~IsVerdict(MergePull)
    /\ \A ch, a : ~IsVerdict(AskAgain(ch, a)) /\ ~IsVerdict(AskAgainForMerge(ch, a))
    /\ \A k, a : k \notin {"approved", "testing approved"} => ~IsVerdict(AddComment(k, a))
BY DEF IsVerdict, SetStatus, GetTest, Complain, RestoreReview, MergePull, AskAgain,
       AskAgainForMerge, AddComment

\* A request for approval is no verdict.
LEMMA RequestVerdicts ==
    ASSUME NEW app
    PROVE  NoneIn(RequestApproval(app))
<1>1. ~IsVerdict(SetStatus("review", "pending")) /\ ~IsVerdict(AddComment("approval required", app))
  BY CallVerdicts
<1> QED BY <1>1, SingleCalls DEF RequestApproval

\* The action of a state that asks for votes writes a verdict last, if at all.
LEMMA PendingVerdicts ==
    ASSUME NEW app, NEW votes
    PROVE  LastOnly(ApprovalPending(app, votes)) /\ LastOnly(ApprovalRequired(app, votes))
<1> DEFINE t == Tally(app, votes)
           last == IF t.testsOnly THEN AddComment("testing approved", app)
                                  ELSE AddComment("approved", Approved)
           tests == [i \in DOMAIN Tests |-> SetStatus(Tests[i], "pending")]
           first == SetStatus("review", "success")
           ask == AskAgain(t.changed, t.approvers)
           S == JustifiedCalls \union {last, first}
<1>1. CASE t.approvers.all
  <2>1. /\ ApprovalPending(app, votes) = (<<first>> \o tests) \o <<last>>
        /\ ApprovalRequired(app, votes) = ApprovalPending(app, votes) \o <<>>
    BY <1>1 DEF ApprovalPending, ApprovalRequired
  <2>2. NoneIn(<<first>>) /\ NoneIn(tests)
    <3>1. DOMAIN tests = DOMAIN Tests /\ \A i \in DOMAIN Tests : tests[i] = SetStatus(Tests[i], "pending")
      OBVIOUS
    <3> HIDE DEF tests
    <3> QED BY <3>1, CallVerdicts, SingleCalls DEF NoneIn
  <2>3. /\ <<first>> \in Seq(S) /\ tests \in Seq(S) /\ <<last>> \in Seq(S)
    <3>1. tests \in Seq(JustifiedCalls)
      BY TestCalls
    <3> HIDE DEF tests, last, first
    <3> QED BY <3>1, SeqMonotonic, ShortSequences
  <2> HIDE DEF tests, last, first, S
  <2>4. <<first>> \o tests \in Seq(S) /\ NoneIn(<<first>> \o tests)
    BY <2>2, <2>3, ConcatProperties, ConcatVerdicts
  <2>5. /\ ApprovalPending(app, votes) \in Seq(S)
        /\ LastOnly(ApprovalPending(app, votes))
    BY <2>1, <2>3, <2>4, ConcatProperties, ConcatVerdicts, SingleCalls
  <2>6. ApprovalRequired(app, votes) = ApprovalPending(app, votes)
    BY <2>1, <2>5, ConcatEmptySeq
  <2> QED BY <2>5, <2>6
<1>2. CASE ~t.approvers.all
  <2> DEFINE request == RequestApproval(t.approvers)
             a == SetStatus("review", "pending")
             b == AddComment("approval required", t.approvers)
             R == {ask, a, b}
  <2>1. /\ ApprovalPending(app, votes) = <<ask>>
        /\ ApprovalRequired(app, votes) = <<ask>> \o request
    BY <1>2 DEF ApprovalPending, ApprovalRequired
  <2>2. NoneIn(<<ask>>) /\ NoneIn(request)
    BY CallVerdicts, SingleCalls, RequestVerdicts
  <2>3. request = <<a, b>>
    BY DEF RequestApproval
  <2> HIDE DEF ask, a, b
  <2>4. <<ask>> \in Seq(R) /\ <<a, b>> \in Seq(R)
    OBVIOUS
  <2>5. NoneIn(<<ask>> \o request)
    <3> HIDE DEF R, request
    <3> QED BY <2>2, <2>3, <2>4, ConcatVerdicts
  <2> QED BY <2>1, <2>2, <2>5, NoneIsLastOnly
<1> QED BY <1>1, <1>2

\* The actions of the states that follow a verdict write none.
LEMMA LateVerdicts ==
    ASSUME NEW st, st.name \in Late
    PROVE  NoneIn(Action(st))
<1>1. ASSUME NEW call, ~IsVerdict(call) PROVE NoneIn(WhenTestsPass(call))
  <2> DEFINE gets == [i \in DOMAIN Tests |-> GetTest(Tests[i])]
             rest == IF Tests = <<>> THEN <<>> ELSE gets \o <<call>>
             S == JustifiedCalls \union {call}
  <2>1. gets \in Seq(S) /\ <<call>> \in Seq(S) /\ <<RestoreReview>> \in Seq(S) /\ <<>> \in Seq(S)
    <3>1. gets \in Seq(JustifiedCalls) /\ RestoreReview \in S
      BY TestCalls, PlainCalls
    <3> HIDE DEF gets
    <3> QED BY <3>1, SeqMonotonic, ShortSequences
  <2>2. NoneIn(gets)
    <3>1. DOMAIN gets = DOMAIN Tests /\ \A i \in DOMAIN Tests : gets[i] = GetTest(Tests[i])
      OBVIOUS
    <3> HIDE DEF gets
    <3> QED BY <3>1, CallVerdicts DEF NoneIn
  <2>3. NoneIn(<<RestoreReview>>) /\ NoneIn(<<call>>) /\ NoneIn(<<>>)
    BY <1>1, CallVerdicts, SingleCalls
  <2>4. WhenTestsPass(call) = <<RestoreReview>> \o rest
    BY DEF WhenTestsPass
  <2> HIDE DEF gets, S
  <2>5. NoneIn(gets \o <<call>>) /\ gets \o <<call>> \in Seq(S)
    BY <2>1, <2>2, <2>3, ConcatProperties, ConcatVerdicts
  <2>6. rest \in Seq(S) /\ NoneIn(rest)
    BY <2>1, <2>3, <2>5
  <2> HIDE DEF rest
  <2> QED BY <2>1, <2>3, <2>4, <2>6, ConcatVerdicts
<1>2. CASE st.name = "STATE_TESTS_ONLY"
  BY <1>1, <1>2, CallVerdicts DEF Action
<1>3. CASE st.name = "STATE_TESTS_AUTOMERGE"
  BY <1>1, <1>3, CallVerdicts DEF Action
<1>4. CASE st.name = "STATE_MERGE_APPROVAL_PENDING"
  <2> DEFINE t == Tally(st.approvers, st.haveApproved_p2)
  <2>1. Action(st) = IF t.approvers.all THEN <<MergePull>>
                     ELSE <<AskAgainForMerge(t.changed, t.approvers)>>
    BY <1>4 DEF Action
  <2> HIDE DEF t
  <2> QED BY <2>1, CallVerdicts, SingleCalls
<1> QED BY <1>2, <1>3, <1>4 DEF Late

\* No comment leads back from the states that follow a verdict.
LEMMA LateStays ==
    ASSUME NEW st \in StateRecord, NEW c, st.name \in Late
    PROVE  Evolve(st, c).name \in Late
<1>1. CASE st.name \notin From(c.kind)
  BY <1>1 DEF Evolve
<1>2. CASE st.name \in From(c.kind) /\ c.kind \in VoteKinds
  BY <1>2 DEF Evolve, StateRecord
<1>3. CASE st.name \in From(c.kind) /\ c.kind \notin VoteKinds
  <2>1. c.kind = "tests OK"
    BY <1>3 DEF From, Late
  <2>2. To(c.kind) = "STATE_MERGE_APPROVAL_PENDING" /\ c.kind # "approved"
    BY <2>1 DEF To
  <2>3. \/ Evolve(st, c) = st
        \/ Evolve(st, c) = [st EXCEPT !.name = To(c.kind), !.approvers = Reparsed(c.approvers)]
    BY <1>3, <2>2 DEF Evolve
  <2> QED BY <2>2, <2>3 DEF StateRecord, Late
<1> QED BY <1>1, <1>2, <1>3

Announces(c, sha) == c.kind \in {"approved", "testing approved"} /\ c.sha = sha /\ c.who = Bot

\* A verdict about the commit of the visit is recognised.
LEMMA VerdictDecides ==
    ASSUME NEW st \in StateRecord, NEW c, Announces(c, pull)
    PROVE  Evolve(st, c).name \in Late
<1> USE DEF Announces
<1>1. CASE st.name \in Late
  BY <1>1, LateStays
<1>2. CASE st.name \in {"STATE_INITIAL", "STATE_APPROVAL_PENDING"}
  <2>1. st.name \in From(c.kind) /\ c.kind \notin VoteKinds
    BY <1>2 DEF From, VoteKinds
  <2>2. MayComment(st, c.who)
    BY DEF MayComment
  <2>3. Evolve(st, c) = IF c.kind = "approved"
                        THEN [st EXCEPT !.name = To(c.kind)]
                        ELSE [st EXCEPT !.name = To(c.kind), !.approvers = Reparsed(c.approvers)]
    BY <2>1, <2>2 DEF Evolve
  <2>4. To(c.kind) \in Late
    BY DEF To, Late
  <2> QED BY <2>3, <2>4 DEF StateRecord
<1> QED BY <1>1, <1>2 DEF StateRecord, States, Late

\* A visit to a commit with a verdict finds it.
LEMMA ReplayFindsVerdict ==
    ASSUME QInv, VInv, Honest(pull), Verdicts(pull) # {}
    PROVE  Replay.name \in Late
<1>1. /\ comments \in Seq(Comment) /\ Len(comments) \in Nat /\ since[pull] \in Nat
      /\ DOMAIN comments = 1..Len(comments) /\ pull \in 1..head
  <2>1. /\ comments \in Seq(Comment) /\ since \in [Shas -> Nat] /\ pull \in Shas
        /\ head \in Shas /\ pull <= head
    BY DEF QInv, TypeOK
  <2>2. pull \in 1..head
    BY <2>1, BoundsAssumption DEF Shas
  <2> QED BY <2>1, <2>2, LenProperties
<1>2. PICK after : /\ Replay = after[Len(comments)]
                   /\ \A n \in since[pull]..Len(comments) : Sound(after[n], pull)
                   /\ \A n \in since[pull] + 1..Len(comments) :
                          after[n] = Evolve(after[n - 1], comments[n])
  BY ReplayRounds DEF QInv
<1>3. PICK v \in Verdicts(pull) : TRUE
  OBVIOUS
<1>4. /\ v \in since[pull] + 1..Len(comments) /\ comments[v].sha = pull
      /\ comments[v].kind \in {"approved", "testing approved"} /\ v \in DOMAIN comments
  <2>1. /\ v \in DOMAIN comments /\ comments[v].sha = pull
        /\ comments[v].kind \in {"approved", "testing approved"}
    BY <1>3 DEF Verdicts
  <2>2. since[pull] < v
    BY <1>1, <1>3 DEF VInv
  <2>3. v \in 1..Len(comments)
    BY <1>1, <2>1
  <2> DEFINE low == since[pull]
             high == Len(comments)
  <2>4. low \in Nat /\ high \in Nat /\ low < v /\ v \in 1..high
    BY <1>1, <2>2, <2>3
  <2>5. v \in low + 1..high
    <3> HIDE DEF low, high
    <3> QED BY <2>4
  <2> QED BY <2>1, <2>5
<1>5. comments[v].who = Bot
  <2> QED BY <1>4 DEF QInv, Signed, VoteKinds
<1> DEFINE lo == since[pull]
           hi == Len(comments)
<1>9. lo \in Nat /\ hi \in Nat /\ v \in lo + 1..hi
  BY <1>1, <1>4
<1>10. /\ v \in Nat /\ v <= hi /\ v - 1 \in lo..hi
       /\ \A n \in v..hi : n \in Nat /\ n \in lo + 1..hi
       /\ \A n \in v + 1..hi : n - 1 \in v..hi /\ n - 1 \in lo..hi /\ n - 1 < n
       /\ \A n \in v..hi : n = v \/ n \in v + 1..hi
  <2> HIDE DEF lo, hi
  <2> QED BY <1>9
<1>6. \A n \in since[pull]..Len(comments) : after[n] \in StateRecord
  BY <1>2 DEF Sound
<1>7. after[v].name \in Late
  <2>1. after[v - 1] \in StateRecord
    BY <1>6, <1>10
  <2>2. after[v] = Evolve(after[v - 1], comments[v])
    BY <1>2, <1>4
  <2>3. Evolve(after[v - 1], comments[v]).name \in Late
    <3>1. Announces(comments[v], pull)
      BY <1>4, <1>5 DEF Announces
    <3> QED BY <2>1, <3>1, VerdictDecides
  <2> QED BY <2>2, <2>3
<1> DEFINE Bad == {n \in v..hi : after[n].name \notin Late}
<1>8. Bad = {}
  <2> SUFFICES ASSUME Bad # {} PROVE FALSE
    OBVIOUS
  <2>1. PICK k \in Bad : \A i \in Bad : <<i, k>> \notin OpToRel(<, Nat)
    <3>1. Bad \subseteq Nat
      BY <1>10
    <3> HIDE DEF Bad
    <3> QED BY <3>1, NatLessThanWellFounded, WFMin
  <2>2. k \in v + 1..hi /\ k \in v..hi
    BY <1>7, <1>10
  <2>3. k - 1 \notin Bad
    <3>1. k - 1 \in Nat /\ k \in Nat /\ k - 1 < k
      BY <1>10, <2>2
    <3> HIDE DEF Bad
    <3> QED BY <2>1, <3>1 DEF OpToRel
  <2>4. after[k - 1].name \in Late /\ k - 1 \in lo..hi
    BY <1>10, <2>2, <2>3
  <2>5. after[k] = Evolve(after[k - 1], comments[k])
    BY <1>2, <1>10, <2>2
  <2>6. after[k].name \in Late
    BY <1>6, <2>4, <2>5, LateStays
  <2> QED BY <2>6
<1>11. hi \in v..hi
  <2> HIDE DEF lo, hi
  <2> QED BY <1>9
<1> QED BY <1>2, <1>8, <1>11

\* VInv holds before anything happens.
LEMMA InitVInv == Init => VInv
<1> SUFFICES ASSUME Init PROVE VInv
  OBVIOUS
<1>1. \A s : Verdicts(s) = {}
  BY DEF Init, Verdicts
<1> QED BY <1>1, SingleCalls DEF Init, VInv

\* A step that writes no verdict and stays with the commit of the visit.
LEMMA SameVerdicts ==
    ASSUME VInv, \A s : Verdicts(s)' = Verdicts(s), UNCHANGED <<head, since, pull>>,
           pc' = "checking permissions" => Verdicts(pull) = {},
           LastOnly(todo'), NoneIn(todo') \/ Verdicts(pull) = {}
    PROVE  VInv'
BY DEF VInv, LastOnly, NoneIn

\* A step that writes no comment writes no verdict.
LEMMA NoComment == ASSUME comments' = comments PROVE \A s : Verdicts(s)' = Verdicts(s)
BY DEF Verdicts

\* What is left of the calls after the first of them.
LEMMA RestVerdicts ==
    ASSUME QInv, VInv, todo # <<>>
    PROVE  /\ LastOnly(Tail(todo))
           /\ NoneIn(Tail(todo)) \/ Verdicts(pull) = {}
           /\ IsVerdict(Head(todo)) => NoneIn(Tail(todo)) /\ Verdicts(pull) = {}
           /\ Tail(todo) \in Seq(JustifiedCalls)
<1>1. /\ todo \in Seq(JustifiedCalls) /\ Len(todo) \in Nat \ {0} /\ DOMAIN todo = 1..Len(todo)
      /\ Head(todo) = todo[1] /\ Tail(todo) \in Seq(JustifiedCalls)
      /\ Len(Tail(todo)) = Len(todo) - 1 /\ DOMAIN Tail(todo) = 1..Len(todo) - 1
      /\ \A i \in 1..Len(todo) - 1 : Tail(todo)[i] = todo[i + 1]
  <2>1. todo \in Seq(JustifiedCalls)
    BY DEF QInv
  <2> QED BY <2>1, EmptySeq, HeadTailProperties, LenProperties
<1>2. ASSUME NEW i \in DOMAIN Tail(todo), IsVerdict(Tail(todo)[i])
      PROVE  i + 1 \in DOMAIN todo /\ IsVerdict(todo[i + 1]) /\ i + 1 = Len(todo)
  <2>1. i + 1 \in DOMAIN todo /\ IsVerdict(todo[i + 1])
    BY <1>1, <1>2
  <2> QED BY <2>1 DEF VInv, LastOnly
<1>3. LastOnly(Tail(todo))
  BY <1>1, <1>2 DEF LastOnly
<1>4. NoneIn(Tail(todo)) \/ Verdicts(pull) = {}
  BY <1>2 DEF VInv, NoneIn
<1>5. ASSUME IsVerdict(Head(todo)) PROVE NoneIn(Tail(todo)) /\ Verdicts(pull) = {}
  <2>1. 1 \in DOMAIN todo /\ IsVerdict(todo[1])
    BY <1>1, <1>5
  <2>2. 1 = Len(todo) /\ ~NoneIn(todo)
    BY <2>1 DEF VInv, LastOnly, NoneIn
  <2>3. Len(todo) - 1 = 0
    BY <2>2
  <2>4. DOMAIN Tail(todo) = {}
    <3>1. DOMAIN Tail(todo) = 1..0
      BY <1>1, <2>3
    <3> QED BY <3>1
  <2> QED BY <2>2, <2>4 DEF VInv, NoneIn
<1> QED BY <1>1, <1>3, <1>4, <1>5

\* Calls that are no verdict, made before the rest.
LEMMA BeforeRest ==
    ASSUME QInv, VInv, todo # <<>>, NEW S, NEW calls \in Seq(S), NoneIn(calls)
    PROVE  /\ LastOnly(calls \o Tail(todo))
           /\ NoneIn(calls \o Tail(todo)) \/ Verdicts(pull) = {}
<1> DEFINE T == JustifiedCalls \union S
<1>1. calls \in Seq(T) /\ Tail(todo) \in Seq(T)
  BY RestVerdicts, SeqMonotonic
<1> HIDE DEF T
<1> QED BY <1>1, RestVerdicts, ConcatVerdicts

\* The verdicts there are after one more comment.
LEMMA OneMoreVerdict ==
    ASSUME QInv, NEW c \in Comment, comments' = Append(comments, c)
    PROVE  \A s : Verdicts(s)' = Verdicts(s) \union
               (IF c.sha = s /\ IsVerdict([call |-> "add_comment", kind |-> c.kind])
                THEN {Len(comments)'} ELSE {})
<1>1. /\ Len(comments) \in Nat /\ Len(comments') = Len(comments) + 1
      /\ DOMAIN comments = 1..Len(comments) /\ DOMAIN comments' = 1..Len(comments')
      /\ \A i \in 1..Len(comments) : comments'[i] = comments[i]
      /\ comments'[Len(comments')] = c
  BY OneMoreComment
<1>2. /\ DOMAIN comments' = DOMAIN comments \union {Len(comments')}
      /\ \A i \in DOMAIN comments : comments'[i] = comments[i]
  BY <1>1
<1>3. Len(comments') \notin DOMAIN comments
  BY <1>1
<1> QED BY <1>1, <1>2, <1>3 DEF Verdicts, IsVerdict

-----------------------------------------------------------------------------
(* VInv, action by action *)

\* Steps that touch neither the comments nor the calls to be made.
LEMMA OutsideKeepsVInv ==
    ASSUME VInv, UNCHANGED <<head, since, comments, pull, pc, todo>>
    PROVE  VInv'
BY NoComment, SameVerdicts DEF VInv

\* The end of a visit forgets the calls.
LEMMA EndKeepsVInv ==
    ASSUME VInv, UNCHANGED <<head, since, comments, pull>>, EndVisit
    PROVE  VInv'
BY NoComment, SameVerdicts, SingleCalls DEF EndVisit

\* A vote is no verdict.
LEMMA VoteKeepsVInv == ASSUME QInv, VInv, NEW v \in Votes, Vote(v) PROVE VInv'
<1> DEFINE c == [who |-> v.who, kind |-> v.kind, sha |-> NoCommit, approvers |-> Pending({})]
<1>1. /\ comments' = Append(comments, c) /\ UNCHANGED <<head, since, pull, pc, todo>>
  BY DEF Vote, Outside, worker
<1>2. v.who \in Users /\ v.kind \in VoteKinds
  BY VotesAssumption
<1>3. c \in Comment
  BY <1>2, Values DEF Comment
<1>4. c.kind \in VoteKinds
  BY <1>2
<1> HIDE DEF c
<1>5. \A s : Verdicts(s)' = Verdicts(s)
  BY <1>1, <1>3, <1>4, OneMoreVerdict DEF IsVerdict, VoteKinds
<1> QED BY <1>1, <1>5, SameVerdicts DEF VInv

\* A new head has no verdict yet.
LEMMA PushKeepsVInv == ASSUME QInv, VInv, Push PROVE VInv'
<1>1. /\ head' = head + 1 /\ comments' = comments /\ UNCHANGED <<pc, pull, todo>>
  BY DEF Push, Outside, worker
<1>2. \A s : Verdicts(s)' = Verdicts(s)
  BY <1>1, NoComment
<1>3. head \in 1..MaxSha /\ head \in Nat /\ since \in [Shas -> Nat] /\ 1..head \subseteq Shas
  <2>1. head \in 1..MaxSha /\ since \in [Shas -> Nat]
    BY DEF QInv, TypeOK, Shas
  <2> QED BY <2>1, BoundsAssumption DEF Shas
<1>4. Verdicts(head') = {}
  <2> SUFFICES ASSUME NEW i \in Verdicts(head') PROVE FALSE
    OBVIOUS
  <2>1. i \in DOMAIN comments /\ comments[i].sha = head' /\ comments[i].kind \notin VoteKinds
    BY DEF Verdicts, VoteKinds
  <2>2. comments[i].sha \in 1..head
    BY <2>1 DEF QInv, Signed
  <2> QED BY <1>1, <1>3, <2>1, <2>2
<1>5. \A s \in 1..head : since'[s] = since[s]
  <2>1. PICK n \in 0..Len(comments) : since' = [since EXCEPT ![head'] = n]
    BY DEF Push
  <2> QED BY <1>1, <1>3, <2>1
<1>6. \A s \in 1..head' : \A i \in Verdicts(s) : since'[s] < i
  <2>1. ASSUME NEW s \in 1..head' PROVE s \in 1..head \/ s = head'
    BY <1>1, <1>3
  <2> QED BY <1>4, <1>5, <2>1 DEF VInv
<1> QED BY <1>1, <1>2, <1>6 DEF VInv, LastOnly, NoneIn

\* A visit starts with no verdict to announce.
LEMMA StartKeepsVInv == ASSUME VInv, StartVisit PROVE VInv'
<1>1. /\ UNCHANGED <<head, since, comments>> /\ pc' \in {"replaying", "acting"}
      /\ \/ todo' = <<Complain("empty")>> \/ todo' = <<Complain("conflicts")>> \/ todo' = <<>>
  BY DEF StartVisit, github
<1>2. NoneIn(todo') /\ LastOnly(todo')
  BY <1>1, CallVerdicts, SingleCalls, NoneIsLastOnly
<1>3. \A s : Verdicts(s)' = Verdicts(s)
  BY <1>1, NoComment
<1>4. /\ \A s \in 1..head' : \A i \in Verdicts(s)' : since'[s] < i
      /\ \A s \in Shas : \A i, j \in Verdicts(s)' : i = j
  BY <1>1, <1>3 DEF VInv
<1>5. pc' # "checking permissions"
  BY <1>1
<1> QED BY <1>2, <1>4, <1>5 DEF VInv, NoneIn, LastOnly

\* A visit that finds a verdict ends beyond the states that write one.
LEMMA ReplayKeepsVInv == ASSUME QInv, VInv, ReplayComments PROVE VInv'
<1>1. /\ UNCHANGED <<head, since, comments, pull>> /\ pc = "replaying" /\ state' = Replay
      /\ \/ state'.name = "STATE_INITIAL" /\ todo' = todo
         \/ state'.name # "STATE_INITIAL" /\ todo' = Action(state') /\ pc' = "acting"
  BY DEF ReplayComments, github
<1>2. Verdicts(pull) # {} => state'.name \in Late
  BY <1>1, ReplayFindsVerdict DEF QInv
<1>3. state'.name \in States
  BY <1>1, ReplaySound DEF QInv, Sound, StateRecord
<1>4. CASE state'.name \in Late
  <2>1. NoneIn(todo') /\ LastOnly(todo') /\ pc' = "acting"
    BY <1>1, <1>4, LateVerdicts, NoneIsLastOnly DEF Late
  <2>2. UNCHANGED <<head, since, pull>> /\ \A s : Verdicts(s)' = Verdicts(s)
    BY <1>1, NoComment
  <2>3. pc' # "checking permissions"
    BY <2>1
  <2> QED BY <2>1, <2>2, <2>3, SameVerdicts
<1>5. CASE state'.name \notin Late
  <2>1. Verdicts(pull) = {}
    BY <1>2, <1>5
  <2>2. LastOnly(todo')
    <3>1. CASE state'.name = "STATE_INITIAL"
      BY <1>1, <3>1 DEF VInv
    <3>2. CASE state'.name = "STATE_APPROVAL_PENDING"
      BY <1>1, <3>2, PendingVerdicts DEF Action
    <3> QED BY <1>3, <1>5, <3>1, <3>2 DEF States, Late
  <2> QED BY <1>1, <2>1, <2>2, NoComment, SameVerdicts
<1> QED BY <1>4, <1>5

\* The first request for approval comes before any verdict.
LEMMA CheckPermissionsKeepsVInv == ASSUME VInv, CheckPermissionsOfFiles PROVE VInv'
<1>1. /\ UNCHANGED <<head, since, comments, pull>>
      /\ pc = "checking permissions" /\ pc' = "acting"
      /\ todo' = ApprovalRequired(CheckPermissions(FileRules[head]), state.haveApproved)
  BY DEF CheckPermissionsOfFiles, github
<1>2. Verdicts(pull) = {} /\ LastOnly(todo')
  BY <1>1, PendingVerdicts DEF VInv
<1> QED BY <1>1, <1>2, NoComment, SameVerdicts

\* Calls that set or read a status.
LEMMA CallKeepsVInv ==
    ASSUME QInv, VInv, CallSetStatus \/ CallRestoreReview \/ CallGetTest
    PROVE  VInv'
<1> DEFINE success == SetStatus("review", "success")
<1>1. /\ UNCHANGED <<head, since, comments, pull, pc>> /\ todo # <<>> /\ pc = "acting"
      /\ \/ todo' = Tail(todo) \/ todo' = <<>>
         \/ todo' = <<>> \o Tail(todo) \/ todo' = <<success>> \o Tail(todo)
  BY DEF CallSetStatus, CallRestoreReview, CallGetTest, OnlyThen, Calling, github
<1>2. /\ <<>> \in Seq({}) /\ <<success>> \in Seq({success})
      /\ NoneIn(<<>>) /\ LastOnly(<<>>) /\ NoneIn(<<success>>)
  BY CallVerdicts, SingleCalls, EmptySeq
<1> HIDE DEF success
<1>3. LastOnly(todo') /\ (NoneIn(todo') \/ Verdicts(pull) = {})
  BY <1>1, <1>2, RestVerdicts, BeforeRest
<1> QED BY <1>1, <1>3, NoComment, SameVerdicts

\* What the bot asks or complains about is no verdict.
LEMMA AskingKeepsVInv ==
    ASSUME QInv, VInv, CallAskAgain \/ CallAskAgainForMerge \/ CallComplain
    PROVE  VInv'
<1> DEFINE c == Head(todo)
           success == SetStatus("review", "success")
           a == SetStatus("review", "pending")
           b == AddComment("approval required", c.approvers)
           d == AddComment(c.what, Pending({}))
           e == SetStatus("review", c.what)
           S == {success, a, b, d, e}
<1>1. /\ UNCHANGED <<head, since, comments, pull, pc>> /\ todo # <<>> /\ pc = "acting"
  BY DEF CallAskAgain, CallAskAgainForMerge, CallComplain, OnlyThen, Calling, github
<1>2. c \in Call
  BY <1>1, NextCall
<1>3. ~IsVerdict(success) /\ ~IsVerdict(a) /\ ~IsVerdict(b) /\ ~IsVerdict(e)
  BY CallVerdicts
<1>4. CallComplain => ~IsVerdict(d)
  <2> SUFFICES ASSUME CallComplain PROVE ~IsVerdict(d)
    OBVIOUS
  <2>1. c.what \in {"empty", "conflicts"}
    BY <1>2, CallFields DEF CallComplain, Calling
  <2> QED BY <2>1, CallVerdicts
<1>5. RequestApproval(c.approvers) = <<a, b>>
  BY DEF RequestApproval
<1>6. /\ CallAskAgain => todo' = <<>> \o Tail(todo) \/ todo' = <<a, b>> \o Tail(todo)
      /\ CallAskAgainForMerge =>
             \E x \in {<<>>, <<success>>}, y \in {<<>>, <<a, b>>} : todo' = (x \o y) \o Tail(todo)
      /\ CallComplain => todo' = <<>> \o Tail(todo) \/ todo' = <<d, e>> \o Tail(todo)
  BY <1>5 DEF CallAskAgain, CallAskAgainForMerge, CallComplain, OnlyThen
<1> HIDE DEF c, success, a, b, d, e
<1>7. /\ <<>> \in Seq(S) /\ <<success>> \in Seq(S) /\ <<a, b>> \in Seq(S) /\ <<d, e>> \in Seq(S)
      /\ NoneIn(<<>>) /\ NoneIn(<<success>>) /\ NoneIn(<<a, b>>)
      /\ CallComplain => NoneIn(<<d, e>>)
  <2>1. <<>> \in Seq(S) /\ <<success>> \in Seq(S) /\ <<a, b>> \in Seq(S) /\ <<d, e>> \in Seq(S)
    OBVIOUS
  <2> QED BY <1>3, <1>4, <2>1, SingleCalls
<1> HIDE DEF S
<1>8. \E calls \in Seq(S) : NoneIn(calls) /\ todo' = calls \o Tail(todo)
  <2>1. CASE CallAskAgain
    BY <1>6, <1>7, <2>1
  <2>2. CASE CallAskAgainForMerge
    <3>1. PICK x \in {<<>>, <<success>>}, y \in {<<>>, <<a, b>>} : todo' = (x \o y) \o Tail(todo)
      BY <1>6, <2>2
    <3>2. x \in Seq(S) /\ y \in Seq(S) /\ NoneIn(x) /\ NoneIn(y)
      BY <1>7
    <3>3. x \o y \in Seq(S) /\ NoneIn(x \o y)
      BY <3>2, ConcatProperties, ConcatVerdicts
    <3> QED BY <3>1, <3>3
  <2>3. CASE CallComplain
    BY <1>6, <1>7, <2>3
  <2> QED BY <2>1, <2>2, <2>3
<1>9. LastOnly(todo') /\ (NoneIn(todo') \/ Verdicts(pull) = {})
  BY <1>1, <1>8, BeforeRest
<1> QED BY <1>1, <1>9, NoComment, SameVerdicts

\* The verdict is the last call of its action, and there was none before.
LEMMA CommentKeepsVInv == ASSUME QInv, VInv, CallAddComment PROVE VInv'
<1> DEFINE call == Head(todo)
           c == [who |-> Bot, kind |-> call.kind, sha |-> pull, approvers |-> call.approvers]
<1>1. /\ comments' = Append(comments, c)
      /\ UNCHANGED <<head, since, pc, pull>>
      /\ todo' = Tail(todo) /\ todo # <<>> /\ pc = "acting" /\ call.call = "add_comment"
  BY DEF CallAddComment, Calling
<1>2. call \in Call
  BY <1>1, NextCall
<1>3. call.kind \in BotKinds /\ call.approvers \in Value
  BY <1>1, <1>2, CallFields
<1>4. c \in Comment
  BY <1>3 DEF Comment, QInv, TypeOK
<1>5. c.kind = call.kind /\ c.sha = pull
  OBVIOUS
<1> HIDE DEF c
<1>6. \A s : Verdicts(s)' = Verdicts(s) \union
               (IF pull = s /\ IsVerdict(call) THEN {Len(comments)'} ELSE {})
  BY <1>1, <1>4, <1>5, OneMoreVerdict DEF IsVerdict
<1>7. LastOnly(todo') /\ (NoneIn(todo') \/ Verdicts(pull) = {})
  BY <1>1, RestVerdicts
<1>8. CASE ~IsVerdict(call)
  BY <1>1, <1>6, <1>7, <1>8, SameVerdicts
<1>9. CASE IsVerdict(call)
  <2>1. NoneIn(todo') /\ Verdicts(pull) = {}
    BY <1>1, <1>9, RestVerdicts
  <2>2. pull \in Shas /\ since[pull] < Len(comments)'
    <3>1. pull \in Shas /\ since[pull] \in Nat /\ since[pull] <= Len(comments)
      BY DEF QInv, TypeOK
    <3>2. Len(comments) \in Nat /\ Len(comments') = Len(comments) + 1
      BY <1>1, <1>4, OneMoreComment
    <3> QED BY <3>1, <3>2
  <2>3. /\ \A s : s = pull => Verdicts(s)' = {Len(comments)'}
        /\ \A s : s # pull => Verdicts(s)' = Verdicts(s)
    BY <1>1, <1>6, <1>9, <2>1
  <2> HIDE DEF call
  <2>4. ASSUME NEW s \in 1..head, NEW i \in Verdicts(s)' PROVE since[s] < i
    <3>1. CASE s = pull
      BY <2>2, <2>3, <2>4, <3>1
    <3>2. CASE s # pull
      <4>1. i \in Verdicts(s)
        BY <2>3, <2>4, <3>2
      <4> QED BY <4>1 DEF VInv
    <3> QED BY <3>1, <3>2
  <2>5. ASSUME NEW s \in Shas, NEW i \in Verdicts(s)', NEW j \in Verdicts(s)' PROVE i = j
    <3>1. CASE s = pull
      BY <2>3, <2>5, <3>1
    <3>2. CASE s # pull
      <4>1. i \in Verdicts(s) /\ j \in Verdicts(s)
        BY <2>3, <2>5, <3>2
      <4> QED BY <4>1 DEF VInv
    <3> QED BY <3>1, <3>2
  <2> QED BY <1>1, <1>7, <2>1, <2>4, <2>5 DEF VInv, NoneIn, LastOnly
<1> QED BY <1>8, <1>9

\* VInv is inductive relative to QInv.
LEMMA VInvInductive == Spec => []VInv
<1>1. QInv /\ VInv /\ [Next]_vars => VInv'
  <2> SUFFICES ASSUME QInv, VInv, [Next]_vars PROVE VInv'
    OBVIOUS
  <2>1. CASE UNCHANGED vars
    BY <2>1, OutsideKeepsVInv DEF vars, github, worker
  <2>2. CASE Visit
    <3>1. CASE CallMerge \/ MergeRefused \/ VisitEnds
      BY <3>1, EndKeepsVInv DEF CallMerge, MergeRefused, VisitEnds, github
    <3> QED BY <2>2, <3>1, StartKeepsVInv, ReplayKeepsVInv, CheckPermissionsKeepsVInv,
               CallKeepsVInv, AskingKeepsVInv, CommentKeepsVInv DEF Visit
  <2>3. CASE \E v \in Votes : Vote(v)
    BY <2>3, VoteKeepsVInv
  <2>4. CASE Mergeability \/ TargetMoves \/ Close \/ (\E i \in DOMAIN Tests : TestFinishes(Tests[i]))
    BY <2>4, OutsideKeepsVInv DEF Mergeability, TargetMoves, Close, TestFinishes, Outside, worker
  <2>5. CASE RefreshCache
    BY <2>5, OutsideKeepsVInv DEF RefreshCache, github
  <2>6. CASE CallFails
    BY <2>6, EndKeepsVInv DEF CallFails, github
  <2> QED BY <2>1, <2>2, <2>3, <2>4, <2>5, <2>6, PushKeepsVInv DEF Next
<1> QED BY <1>1, InitVInv, QInvInductive, PTL DEF Spec

\* The bot announces at most one verdict about each commit, however its
\* visits are interrupted and whatever is voted or pushed between its calls.
THEOREM VerdictsAreFinal == Spec => []OneVerdict
<1>1. QInv /\ VInv => OneVerdict
  <2> SUFFICES ASSUME VInv, NEW s \in Shas PROVE Cardinality(Verdicts(s)) <= 1
    BY DEF OneVerdict
  <2>1. CASE Verdicts(s) = {}
    BY <2>1, FS_EmptySet
  <2>2. CASE Verdicts(s) # {}
    <3>1. PICK i \in Verdicts(s) : TRUE
      BY <2>2
    <3>2. Verdicts(s) = {i}
      <4>1. \A j \in Verdicts(s) : j = i
        BY DEF VInv
      <4> HIDE DEF Verdicts
      <4> QED BY <3>1, <4>1
    <3>3. Cardinality({i}) = 1
      BY FS_Singleton
    <3> QED BY <3>2, <3>3
  <2> QED BY <2>1, <2>2
<1> QED BY <1>1, QInvInductive, VInvInductive, PTL
-----------------------------------------------------------------------------
(* A visit with nothing new writes nothing, because the one before it has  *)
(* left nothing to say.                                                    *)

\* No user who voted counts any more.
Heard(app, votes) == ~app.all /\ \A i \in DOMAIN votes : ~Counts(app, votes[i].u)

TestNames == {Tests[i] : i \in DOMAIN Tests}
Failing == \E test \in TestNames : status[head][test] # "success"

\* What is wrong with a pull request that is not looked at any further.
Wrong == IF Paths[head] = {} THEN "empty" ELSE "conflicts"
Sane == Paths[head] # {} /\ mergeable = "clean"
Insane == Paths[head] = {} \/ mergeable = "dirty"

\* The comments and statuses are those that a visit leaves.
Answered ==
    \/ /\ Replay.name = "STATE_APPROVAL_PENDING"
       /\ Heard(Replay.approvers, Replay.haveApproved)
       /\ Review \in {"none", "pending"}
    \/ Replay.name = "STATE_TESTS_ONLY" /\ (Tests = <<>> \/ Failing)
    \/ Replay.name \in {"STATE_TESTS_AUTOMERGE", "STATE_MERGE_APPROVAL_PENDING"}

Settled == (Insane /\ Review = Wrong) \/ (Sane /\ Answered)

\* The calls of a visit, from its first to its last, when nothing happens
\* meanwhile.  One that found nothing new has none that writes.
Complaining ==
    /\ Insane
    /\ \/ todo = <<Complain(Wrong)>> /\ (stirred \/ Review = Wrong)
       \/ todo = <<AddComment(Wrong, Pending({})), SetStatus("review", Wrong)>> /\ stirred
       \/ todo = <<SetStatus("review", Wrong)>>

PendingFirst == SetStatus("review", "pending")
Request(app) == AddComment("approval required", app)

AskingFor(app) ==
    /\ Sane
    /\ Replay.name \in {"STATE_INITIAL", "STATE_APPROVAL_PENDING"}
    /\ Heard(app, Replay.haveApproved)
    /\ \/ /\ todo \in {<<AskAgain(changed, app)>> : changed \in BOOLEAN}
          /\ Replay.name = "STATE_APPROVAL_PENDING"
          /\ todo[1].changed \/ app = Replay.approvers
          /\ stirred \/ (~todo[1].changed /\ Review \in {"none", "pending"})
       \/ stirred /\ todo \in {<<AskAgain(changed, app), PendingFirst, Request(app)>> :
                                   changed \in BOOLEAN}
       \/ stirred /\ todo = <<PendingFirst, Request(app)>>
       \/ stirred /\ todo = <<Request(app)>> /\ Review = "pending"
       \/ stirred /\ todo = <<PendingFirst, Request(app), PendingFirst, Request(app)>>
       \/ stirred /\ todo = <<Request(app), PendingFirst, Request(app)>>

\* The last of the calls lists whom it asks for.
Asking == todo # <<>> /\ AskingFor(todo[Len(todo)].approvers)

\* The tests are reset before the verdict is written.
Resets == {SetStatus("review", "success")} \union {SetStatus(test, "pending") : test \in TestNames}

Approving ==
    /\ Sane /\ stirred
    /\ Replay.name \in {"STATE_INITIAL", "STATE_APPROVAL_PENDING"}
    /\ todo # <<>>
    /\ IsVerdict(todo[Len(todo)])
    /\ \A i \in 1..Len(todo) - 1 : todo[i] \in Resets
    /\ \A test \in TestNames :
           \/ status[head][test] # "success"
           \/ \E i \in 1..Len(todo) - 1 : todo[i] = SetStatus(test, "pending")

\* Calls that write no comment.
Reading == {RestoreReview, SetStatus("review", "success")}
           \union {GetTest(test) : test \in TestNames}

IsReport(c) == c.call = "add_comment" /\ c.kind = "tests OK"

Testing ==
    /\ Sane
    /\ Replay.name = "STATE_TESTS_ONLY"
    /\ \/ Tests = <<>> /\ todo \in Seq(Reading)
       \/ /\ todo # <<>>
          /\ IsReport(todo[Len(todo)])
          /\ \A i \in 1..Len(todo) - 1 : todo[i] \in Reading
          /\ \/ stirred
             \/ \E i \in 1..Len(todo) - 1 : \E test \in TestNames :
                    todo[i] = GetTest(test) /\ status[head][test] # "success"

Pressing(c) ==
    \/ c.call = "ask_again_for_merge"
    \/ c.call = "add_comment" /\ c.kind = "approval required"

\* Calls that a pull request in a state that merges leads to.
Decisions(name) ==
    Reading \union {MergePull}
    \union (IF name = "STATE_MERGE_APPROVAL_PENDING"
            THEN {PendingFirst} \union {c \in Call : Pressing(c)} ELSE {})

Deciding ==
    /\ Sane
    /\ Replay.name \in {"STATE_TESTS_AUTOMERGE", "STATE_MERGE_APPROVAL_PENDING"}
    /\ state.name = Replay.name
    /\ todo \in Seq(Decisions(state.name))

OnCourse ==
    \/ todo = <<>> /\ Settled
    \/ Complaining
    \/ Asking
    \/ Approving
    \/ Testing
    \/ Deciding

SInv ==
    /\ pc # "idle" /\ asked => stirred
    /\ ~asked => /\ pull = head /\ cached = head
                 /\ pc = "idle" => Settled
                 /\ pc = "replaying" => Sane /\ (stirred \/ Answered)
                 /\ pc = "checking permissions" =>
                        Sane /\ state = Replay /\ state.name = "STATE_INITIAL" /\ stirred
                 /\ pc = "acting" => OnCourse

-----------------------------------------------------------------------------
(* One more comment is one more step of the replay. *)

\* Evolve, for the commit of any visit.
EvolveFor(sha, st, c) ==
    LET vote == [u |-> c.who, what |-> c.kind]
    IN  CASE st.name \notin From(c.kind) -> st
          [] c.kind \in VoteKinds /\ st.name \in From(c.kind) ->
                 IF st.name = "STATE_MERGE_APPROVAL_PENDING"
                 THEN [st EXCEPT !.haveApproved_p2 = Append(@, vote)]
                 ELSE [st EXCEPT !.haveApproved = Append(@, vote)]
          [] OTHER ->
                 IF c.sha # sha \/ ~MayComment(st, c.who) THEN st
                 ELSE IF c.kind = "approved"
                 THEN [st EXCEPT !.name = To(c.kind)]
                 ELSE [st EXCEPT !.name = To(c.kind), !.approvers = Reparsed(c.approvers)]

\* Evolve is EvolveFor of the visit's commit.
LEMMA EvolvesForPull == \A st, c : Evolve(st, c) = EvolveFor(pull, st, c)
BY DEF Evolve, EvolveFor

Unfolding ==
    comments \in Seq(Comment) /\ since[pull] \in 0..Len(comments) =>
        \E after : /\ Replay = after[Len(comments)]
                   /\ after[since[pull]] = Initial
                   /\ \A n \in since[pull] + 1..Len(comments) :
                          after[n] = EvolveFor(pull, after[n - 1], comments[n])

\* The replay, step by step.
LEMMA ReplayUnfolds == Unfolding
BY ReplayStepwise, EvolvesForPull DEF Unfolding

\* The same in the next state.
LEMMA NextReplayUnfolds == Unfolding'
BY ReplayUnfolds, PTL

\* Two functions that take the same steps from the same start.
Rounds(f, lo, hi, cs, sha) == \A n \in lo + 1..hi : f[n] = EvolveFor(sha, f[n - 1], cs[n])

\* They end in the same state.
LEMMA SameSteps ==
    ASSUME NEW lo \in Nat, NEW hi \in Nat, lo <= hi, NEW cs, NEW sha, NEW f, NEW g, f[lo] = g[lo],
           Rounds(f, lo, hi, cs, sha), Rounds(g, lo, hi, cs, sha)
    PROVE  f[hi] = g[hi]
<1> DEFINE Bad == {n \in lo..hi : f[n] # g[n]}
<1>1. Bad = {}
  <2> SUFFICES ASSUME Bad # {} PROVE FALSE
    OBVIOUS
  <2>1. PICK k \in Bad : \A j \in Bad : <<j, k>> \notin OpToRel(<, Nat)
    <3>1. Bad \subseteq Nat
      OBVIOUS
    <3> HIDE DEF Bad
    <3> QED BY <3>1, NatLessThanWellFounded, WFMin
  <2>2. k \in lo + 1..hi /\ k - 1 \in lo..hi /\ k - 1 \in Nat /\ k \in Nat /\ k - 1 < k
    OBVIOUS
  <2>3. k - 1 \notin Bad
    <3> HIDE DEF Bad
    <3> QED BY <2>1, <2>2 DEF OpToRel
  <2>4. f[k - 1] = g[k - 1]
    BY <2>2, <2>3
  <2>5. f[k] = g[k]
    BY <2>2, <2>4 DEF Rounds
  <2> QED BY <2>5
<1>2. hi \in lo..hi
  OBVIOUS
<1> QED BY <1>1, <1>2

\* The replay of one more comment.
LEMMA ReplayGoesOn ==
    ASSUME TypeOK, NEW c \in Comment, comments' = Append(comments, c),
           since' = since, pull' = pull
    PROVE  Replay' = Evolve(Replay, c)
<1> DEFINE lo == since[pull]
           hi == Len(comments)
<1>1. /\ comments \in Seq(Comment) /\ lo \in Nat /\ hi \in Nat /\ lo <= hi /\ pull \in Shas
  <2>1. comments \in Seq(Comment) /\ pull \in Shas /\ since \in [Shas -> Nat] /\ lo <= hi
    BY DEF TypeOK
  <2> QED BY <2>1, LenProperties
<1>2. /\ comments' \in Seq(Comment) /\ Len(comments') = hi + 1
      /\ \A i \in 1..hi : comments'[i] = comments[i]
      /\ comments'[hi + 1] = c
  BY <1>1, OneMoreComment
<1>3. /\ lo \in 0..hi /\ lo \in 0..hi + 1 /\ hi + 1 \in lo + 1..hi + 1 /\ (hi + 1) - 1 = hi
      /\ \A n \in lo + 1..hi : n \in lo + 1..hi + 1 /\ n \in 1..hi
  <2> HIDE DEF lo, hi
  <2> QED BY <1>1
<1>4. PICK f : /\ Replay = f[hi]
               /\ f[lo] = Initial
               /\ \A n \in lo + 1..hi : f[n] = EvolveFor(pull, f[n - 1], comments[n])
  BY <1>1, <1>3, ReplayUnfolds DEF Unfolding
<1>5. PICK g : /\ Replay' = g[hi + 1]
               /\ g[lo] = Initial
               /\ \A n \in lo + 1..hi + 1 : g[n] = EvolveFor(pull, g[n - 1], comments'[n])
  <2>1. /\ comments' \in Seq(Comment) /\ since'[pull'] = lo /\ Len(comments') = hi + 1
    BY <1>2
  <2>2. Unfolding'
    BY NextReplayUnfolds
  <2>3. \E g : /\ Replay' = g[hi + 1]
               /\ g[lo] = Initial'
               /\ \A n \in lo + 1..hi + 1 : g[n] = EvolveFor(pull, g[n - 1], comments'[n])
    BY <1>3, <2>1, <2>2 DEF Unfolding
  <2>4. Initial' = Initial
    BY DEF Initial, Pending, NoVotes
  <2> HIDE DEF Initial
  <2> QED BY <2>3, <2>4
<1>6. f[hi] = g[hi]
  <2>1. Rounds(g, lo, hi, comments, pull)
    BY <1>2, <1>3, <1>5 DEF Rounds
  <2>2. Rounds(f, lo, hi, comments, pull)
    BY <1>4 DEF Rounds
  <2>3. f[lo] = g[lo] /\ lo \in Nat /\ hi \in Nat /\ lo <= hi
    BY <1>1, <1>4, <1>5
  <2> HIDE DEF lo, hi
  <2> QED BY <2>1, <2>2, <2>3, SameSteps
<1>7. g[hi + 1] = EvolveFor(pull, g[hi], comments'[hi + 1])
  BY <1>3, <1>5
<1> QED BY <1>2, <1>4, <1>5, <1>6, <1>7, EvolvesForPull

\* A comment of the bot about the commit of the visit.
LEMMA BotIsHeard ==
    ASSUME NEW st \in StateRecord, NEW c, c.who = Bot, c.sha = pull
    PROVE  LET next == Evolve(st, c)
           IN  /\ c.kind \in {"empty", "conflicts"} => next = st
               /\ c.kind = "approval required" /\ st.name \in {"STATE_INITIAL", "STATE_APPROVAL_PENDING"}
                      => /\ next.name = "STATE_APPROVAL_PENDING"
                         /\ next.approvers = Reparsed(c.approvers)
                         /\ next.haveApproved = st.haveApproved
               /\ c.kind = "approval required" /\ st.name \in Late => next = st
               /\ c.kind \in {"approved", "testing approved"}
                  /\ st.name \in {"STATE_INITIAL", "STATE_APPROVAL_PENDING"}
                      => next.name \in {"STATE_TESTS_ONLY", "STATE_TESTS_AUTOMERGE"}
               /\ c.kind = "tests OK" /\ st.name = "STATE_TESTS_ONLY"
                      => next.name = "STATE_MERGE_APPROVAL_PENDING"
<1> DEFINE next == Evolve(st, c)
<1>1. MayComment(st, c.who)
  BY DEF MayComment
<1>2. c.kind \notin VoteKinds /\ st.name \in From(c.kind) =>
          next = IF c.kind = "approved"
                 THEN [st EXCEPT !.name = To(c.kind)]
                 ELSE [st EXCEPT !.name = To(c.kind), !.approvers = Reparsed(c.approvers)]
  BY <1>1 DEF Evolve
<1>3. st.name \notin From(c.kind) => next = st
  BY DEF Evolve
<1> HIDE DEF next
<1>4. ASSUME c.kind \in {"empty", "conflicts"} PROVE next = st
  BY <1>3, <1>4 DEF From, VoteKinds
<1>5. ASSUME c.kind = "approval required", st.name \in {"STATE_INITIAL", "STATE_APPROVAL_PENDING"}
      PROVE  /\ next.name = "STATE_APPROVAL_PENDING"
             /\ next.approvers = Reparsed(c.approvers)
             /\ next.haveApproved = st.haveApproved
  <2>1. st.name \in From(c.kind) /\ c.kind \notin VoteKinds /\ To(c.kind) = "STATE_APPROVAL_PENDING"
    BY <1>5 DEF From, VoteKinds, To
  <2> QED BY <1>2, <1>5, <2>1 DEF StateRecord
<1>6. ASSUME c.kind = "approval required", st.name \in Late PROVE next = st
  BY <1>3, <1>6 DEF From, VoteKinds, Late
<1>7. ASSUME c.kind \in {"approved", "testing approved"},
             st.name \in {"STATE_INITIAL", "STATE_APPROVAL_PENDING"}
      PROVE  next.name \in {"STATE_TESTS_ONLY", "STATE_TESTS_AUTOMERGE"}
  <2>1. /\ st.name \in From(c.kind) /\ c.kind \notin VoteKinds
        /\ To(c.kind) \in {"STATE_TESTS_ONLY", "STATE_TESTS_AUTOMERGE"}
    BY <1>7 DEF From, VoteKinds, To
  <2> QED BY <1>2, <2>1 DEF StateRecord
<1>8. ASSUME c.kind = "tests OK", st.name = "STATE_TESTS_ONLY"
      PROVE  next.name = "STATE_MERGE_APPROVAL_PENDING"
  <2>1. /\ st.name \in From(c.kind) /\ c.kind \notin VoteKinds
        /\ To(c.kind) = "STATE_MERGE_APPROVAL_PENDING"
    BY <1>8 DEF From, VoteKinds, To
  <2> QED BY <1>2, <1>8, <2>1 DEF StateRecord
<1> QED BY <1>4, <1>5, <1>6, <1>7, <1>8 DEF next

-----------------------------------------------------------------------------
(* Votes that have been heard do not count again. *)

\* A vote leaves nobody new to wait for, and not the one who voted.
LEMMA ApproveHears ==
    ASSUME NEW app \in Value, NEW u
    PROVE  LET left == Approve(app, u)
           IN  /\ app.all => left.all
               /\ left.all \/ (~Counts(left, u) /\ \A v : ~Counts(app, v) => ~Counts(left, v))
<1> DEFINE left == Approve(app, u)
           struck == {[u |-> g.u \ {u}, n |-> IF u \in g.u THEN g.n - 1 ELSE g.n] :
                          g \in app.groups}
           still == {g \in struck : g.n >= 1}
<1>1. CASE u \in Admins \/ app.all
  <2>1. left.all
    BY <1>1 DEF Approve, Approved
  <2> QED BY <2>1
<1>2. CASE u \notin Admins /\ ~app.all /\ u \notin Flat(app)
  <2>1. left = app
    BY <1>2 DEF Approve
  <2>2. ~Counts(left, u)
    BY <1>2, <2>1 DEF Counts
  <2> QED BY <1>2, <2>1, <2>2
<1>3. CASE u \notin Admins /\ ~app.all /\ u \in Flat(app)
  <2>1. left = IF still = {} THEN Approved ELSE Pending(still)
    BY <1>3 DEF Approve
  <2>2. CASE still = {}
    BY <1>3, <2>1, <2>2 DEF Approved
  <2>3. CASE still # {}
    <3>1. ~left.all /\ left.groups = still
      BY <2>1, <2>3 DEF Pending
    <3>2. ASSUME NEW v \in Flat(left) PROVE v # u /\ v \in Flat(app)
      <4>1. PICK g \in still : v \in g.u
        BY <3>1, <3>2 DEF Flat
      <4>2. PICK h \in app.groups : g.u = h.u \ {u}
        BY <4>1
      <4> QED BY <4>1, <4>2 DEF Flat
    <3>3. u \notin Flat(left) /\ \A v : v \notin Flat(app) => v \notin Flat(left)
      BY <3>2
    <3>4. /\ ~Counts(left, u)
          /\ \A v : ~Counts(app, v) => ~Counts(left, v)
      <4> HIDE DEF left
      <4> QED BY <1>3, <3>1, <3>3 DEF Counts
    <3> QED BY <1>3, <3>4
  <2> QED BY <2>2, <2>3
<1> QED BY <1>1, <1>2, <1>3

\* What the tally leaves has heard every vote; if none counted, it is what
\* it was.
LEMMA TallyHears ==
    ASSUME NEW app \in Value, NEW votes, Len(votes) \in Nat, DOMAIN votes = 1..Len(votes),
           \A n \in 1..Len(votes), a \in Value : Approve(a, votes[n].u) \in Value
    PROVE  LET t == Tally(app, votes)
           IN  /\ t.approvers.all \/ Heard(t.approvers, votes)
               /\ t.changed \in BOOLEAN /\ t.approvers \in Value
               /\ t.changed \/ t.approvers = app
<1>1. PICK after : /\ Tally(app, votes) = after[Len(votes)]
                   /\ after[0] = Uncounted(app)
                   /\ \A n \in 1..Len(votes) : after[n] = CountOne(after[n - 1], votes[n])
  BY TallyStepwise
<1> DEFINE Good(t, n) == /\ t.approvers \in Value
                         /\ t.approvers.all \/ \A i \in 1..n : ~Counts(t.approvers, votes[i].u)
                         /\ t.changed \in BOOLEAN
                         /\ t.changed \/ t.approvers = app
           Bad == {n \in 0..Len(votes) : ~Good(after[n], n)}
<1>2. Good(after[0], 0)
  BY <1>1 DEF Uncounted
<1>3. ASSUME NEW n \in 1..Len(votes), Good(after[n - 1], n - 1) PROVE Good(after[n], n)
  <2> DEFINE t == after[n - 1]
             v == votes[n]
  <2>1. after[n] = CountOne(t, v)
    BY <1>1
  <2>2. \A i \in 1..n : i = n \/ i \in 1..n - 1
    OBVIOUS
  <2>3. CASE Counts(t.approvers, v.u)
    <3>1. after[n].approvers = Approve(t.approvers, v.u) /\ after[n].changed = TRUE
      BY <2>1, <2>3 DEF CountOne
    <3>2. Approve(t.approvers, v.u) \in Value
      BY <1>3
    <3>3. /\ t.approvers.all => after[n].approvers.all
          /\ after[n].approvers.all \/ (/\ ~Counts(after[n].approvers, v.u)
                                        /\ \A x : ~Counts(t.approvers, x) => ~Counts(after[n].approvers, x))
      BY <1>3, <3>1, ApproveHears
    <3>4. after[n].approvers.all \/ \A i \in 1..n : ~Counts(after[n].approvers, votes[i].u)
      <4> SUFFICES ASSUME ~after[n].approvers.all, NEW i \in 1..n
                   PROVE  ~Counts(after[n].approvers, votes[i].u)
        OBVIOUS
      <4>1. CASE i = n
        BY <3>3, <4>1
      <4>2. CASE i \in 1..n - 1
        BY <1>3, <3>3, <4>2
      <4> QED BY <2>2, <4>1, <4>2
    <3> QED BY <3>1, <3>2, <3>4
  <2>4. CASE ~Counts(t.approvers, v.u)
    <3>1. after[n] = t
      BY <2>1, <2>4 DEF CountOne
    <3> QED BY <1>3, <2>2, <2>4, <3>1
  <2> QED BY <2>3, <2>4
<1>4. Bad = {}
  <2> SUFFICES ASSUME Bad # {} PROVE FALSE
    OBVIOUS
  <2>1. PICK k \in Bad : \A j \in Bad : <<j, k>> \notin OpToRel(<, Nat)
    <3>1. Bad \subseteq Nat
      OBVIOUS
    <3> HIDE DEF Bad
    <3> QED BY <3>1, NatLessThanWellFounded, WFMin
  <2> HIDE DEF Good
  <2>2. k \in 1..Len(votes)
    BY <1>2
  <2>3. k - 1 \notin Bad
    <3>1. k - 1 \in Nat /\ k \in Nat /\ k - 1 < k
      BY <2>2
    <3> HIDE DEF Bad
    <3> QED BY <2>1, <3>1 DEF OpToRel
  <2>4. Good(after[k - 1], k - 1)
    BY <2>2, <2>3
  <2> QED BY <1>3, <2>2, <2>4
<1>5. Good(after[Len(votes)], Len(votes))
  <2> HIDE DEF Good
  <2> QED BY <1>4
<1> HIDE DEF Bad
<1>6. ~Tally(app, votes).approvers.all => Heard(Tally(app, votes).approvers, votes)
  BY <1>1, <1>5 DEF Heard
<1> QED BY <1>1, <1>5, <1>6

\* Votes that have been heard change nothing.
LEMMA HeardBefore ==
    ASSUME NEW app, NEW votes, Len(votes) \in Nat, DOMAIN votes = 1..Len(votes), Heard(app, votes)
    PROVE  Tally(app, votes) = Uncounted(app)
<1>1. PICK after : /\ Tally(app, votes) = after[Len(votes)]
                   /\ after[0] = Uncounted(app)
                   /\ \A n \in 1..Len(votes) : after[n] = CountOne(after[n - 1], votes[n])
  BY TallyStepwise
<1> DEFINE Bad == {n \in 0..Len(votes) : after[n] # Uncounted(app)}
<1>2. Bad = {}
  <2> SUFFICES ASSUME Bad # {} PROVE FALSE
    OBVIOUS
  <2>1. PICK k \in Bad : \A j \in Bad : <<j, k>> \notin OpToRel(<, Nat)
    <3>1. Bad \subseteq Nat
      OBVIOUS
    <3> HIDE DEF Bad
    <3> QED BY <3>1, NatLessThanWellFounded, WFMin
  <2>2. k \in 1..Len(votes) /\ k - 1 \in 0..Len(votes) /\ k - 1 \in Nat /\ k \in Nat /\ k - 1 < k
    BY <1>1
  <2>3. k - 1 \notin Bad
    <3> HIDE DEF Bad
    <3> QED BY <2>1, <2>2 DEF OpToRel
  <2>4. after[k - 1] = Uncounted(app)
    BY <2>2, <2>3
  <2>5. ~Counts(app, votes[k].u)
    BY <2>2 DEF Heard
  <2>6. after[k] = Uncounted(app)
    <3>1. after[k] = CountOne(Uncounted(app), votes[k])
      BY <1>1, <2>2, <2>4
    <3>2. Uncounted(app).approvers = app
      BY DEF Uncounted
    <3> HIDE DEF Uncounted
    <3> QED BY <2>5, <3>1, <3>2 DEF CountOne
  <2> QED BY <2>6
<1>3. Len(votes) \in 0..Len(votes)
  OBVIOUS
<1> QED BY <1>1, <1>2, <1>3

\* Reading approvers back from a comment makes nobody count.
LEMMA ReparsedHears ==
    ASSUME NEW app \in Value, NEW votes, Heard(app, votes)
    PROVE  Heard(Reparsed(app), votes)
<1>1. ~app.all /\ Reparsed(app) = Pending(Pushed(app.groups))
  BY DEF Heard, Reparsed
<1>2. ~Reparsed(app).all /\ Reparsed(app).groups \subseteq app.groups
  BY <1>1 DEF Pending, Pushed
<1>3. \A u : Counts(Reparsed(app), u) => Counts(app, u)
  BY <1>2 DEF Counts, Flat
<1> QED BY <1>2, <1>3 DEF Heard

-----------------------------------------------------------------------------
(* The calls of a visit *)

\* The fields of the calls.
LEMMA CallContents ==
    ASSUME NEW x, NEW y
    PROVE  /\ SetStatus(x, y).call = "set_status"
           /\ SetStatus(x, y).context = x /\ SetStatus(x, y).value = y
           /\ AddComment(x, y).call = "add_comment"
           /\ AddComment(x, y).kind = x /\ AddComment(x, y).approvers = y
           /\ AskAgain(x, y).call = "ask_again"
           /\ AskAgain(x, y).changed = x /\ AskAgain(x, y).approvers = y
           /\ AskAgainForMerge(x, y).call = "ask_again_for_merge"
           /\ Complain(x).call = "complain" /\ Complain(x).what = x
           /\ GetTest(x).call = "get_test" /\ GetTest(x).context = x
           /\ MergePull.call = "merge" /\ RestoreReview.call = "restore_review"
BY DEF SetStatus, AddComment, AskAgain, AskAgainForMerge, Complain, GetTest, MergePull, RestoreReview

\* One call and two more.
LEMMA OneBeforeTwo ==
    ASSUME NEW x, NEW y, NEW z
    PROVE  <<x>> \o <<y, z>> = <<x, y, z>>
<1> DEFINE S == {x, y, z}
           s == <<x>> \o <<y, z>>
           t == <<x, y, z>>
<1>1. /\ s \in Seq(S) /\ Len(s) = 3
      /\ s[1] = x /\ s[2] = y /\ s[3] = z
  OBVIOUS
<1>2. /\ t \in Seq(S) /\ Len(t) = 3
      /\ t[1] = x /\ t[2] = y /\ t[3] = z
  OBVIOUS
<1> HIDE DEF S, s, t
<1>3. \A i \in 1..Len(s) : i = 1 \/ i = 2 \/ i = 3
  BY <1>1
<1>4. s = t
  BY <1>1, <1>2, <1>3, SeqEqual
<1> QED BY <1>4 DEF s, t

\* Two pairs in a row.
LEMMA PairsJoin ==
    ASSUME NEW x, NEW y, NEW z, NEW w
    PROVE  <<x, y>> \o <<z, w>> = <<x, y, z, w>>
<1> DEFINE S == {x, y, z, w}
           s == <<x, y>> \o <<z, w>>
           t == <<x, y, z, w>>
<1>1. /\ s \in Seq(S) /\ Len(s) = 4
      /\ s[1] = x /\ s[2] = y /\ s[3] = z /\ s[4] = w
  OBVIOUS
<1>2. /\ t \in Seq(S) /\ Len(t) = 4
      /\ t[1] = x /\ t[2] = y /\ t[3] = z /\ t[4] = w
  OBVIOUS
<1> HIDE DEF S, s, t
<1>3. \A i \in 1..Len(s) : i = 1 \/ i = 2 \/ i = 3 \/ i = 4
  BY <1>1
<1>4. s = t
  BY <1>1, <1>2, <1>3, SeqEqual
<1> QED BY <1>4 DEF s, t

\* Short sequences.
LEMMA Tuples ==
    ASSUME NEW x, NEW y, NEW z, NEW w
    PROVE  /\ Head(<<x>>) = x /\ Tail(<<x>>) = <<>> /\ <<x>> # <<>>
           /\ Head(<<x, y>>) = x /\ Tail(<<x, y>>) = <<y>> /\ <<x, y>> # <<>>
           /\ Head(<<x, y, z>>) = x /\ Tail(<<x, y, z>>) = <<y, z>> /\ <<x, y, z>> # <<>>
           /\ Head(<<x, y, z, w>>) = x /\ Tail(<<x, y, z, w>>) = <<y, z, w>> /\ <<x, y, z, w>> # <<>>
           /\ <<>> \o <<>> = <<>> /\ <<x, y>> \o <<>> = <<x, y>>
           /\ <<>> \o <<y, z>> = <<y, z>> /\ <<x>> \o <<y, z>> = <<x, y, z>>
           /\ <<x, y>> \o <<z, w>> = <<x, y, z, w>>
           /\ <<x>>[Len(<<x>>)] = x /\ <<x>>[1] = x
           /\ <<x, y>>[Len(<<x, y>>)] = y
           /\ <<x, y, z>>[Len(<<x, y, z>>)] = z
           /\ <<x, y, z, w>>[Len(<<x, y, z, w>>)] = w
<1>1. Head(<<x>>) = x
  OBVIOUS
<1>2. Tail(<<x>>) = <<>>
  OBVIOUS
<1>3. <<x>> # <<>>
  OBVIOUS
<1>4. Head(<<x, y>>) = x
  OBVIOUS
<1>5. Tail(<<x, y>>) = <<y>>
  OBVIOUS
<1>6. <<x, y>> # <<>>
  OBVIOUS
<1>7. Head(<<x, y, z>>) = x
  OBVIOUS
<1>8. Tail(<<x, y, z>>) = <<y, z>>
  OBVIOUS
<1>9. <<x, y, z>> # <<>>
  OBVIOUS
<1>10. Head(<<x, y, z, w>>) = x
  OBVIOUS
<1>11. Tail(<<x, y, z, w>>) = <<y, z, w>>
  OBVIOUS
<1>12. <<x, y, z, w>> # <<>>
  OBVIOUS
<1>13. <<>> \o <<>> = <<>>
  OBVIOUS
<1>14. <<x, y>> \o <<>> = <<x, y>>
  OBVIOUS
<1>15. <<>> \o <<y, z>> = <<y, z>>
  OBVIOUS
<1>16. <<x>> \o <<y, z>> = <<x, y, z>>
  BY OneBeforeTwo
<1>17. <<x, y>> \o <<z, w>> = <<x, y, z, w>>
  BY PairsJoin
<1>18. <<x>>[Len(<<x>>)] = x
  OBVIOUS
<1>19. <<x>>[1] = x
  OBVIOUS
<1>20. <<x, y>>[Len(<<x, y>>)] = y
  OBVIOUS
<1>21. <<x, y, z>>[Len(<<x, y, z>>)] = z
  OBVIOUS
<1>22. <<x, y, z, w>>[Len(<<x, y, z, w>>)] = w
  OBVIOUS
<1> QED BY <1>1, <1>2, <1>3, <1>4, <1>5, <1>6, <1>7, <1>8, <1>9, <1>10, <1>11, <1>12, <1>13,
           <1>14, <1>15, <1>16, <1>17, <1>18, <1>19, <1>20, <1>21, <1>22

\* The first of the calls and the others.
LEMMA Rest ==
    ASSUME NEW S, NEW calls \in Seq(S), calls # <<>>
    PROVE  /\ Len(calls) \in Nat \ {0} /\ DOMAIN calls = 1..Len(calls)
           /\ Head(calls) = calls[1] /\ Head(calls) \in S
           /\ Tail(calls) \in Seq(S) /\ Len(Tail(calls)) = Len(calls) - 1
           /\ \A i \in 1..Len(calls) - 1 : Tail(calls)[i] = calls[i + 1]
           /\ Len(calls) = 1 => Tail(calls) = <<>>
           /\ Len(calls) > 1 => Tail(calls) # <<>>
<1>1. /\ Len(calls) \in Nat \ {0} /\ DOMAIN calls = 1..Len(calls)
      /\ Head(calls) = calls[1] /\ Head(calls) \in S
      /\ Tail(calls) \in Seq(S) /\ Len(Tail(calls)) = Len(calls) - 1
      /\ \A i \in 1..Len(calls) - 1 : Tail(calls)[i] = calls[i + 1]
  BY EmptySeq, HeadTailProperties, LenProperties
<1>2. Len(calls) = 1 => Tail(calls) = <<>>
  <2> DEFINE t == Tail(calls)
  <2>1. t \in Seq(S) /\ Len(t) = Len(calls) - 1
    BY <1>1
  <2> HIDE DEF t
  <2>2. Len(calls) = 1 => t = <<>>
    BY <2>1, EmptySeq
  <2> QED BY <2>2 DEF t
<1>3. Len(calls) > 1 => Tail(calls) # <<>>
  <2> DEFINE t == Tail(calls)
  <2>1. t \in Seq(S) /\ Len(t) = Len(calls) - 1
    BY <1>1
  <2> HIDE DEF t
  <2>2. Len(calls) > 1 => t # <<>>
    BY <1>1, <2>1, EmptySeq
  <2> QED BY <2>2 DEF t
<1> QED BY <1>1, <1>2, <1>3

\* The steps of a visit between its start and its end that make calls.
Acts ==
    \/ CallSetStatus \/ CallAddComment \/ CallRestoreReview \/ CallGetTest
    \/ CallAskAgain \/ CallAskAgainForMerge \/ CallComplain
    \/ CallMerge \/ MergeRefused \/ VisitEnds

\* The first call decides which step it is.
LEMMA FirstCallDecides ==
    ASSUME Acts, todo # <<>>
    PROVE  /\ Head(todo).call = "set_status" => CallSetStatus
           /\ Head(todo).call = "add_comment" => CallAddComment
           /\ Head(todo).call = "restore_review" => CallRestoreReview
           /\ Head(todo).call = "get_test" => CallGetTest
           /\ Head(todo).call = "ask_again" => CallAskAgain
           /\ Head(todo).call = "ask_again_for_merge" => CallAskAgainForMerge
           /\ Head(todo).call = "complain" => CallComplain
           /\ Head(todo).call = "merge" => CallMerge \/ MergeRefused
<1>1. /\ CallSetStatus => Head(todo).call = "set_status"
      /\ CallAddComment => Head(todo).call = "add_comment"
      /\ CallRestoreReview => Head(todo).call = "restore_review"
      /\ CallGetTest => Head(todo).call = "get_test"
      /\ CallAskAgain => Head(todo).call = "ask_again"
      /\ CallAskAgainForMerge => Head(todo).call = "ask_again_for_merge"
      /\ CallComplain => Head(todo).call = "complain"
      /\ CallMerge \/ MergeRefused => Head(todo).call = "merge"
      /\ ~VisitEnds
  BY DEF CallSetStatus, CallAddComment, CallRestoreReview, CallGetTest, CallAskAgain,
         CallAskAgainForMerge, CallComplain, CallMerge, MergeRefused, VisitEnds, Calling
<1> QED BY <1>1 DEF Acts

\* Without calls the visit ends.
LEMMA NoCallEnds == ASSUME Acts, todo = <<>> PROVE VisitEnds
BY DEF Acts, CallSetStatus, CallAddComment, CallRestoreReview, CallGetTest, CallAskAgain,
       CallAskAgainForMerge, CallComplain, CallMerge, MergeRefused, Calling

\* What none of these steps changes.
LEMMA ActsKeep ==
    ASSUME Acts
    PROVE  /\ pc = "acting"
           /\ UNCHANGED <<head, since, mergeable, pull, cached, asked, stirred>>
BY DEF Acts, CallSetStatus, CallAddComment, CallRestoreReview, CallGetTest, CallAskAgain,
       CallAskAgainForMerge, CallComplain, CallMerge, MergeRefused, VisitEnds, Calling,
       OnlyThen, EndVisit, github

\* The replay is that of the same comments.
LEMMA SameReplay ==
    ASSUME TypeOK, UNCHANGED <<since, comments, pull>>
    PROVE  Replay' = Replay
<1> DEFINE lo == since[pull]
           hi == Len(comments)
<1>1. /\ comments \in Seq(Comment) /\ lo \in Nat /\ hi \in Nat /\ lo <= hi
  <2>1. comments \in Seq(Comment) /\ pull \in Shas /\ since \in [Shas -> Nat] /\ lo <= hi
    BY DEF TypeOK
  <2> QED BY <2>1, LenProperties
<1>2. lo \in 0..hi
  <2> HIDE DEF lo, hi
  <2> QED BY <1>1
<1>3. PICK f : /\ Replay = f[hi]
               /\ f[lo] = Initial
               /\ \A n \in lo + 1..hi : f[n] = EvolveFor(pull, f[n - 1], comments[n])
  BY <1>1, <1>2, ReplayUnfolds DEF Unfolding
<1>4. PICK g : /\ Replay' = g[hi]
               /\ g[lo] = Initial
               /\ \A n \in lo + 1..hi : g[n] = EvolveFor(pull, g[n - 1], comments[n])
  <2>1. /\ comments' \in Seq(Comment) /\ since'[pull'] = lo /\ Len(comments') = hi
        /\ comments' = comments /\ pull' = pull
    BY <1>1
  <2>2. Unfolding'
    BY NextReplayUnfolds
  <2>3. \E g : /\ Replay' = g[hi]
               /\ g[lo] = Initial'
               /\ \A n \in lo + 1..hi : g[n] = EvolveFor(pull, g[n - 1], comments[n])
    BY <1>2, <2>1, <2>2 DEF Unfolding
  <2>4. Initial' = Initial
    BY DEF Initial, Pending, NoVotes
  <2> HIDE DEF Initial
  <2> QED BY <2>3, <2>4
<1>5. Rounds(f, lo, hi, comments, pull) /\ Rounds(g, lo, hi, comments, pull)
  BY <1>3, <1>4 DEF Rounds
<1>6. f[lo] = g[lo]
  BY <1>3, <1>4
<1>7. f[hi] = g[hi]
  <2> HIDE DEF lo, hi
  <2> QED BY <1>1, <1>5, <1>6, SameSteps
<1> QED BY <1>3, <1>4, <1>7

\* What a visit looks at is the same.
LEMMA SameSanity ==
    ASSUME UNCHANGED <<head, mergeable>>
    PROVE  (Sane' <=> Sane) /\ (Insane' <=> Insane) /\ Wrong' = Wrong
BY DEF Sane, Insane, Wrong

\* So are the statuses it looks at.
LEMMA SameStatus ==
    ASSUME UNCHANGED <<head, cached, status>>
    PROVE  (Failing' <=> Failing) /\ Review' = Review
BY DEF Failing, Review

\* A step that keeps a quiet pull request on its course.
LEMMA StaysOnCourse ==
    ASSUME SInv, ~asked, Acts, (pc' = "acting" /\ OnCourse') \/ (pc' = "idle" /\ Settled')
    PROVE  SInv'
<1>1. /\ pc = "acting" /\ UNCHANGED <<head, pull, cached, asked, stirred>>
  BY ActsKeep
<1> QED BY <1>1 DEF SInv

\* Required tests have names of their own.
LEMMA Names ==
    /\ Tests = <<>> => TestNames = {}
    /\ Tests # <<>> => TestNames # {}
    /\ "review" \notin TestNames /\ TestNames \subseteq Contexts
    /\ Len(Tests) \in Nat /\ DOMAIN Tests = 1..Len(Tests)
<1>1. Tests \in Seq(TestNames) /\ "review" \notin TestNames
  BY TestsAssumption DEF TestNames
<1>2. TestNames \subseteq Contexts
  BY DEF TestNames, Contexts
<1>3. Len(Tests) \in Nat /\ DOMAIN Tests = 1..Len(Tests)
  BY <1>1, LenProperties
<1>4. ASSUME Tests = <<>> PROVE TestNames = {}
  <2>1. DOMAIN Tests = {}
    BY <1>4
  <2> QED BY <2>1 DEF TestNames
<1>5. ASSUME Tests # <<>> PROVE TestNames # {}
  <2>1. Len(Tests) # 0
    BY <1>1, <1>5, EmptySeq
  <2>2. 1 \in DOMAIN Tests
    BY <1>3, <2>1
  <2> QED BY <2>2 DEF TestNames
<1> QED BY <1>1, <1>2, <1>3, <1>4, <1>5

-----------------------------------------------------------------------------
(* The phases of a visit *)

\* Nothing has happened since the visit started.
Steady == QInv /\ SInv /\ ~asked /\ pc = "acting" /\ Acts

\* What holds all through such a visit.
LEMMA SteadyFacts ==
    ASSUME Steady
    PROVE  /\ TypeOK /\ pull = head /\ cached = head /\ OnCourse
           /\ UNCHANGED <<head, since, mergeable, pull, cached, asked, stirred>>
           /\ head \in Shas /\ todo \in Seq(Call)
           /\ status \in [Shas -> [Contexts -> StatusValues]]
           /\ Review = status[head]["review"]
BY ActsKeep DEF Steady, SInv, QInv, TypeOK, Review

\* A step that leads to one of the phases, or to an end that settles.
LEMMA KeptByPhase ==
    ASSUME Steady, pc' = "acting",
           Complaining' \/ Asking' \/ Approving' \/ Testing' \/ Deciding'
    PROVE  SInv'
<1>1. OnCourse'
  BY Zenon DEF OnCourse
<1>2. SInv /\ ~asked /\ Acts
  BY Zenon DEF Steady
<1> QED BY <1>1, <1>2, StaysOnCourse, Zenon

\* The last call leaves a pull request about which nothing is left to say.
LEMMA KeptByEnd ==
    ASSUME Steady, pc' = "acting", todo' = <<>>, Settled'
    PROVE  SInv'
<1>1. OnCourse'
  BY Zenon DEF OnCourse
<1>2. SInv /\ ~asked /\ Acts
  BY Zenon DEF Steady
<1> QED BY <1>1, <1>2, StaysOnCourse, Zenon

\* The visit ends, or GitHub answers the merge, with nothing left to say.
LEMMA KeptByLeaving ==
    ASSUME Steady, pc' = "idle", Settled'
    PROVE  SInv'
BY StaysOnCourse DEF Steady

\* A status that is set.
LEMMA StatusSet ==
    ASSUME Steady, CallSetStatus, Head(todo).context \in Contexts
    PROVE  /\ status' = [status EXCEPT ![head][Head(todo).context] = Head(todo).value]
           /\ status'[head][Head(todo).context] = Head(todo).value
           /\ \A c \in Contexts : c # Head(todo).context => status'[head][c] = status[head][c]
           /\ todo' = Tail(todo) /\ pc' = "acting" /\ state' = state /\ comments' = comments
           /\ Replay' = Replay
<1>1. /\ status' = [status EXCEPT ![head][Head(todo).context] = Head(todo).value]
      /\ todo' = Tail(todo) /\ pc' = "acting" /\ state' = state /\ comments' = comments
      /\ since' = since /\ pull' = pull
  BY SteadyFacts DEF CallSetStatus, Calling
<1>2. head \in Shas /\ status \in [Shas -> [Contexts -> StatusValues]]
  BY SteadyFacts
<1>3. Replay' = Replay
  BY <1>1, SteadyFacts, SameReplay
<1> QED BY <1>1, <1>2, <1>3

\* A comment that is written.
LEMMA CommentWritten ==
    ASSUME Steady, CallAddComment
    PROVE  /\ UNCHANGED <<status, state>> /\ todo' = Tail(todo) /\ pc' = "acting"
           /\ Replay' = Evolve(Replay, [who |-> Bot, kind |-> Head(todo).kind, sha |-> pull,
                                        approvers |-> Head(todo).approvers])
           /\ Replay \in StateRecord
           /\ Head(todo).kind \in BotKinds /\ Head(todo).approvers \in Value
<1> DEFINE c == [who |-> Bot, kind |-> Head(todo).kind, sha |-> pull,
                 approvers |-> Head(todo).approvers]
<1>1. /\ UNCHANGED <<status, state, since, pull>> /\ todo' = Tail(todo) /\ pc' = "acting"
      /\ comments' = Append(comments, c)
      /\ todo # <<>> /\ Head(todo).call = "add_comment"
  BY DEF CallAddComment, Calling
<1>2. Head(todo) \in Call
  BY <1>1, NextCall DEF Steady
<1>3. Head(todo).kind \in BotKinds /\ Head(todo).approvers \in Value
  BY <1>1, <1>2, CallFields
<1>4. c \in Comment
  BY <1>3, SteadyFacts DEF Comment, TypeOK
<1>5. Replay \in StateRecord
  <2>1. Honest(pull)
    BY SteadyFacts DEF Steady, QInv
  <2>2. Sound(Replay, pull)
    BY <2>1, ReplaySound DEF Steady, QInv
  <2> QED BY <2>2 DEF Sound
<1> HIDE DEF c
<1>6. Replay' = Evolve(Replay, c)
  BY <1>1, <1>4, SteadyFacts, ReplayGoesOn
<1> QED BY <1>1, <1>3, <1>5, <1>6 DEF c

\* Calls that only lead to others.
LEMMA CallsLed ==
    ASSUME Steady, NEW calls, OnlyThen(calls)
    PROVE  /\ UNCHANGED <<status, comments, state>> /\ todo' = calls \o Tail(todo)
           /\ pc' = "acting" /\ Replay' = Replay
<1>1. /\ UNCHANGED <<status, comments, state, since, pull>> /\ todo' = calls \o Tail(todo)
      /\ pc' = pc
  BY DEF OnlyThen, github
<1>2. Replay' = Replay
  BY <1>1, SteadyFacts, SameReplay
<1> QED BY <1>1, <1>2 DEF Steady

\* What is wrong is said once.
LEMMA ComplainingGoesOn == ASSUME Steady, Complaining PROVE SInv'
<1>1. /\ (Insane' <=> Insane) /\ Wrong' = Wrong /\ Insane /\ stirred' = stirred
      /\ Review = status[head]["review"] /\ Review' = status'[head]["review"]
  BY SteadyFacts, SameSanity DEF Complaining, Review
<1>2. CASE todo = <<Complain(Wrong)>> /\ (stirred \/ Review = Wrong)
  <2>1. Head(todo).call = "complain" /\ Head(todo).what = Wrong /\ Tail(todo) = <<>> /\ todo # <<>>
    BY <1>2, Tuples, CallContents
  <2>2. OnlyThen(IF Review = Wrong THEN <<>>
                 ELSE <<AddComment(Wrong, Pending({})), SetStatus("review", Wrong)>>)
    BY <2>1, FirstCallDecides DEF Steady, CallComplain
  <2>3. CASE Review = Wrong
    <3>1. OnlyThen(<<>>)
      BY <2>2, <2>3
    <3>2. todo' = <<>> /\ pc' = "acting" /\ status' = status
      BY <2>1, <3>1, CallsLed, Tuples
    <3>3. Settled'
      BY <1>1, <2>3, <3>2 DEF Settled
    <3> QED BY <3>2, <3>3, KeptByEnd
  <2>4. CASE Review # Wrong
    <3>1. OnlyThen(<<AddComment(Wrong, Pending({})), SetStatus("review", Wrong)>>)
      BY <2>2, <2>4
    <3>2. /\ todo' = <<AddComment(Wrong, Pending({})), SetStatus("review", Wrong)>>
          /\ pc' = "acting"
      <4> DEFINE x == AddComment(Wrong, Pending({}))
                 y == SetStatus("review", Wrong)
      <4> HIDE DEF x, y
      <4>1. todo' = <<x, y>> \o Tail(todo) /\ pc' = "acting"
        BY <3>1, CallsLed DEF x, y
      <4>2. <<x, y>> \o <<>> = <<x, y>>
        BY Tuples
      <4> QED BY <2>1, <4>1, <4>2 DEF x, y
    <3>3. todo' = <<AddComment(Wrong, Pending({})), SetStatus("review", Wrong)>>'
      BY <1>1, <3>2 DEF AddComment, SetStatus, Pending
    <3>4. Complaining'
      BY <1>1, <1>2, <2>4, <3>3 DEF Complaining
    <3> QED BY <3>2, <3>4, KeptByPhase
  <2> QED BY <2>3, <2>4
<1>3. CASE todo = <<AddComment(Wrong, Pending({})), SetStatus("review", Wrong)>> /\ stirred
  <2>1. Head(todo).call = "add_comment" /\ Tail(todo) = <<SetStatus("review", Wrong)>> /\ todo # <<>>
    BY <1>3, Tuples, CallContents
  <2>2. todo' = <<SetStatus("review", Wrong)>> /\ pc' = "acting"
    BY <2>1, FirstCallDecides, CommentWritten DEF Steady
  <2>3. todo' = <<SetStatus("review", Wrong)>>'
    BY <1>1, <2>2 DEF SetStatus
  <2>4. Complaining'
    BY <1>1, <2>3 DEF Complaining
  <2> QED BY <2>2, <2>4, KeptByPhase
<1>4. CASE todo = <<SetStatus("review", Wrong)>>
  <2>1. /\ Head(todo).call = "set_status" /\ Head(todo).context = "review"
        /\ Head(todo).value = Wrong /\ Tail(todo) = <<>> /\ todo # <<>>
    BY <1>4, Tuples, CallContents
  <2>2. CallSetStatus /\ "review" \in Contexts
    BY <2>1, FirstCallDecides DEF Steady, Contexts
  <2>3. todo' = <<>> /\ pc' = "acting" /\ status'[head]["review"] = Wrong
    BY <2>1, <2>2, StatusSet
  <2>4. Settled'
    BY <1>1, <2>3 DEF Settled
  <2> QED BY <2>3, <2>4, KeptByEnd
<1> QED BY <1>2, <1>3, <1>4 DEF Complaining

\* The calls of a request for approval.
LEMMA RequestContents ==
    ASSUME NEW app
    PROVE  /\ RequestApproval(app) = <<PendingFirst, Request(app)>>
           /\ PendingFirst.call = "set_status" /\ PendingFirst.context = "review"
           /\ PendingFirst.value = "pending"
           /\ Request(app).call = "add_comment" /\ Request(app).kind = "approval required"
           /\ Request(app).approvers = app
<1>1. PendingFirst.call = "set_status" /\ PendingFirst.context = "review" /\ PendingFirst.value = "pending"
  BY CallContents DEF PendingFirst
<1>2. /\ Request(app).call = "add_comment" /\ Request(app).kind = "approval required"
      /\ Request(app).approvers = app
  BY DEF Request, AddComment
<1>3. RequestApproval(app) = <<PendingFirst, Request(app)>>
  BY Zenon DEF RequestApproval, PendingFirst, Request
<1> QED BY <1>1, <1>2, <1>3

\* Whom the last call lists does not change before it is made.
LEMMA AskingNext ==
    ASSUME NEW app, todo' # <<>>, todo'[Len(todo')].approvers = app, AskingFor(app)'
    PROVE  Asking'
BY DEF Asking

\* The states that a request for approval is made in.
LEMMA ReplayTyped ==
    ASSUME Steady
    PROVE  /\ Replay \in StateRecord
           /\ Len(Replay.haveApproved) \in Nat
           /\ DOMAIN Replay.haveApproved = 1..Len(Replay.haveApproved)
<1>1. Honest(pull)
  BY SteadyFacts DEF Steady, QInv
<1>2. Replay \in StateRecord
  BY <1>1, ReplaySound DEF Steady, QInv, Sound
<1>3. Replay.haveApproved \in Seq(Recorded)
  BY <1>2 DEF StateRecord
<1> QED BY <1>2, <1>3, LenProperties

\* A request leaves everybody it lists heard.
LEMMA RequestWritten ==
    ASSUME Steady, NEW app, Head(todo) = Request(app), todo # <<>>,
           Replay.name \in {"STATE_INITIAL", "STATE_APPROVAL_PENDING"},
           Heard(app, Replay.haveApproved)
    PROVE  /\ UNCHANGED status /\ todo' = Tail(todo) /\ pc' = "acting"
           /\ Replay'.name = "STATE_APPROVAL_PENDING"
           /\ Heard(Replay'.approvers, Replay'.haveApproved)
           /\ Heard(app, Replay'.haveApproved)
<1>1. /\ Head(todo).call = "add_comment" /\ Head(todo).kind = "approval required"
      /\ Head(todo).approvers = app
  <2> DEFINE r == Request(app)
  <2>1. /\ r.call = "add_comment" /\ r.kind = "approval required" /\ r.approvers = app
        /\ Head(todo) = r
    BY Zenon, RequestContents
  <2> HIDE DEF r
  <2> QED BY <2>1
<1>2. CallAddComment
  BY <1>1, FirstCallDecides DEF Steady
<1> DEFINE c == [who |-> Bot, kind |-> "approval required", sha |-> pull, approvers |-> app]
<1>3. /\ UNCHANGED status /\ todo' = Tail(todo) /\ pc' = "acting"
      /\ Replay' = Evolve(Replay, c) /\ Replay \in StateRecord /\ app \in Value
  BY <1>1, <1>2, CommentWritten
<1>4. c.who = Bot /\ c.sha = pull /\ c.kind = "approval required" /\ c.approvers = app
  OBVIOUS
<1> HIDE DEF c
<1>5. /\ Replay'.name = "STATE_APPROVAL_PENDING" /\ Replay'.approvers = Reparsed(app)
      /\ Replay'.haveApproved = Replay.haveApproved
  BY <1>3, <1>4, BotIsHeard
<1>6. Heard(Reparsed(app), Replay.haveApproved)
  BY <1>3, ReparsedHears
<1> QED BY <1>3, <1>5, <1>6

\* Asking ends with everybody heard who voted, and a review that is pending.
LEMMA AskingGoesOn ==
    ASSUME Steady, Asking
    PROVE  SInv'
<1> DEFINE app == todo[Len(todo)].approvers
           P == PendingFirst
           Q == Request(app)
<1>1. /\ AskingFor(app) /\ todo # <<>>
      /\ P.call = "set_status" /\ P.context = "review" /\ P.value = "pending"
      /\ Q.call = "add_comment" /\ Q.approvers = app
      /\ RequestApproval(app) = <<P, Q>> /\ "review" \in Contexts
  BY RequestContents DEF Asking, Contexts
<1> SUFFICES ASSUME NEW a, a = app PROVE SInv'
  OBVIOUS
<1> DEFINE QQ == Request(a)
<1>2. /\ Sane' /\ stirred' = stirred /\ cached' = cached /\ cached = head /\ head' = head
      /\ Review = status[head]["review"] /\ Review' = status'[head]["review"]
      /\ Sane
  BY <1>1, SteadyFacts, SameSanity DEF AskingFor, Review
<1>3. /\ Replay.name \in {"STATE_INITIAL", "STATE_APPROVAL_PENDING"}
      /\ Heard(a, Replay.haveApproved)
  BY <1>1 DEF AskingFor
<1> HIDE DEF app, P, Q
\* What is still to be said is that the request itself goes on.
<1>4. ASSUME Replay'.name \in {"STATE_INITIAL", "STATE_APPROVAL_PENDING"},
             Heard(a, Replay'.haveApproved), pc' = "acting", stirred,
             \/ todo' = <<P, QQ>>
             \/ todo' = <<QQ>> /\ Review' = "pending"
             \/ todo' = <<P, QQ, P, QQ>>
             \/ todo' = <<QQ, P, QQ>>
      PROVE  SInv'
  <2>1. QQ.approvers = a
    BY RequestContents
  <2> HIDE DEF QQ
  <2>2. todo' # <<>> /\ todo'[Len(todo')] = QQ
    <3>1. <<QQ>>[Len(<<QQ>>)] = QQ /\ <<QQ>> # <<>>
      BY Tuples
    <3>2. <<P, QQ>>[Len(<<P, QQ>>)] = QQ /\ <<P, QQ>> # <<>>
      BY Tuples
    <3>3. <<QQ, P, QQ>>[Len(<<QQ, P, QQ>>)] = QQ /\ <<QQ, P, QQ>> # <<>>
      BY Tuples
    <3>4. <<P, QQ, P, QQ>>[Len(<<P, QQ, P, QQ>>)] = QQ /\ <<P, QQ, P, QQ>> # <<>>
      BY Tuples
    <3> QED BY <1>4, <3>1, <3>2, <3>3, <3>4
  <2>3. AskingFor(a)'
    BY <1>2, <1>4 DEF AskingFor, P, QQ, Request, PendingFirst, AddComment, SetStatus
  <2>4. Asking'
    BY <2>1, <2>2, <2>3, AskingNext
  <2> QED BY <1>4, <2>4, KeptByPhase
<1>5. ASSUME NEW changed \in BOOLEAN, todo = <<AskAgain(changed, a)>>,
             Replay.name = "STATE_APPROVAL_PENDING", changed \/ a = Replay.approvers,
             stirred \/ (~changed /\ Review \in {"none", "pending"})
      PROVE  SInv'
  <2>1. /\ Head(todo).call = "ask_again" /\ Head(todo).changed = changed
        /\ Head(todo).approvers = a /\ Tail(todo) = <<>>
    BY <1>5, Tuples, CallContents
  <2>2. OnlyThen(IF changed \/ Review \notin {"none", "pending"}
                 THEN RequestApproval(a) ELSE <<>>)
    BY <1>1, <2>1, FirstCallDecides DEF Steady, CallAskAgain
  <2>3. CASE changed \/ Review \notin {"none", "pending"}
    <3>1. OnlyThen(<<P, QQ>>)
      BY <2>2, <2>3, RequestContents DEF P
    <3>2. /\ todo' = <<P, QQ>> \o Tail(todo) /\ pc' = "acting" /\ Replay' = Replay
      BY <3>1, CallsLed
    <3> HIDE DEF QQ
    <3>3. todo' = <<P, QQ>>
      <4>1. <<P, QQ>> \o <<>> = <<P, QQ>>
        BY Tuples
      <4> QED BY <2>1, <3>2, <4>1
    <3> QED BY <1>3, <1>4, <1>5, <2>3, <3>2, <3>3 DEF QQ
  <2>4. CASE ~(changed \/ Review \notin {"none", "pending"})
    <3>1. OnlyThen(<<>>)
      BY <2>2, <2>4
    <3>2. todo' = <<>> /\ pc' = "acting" /\ Replay' = Replay /\ status' = status
      BY <2>1, <3>1, CallsLed, Tuples
    <3>3. Answered'
      BY <1>2, <1>3, <1>5, <2>4, <3>2 DEF Answered
    <3> QED BY <1>2, <3>2, <3>3, KeptByEnd DEF Settled
  <2> QED BY <2>3, <2>4
<1>6. ASSUME NEW changed \in BOOLEAN, todo = <<AskAgain(changed, a), P, QQ>>, stirred
      PROVE  SInv'
  <2>1. /\ Head(todo).call = "ask_again" /\ Head(todo).changed = changed
        /\ Head(todo).approvers = a /\ Tail(todo) = <<P, QQ>>
    BY <1>6, Tuples, CallContents
  <2>2. OnlyThen(IF changed \/ Review \notin {"none", "pending"}
                 THEN RequestApproval(a) ELSE <<>>)
    BY <1>1, <2>1, FirstCallDecides DEF Steady, CallAskAgain
  <2>3. CASE changed \/ Review \notin {"none", "pending"}
    <3>1. OnlyThen(<<P, QQ>>)
      BY <2>2, <2>3, RequestContents DEF P
    <3>2. /\ todo' = <<P, QQ>> \o Tail(todo) /\ pc' = "acting" /\ Replay' = Replay
      BY <3>1, CallsLed
    <3> HIDE DEF QQ
    <3>3. todo' = <<P, QQ, P, QQ>>
      <4>1. <<P, QQ>> \o <<P, QQ>> = <<P, QQ, P, QQ>>
        BY PairsJoin
      <4> QED BY <2>1, <3>2, <4>1
    <3> QED BY <1>3, <1>4, <1>6, <3>2, <3>3 DEF QQ
  <2>4. CASE ~(changed \/ Review \notin {"none", "pending"})
    <3>1. OnlyThen(<<>>)
      BY <2>2, <2>4
    <3>2. /\ todo' = <<>> \o Tail(todo) /\ pc' = "acting" /\ Replay' = Replay
      BY <3>1, CallsLed
    <3> HIDE DEF QQ
    <3>3. todo' = <<P, QQ>>
      <4>1. <<>> \o <<P, QQ>> = <<P, QQ>>
        BY Tuples
      <4> QED BY <2>1, <3>2, <4>1
    <3> QED BY <1>3, <1>4, <1>6, <3>2, <3>3 DEF QQ
  <2> QED BY <2>3, <2>4
<1>7. ASSUME \/ todo = <<P, QQ>> \/ todo = <<P, QQ, P, QQ>>, stirred
      PROVE  SInv'
  <2>1. /\ Head(todo) = P
        /\ Tail(todo) = <<QQ>> \/ Tail(todo) = <<QQ, P, QQ>>
    <3> HIDE DEF QQ
    <3>1. Head(<<P, QQ>>) = P /\ Tail(<<P, QQ>>) = <<QQ>>
      BY Tuples
    <3>2. Head(<<P, QQ, P, QQ>>) = P /\ Tail(<<P, QQ, P, QQ>>) = <<QQ, P, QQ>>
      BY Tuples
    <3> QED BY <1>7, <3>1, <3>2
  <2>2. CallSetStatus
    BY <1>1, <2>1, FirstCallDecides DEF Steady
  <2>3. /\ status'[head]["review"] = "pending" /\ todo' = Tail(todo) /\ pc' = "acting"
        /\ Replay' = Replay
    BY <1>1, <2>1, <2>2, StatusSet
  <2> QED BY <1>2, <1>3, <1>4, <1>7, <2>1, <2>3
<1>8. ASSUME todo = <<QQ>>, Review = "pending"
      PROVE  SInv'
  <2>1. Head(todo) = QQ /\ Tail(todo) = <<>>
    <3> HIDE DEF QQ
    <3> QED BY <1>8, Tuples
  <2>2. /\ UNCHANGED status /\ todo' = Tail(todo) /\ pc' = "acting"
        /\ Replay'.name = "STATE_APPROVAL_PENDING"
        /\ Heard(Replay'.approvers, Replay'.haveApproved)
    BY <1>1, <1>3, <2>1, RequestWritten
  <2>3. Answered'
    BY <1>2, <1>8, <2>2 DEF Answered
  <2> QED BY <1>2, <2>1, <2>2, <2>3, KeptByEnd DEF Settled
<1>9. ASSUME todo = <<QQ, P, QQ>>, stirred
      PROVE  SInv'
  <2>1. Head(todo) = QQ /\ Tail(todo) = <<P, QQ>>
    <3> HIDE DEF QQ
    <3> QED BY <1>9, Tuples
  <2>2. /\ todo' = Tail(todo) /\ pc' = "acting"
        /\ Replay'.name = "STATE_APPROVAL_PENDING"
        /\ Heard(a, Replay'.haveApproved)
    BY <1>1, <1>3, <2>1, RequestWritten
  <2> QED BY <1>4, <1>9, <2>1, <2>2
<1>10. \/ /\ \E changed \in BOOLEAN : todo = <<AskAgain(changed, a)>>
          /\ Replay.name = "STATE_APPROVAL_PENDING"
          /\ todo[1].changed \/ a = Replay.approvers
          /\ stirred \/ (~todo[1].changed /\ Review \in {"none", "pending"})
       \/ stirred /\ \E changed \in BOOLEAN : todo = <<AskAgain(changed, a), P, QQ>>
       \/ stirred /\ todo = <<P, QQ>>
       \/ stirred /\ todo = <<QQ>> /\ Review = "pending"
       \/ stirred /\ todo = <<P, QQ, P, QQ>>
       \/ stirred /\ todo = <<QQ, P, QQ>>
  <2>1. AskingFor(a)
    BY <1>1
  <2> QED BY <2>1, Zenon DEF AskingFor, P
<1>11. ASSUME NEW changed \in BOOLEAN, todo = <<AskAgain(changed, a)>>
       PROVE  todo[1].changed = changed
  BY <1>11, Tuples, CallContents
<1> QED BY <1>5, <1>6, <1>7, <1>8, <1>9, <1>10, <1>11

\* A verdict is written once every test that had succeeded is pending.
LEMMA ApprovingGoesOn == ASSUME Steady, Approving PROVE SInv'
<1> DEFINE n == Len(todo)
           c == Head(todo)
<1>1. /\ n \in Nat \ {0} /\ todo # <<>>
      /\ c = todo[1] /\ Len(Tail(todo)) = n - 1
      /\ \A i \in 1..n - 1 : Tail(todo)[i] = todo[i + 1]
      /\ n = 1 => Tail(todo) = <<>>
      /\ n > 1 => Tail(todo) # <<>>
  BY SteadyFacts, Rest DEF Approving
<1>2. /\ Sane' /\ stirred' = stirred /\ stirred /\ head' = head
      /\ Replay.name \in {"STATE_INITIAL", "STATE_APPROVAL_PENDING"}
      /\ IsVerdict(todo[n])
      /\ \A i \in 1..n - 1 : todo[i] \in Resets
      /\ \A test \in TestNames :
             \/ status[head][test] # "success"
             \/ \E i \in 1..n - 1 : todo[i] = SetStatus(test, "pending")
  BY SteadyFacts, SameSanity DEF Approving
<1>3. CASE n = 1
  <2>1. c.call = "add_comment" /\ c.kind \in {"approved", "testing approved"}
    BY <1>1, <1>2, <1>3 DEF IsVerdict
  <2> DEFINE d == [who |-> Bot, kind |-> c.kind, sha |-> pull, approvers |-> c.approvers]
  <2>2. CallAddComment
    BY <1>1, <2>1, FirstCallDecides DEF Steady
  <2>3. /\ UNCHANGED status /\ todo' = <<>> /\ pc' = "acting"
        /\ Replay' = Evolve(Replay, d) /\ Replay \in StateRecord
    BY <1>1, <1>3, <2>2, CommentWritten
  <2>4. d.who = Bot /\ d.sha = pull /\ d.kind = c.kind
    OBVIOUS
  <2> HIDE DEF c, d
  <2>5. Replay'.name \in {"STATE_TESTS_ONLY", "STATE_TESTS_AUTOMERGE"}
    BY <1>2, <2>1, <2>3, <2>4, BotIsHeard
  <2>6. Tests = <<>> \/ Failing'
    <3>1. \A test \in TestNames : status[head][test] # "success"
      BY <1>2, <1>3
    <3>2. Tests = <<>> \/ Failing
      BY <3>1, Names DEF Failing
    <3> QED BY <2>3, <3>2, SteadyFacts, SameStatus
  <2>7. Settled'
    BY <1>2, <2>5, <2>6 DEF Settled, Answered
  <2> QED BY <2>3, <2>7, KeptByEnd
<1>4. CASE n # 1
  <2>0. n > 1 /\ 1 \in 1..n - 1
    BY <1>1, <1>4
  <2>1. c \in Resets
    BY <1>1, <1>2, <2>0
  <2>2. /\ c.call = "set_status" /\ c.context \in Contexts
        /\ \/ c.context = "review"
           \/ c.value = "pending"
    <3> HIDE DEF c
    <3>1. CASE c = SetStatus("review", "success")
      BY <3>1, CallContents DEF Contexts
    <3>2. CASE \E test \in TestNames : c = SetStatus(test, "pending")
      BY <3>2, CallContents, Names
    <3> QED BY <2>1, <3>1, <3>2 DEF Resets
  <2>3. CallSetStatus
    BY <1>1, <2>2, FirstCallDecides DEF Steady
  <2>4. /\ status'[head][c.context] = c.value
        /\ \A x \in Contexts : x # c.context => status'[head][x] = status[head][x]
        /\ todo' = Tail(todo) /\ pc' = "acting" /\ Replay' = Replay
    BY <2>2, <2>3, StatusSet
  <2> HIDE DEF c
  <2>5. ASSUME NEW test \in TestNames
        PROVE  \/ status'[head][test] # "success"
               \/ \E i \in 1..n - 2 : Tail(todo)[i] = SetStatus(test, "pending")
    <3>1. test \in Contexts /\ test # "review"
      BY Names
    <3>2. CASE c.context = test
      BY <2>2, <2>4, <3>1, <3>2
    <3>3. CASE c.context # test /\ status[head][test] # "success"
      BY <2>4, <3>1, <3>3
    <3>4. CASE c.context # test /\ \E i \in 1..n - 1 : todo[i] = SetStatus(test, "pending")
      <4>1. PICK i \in 1..n - 1 : todo[i] = SetStatus(test, "pending")
        BY <3>4
      <4>2. i # 1
        BY <1>1, <3>4, <4>1, CallContents
      <4>3. i - 1 \in 1..n - 2 /\ i - 1 \in 1..n - 1 /\ (i - 1) + 1 = i
        BY <1>1, <4>2
      <4> QED BY <1>1, <4>1, <4>3
    <3> QED BY <1>2, <3>2, <3>3, <3>4
  <2>6. /\ todo' # <<>> /\ Len(todo') = n - 1 /\ Len(todo') - 1 = n - 2
        /\ IsVerdict(todo'[n - 1])
        /\ \A i \in 1..n - 2 : todo'[i] \in Resets
    <3>1. n - 1 \in 1..n - 1 /\ (n - 1) + 1 = n
      BY <2>0, <1>1
    <3>2. \A i \in 1..n - 2 : i \in 1..n - 1 /\ i + 1 \in 1..n - 1
      BY <1>1
    <3> QED BY <1>1, <1>2, <2>0, <2>4, <3>1, <3>2
  <2>7. Approving'
    <3> HIDE DEF n
    <3> QED BY <1>2, <2>4, <2>5, <2>6 DEF Approving
  <2> QED BY <2>4, <2>7, KeptByPhase
<1> QED BY <1>3, <1>4

\* One more call in front.
LEMMA InFront ==
    ASSUME NEW S, NEW x \in S, NEW calls \in Seq(S)
    PROVE  LET all == <<x>> \o calls
           IN  /\ all \in Seq(S) /\ all # <<>> /\ Len(all) = Len(calls) + 1 /\ all[1] = x
               /\ \A i \in 1..Len(calls) : all[i + 1] = calls[i]
<1> DEFINE all == <<x>> \o calls
<1>1. /\ <<x>> \in Seq(S) /\ Len(<<x>>) = 1 /\ <<x>>[1] = x /\ Len(calls) \in Nat
  BY LenProperties
<1>2. /\ all \in Seq(S) /\ Len(all) = 1 + Len(calls)
      /\ \A i \in 1..1 + Len(calls) : all[i] = IF i <= 1 THEN <<x>>[i] ELSE calls[i - 1]
  <2> DEFINE one == <<x>>
  <2>1. one \in Seq(S) /\ Len(one) = 1
    BY <1>1
  <2> HIDE DEF one
  <2>2. /\ one \o calls \in Seq(S) /\ Len(one \o calls) = 1 + Len(calls)
        /\ \A i \in 1..1 + Len(calls) : (one \o calls)[i] = IF i <= 1 THEN one[i] ELSE calls[i - 1]
    BY <1>1, <2>1, ConcatProperties
  <2> QED BY <2>2 DEF one
<1> HIDE DEF all
<1>3. /\ 1 \in 1..1 + Len(calls) /\ 1 <= 1
      /\ \A i \in 1..Len(calls) : i + 1 \in 1..1 + Len(calls) /\ ~(i + 1 <= 1) /\ (i + 1) - 1 = i
  BY <1>1
<1>4. all[1] = x /\ \A i \in 1..Len(calls) : all[i + 1] = calls[i]
  BY <1>1, <1>2, <1>3
<1>5. Len(all) = Len(calls) + 1 /\ all # <<>>
  BY <1>1, <1>2, EmptySeq
<1> QED BY <1>2, <1>4, <1>5 DEF all

\* The last call of a visit that has settled.
LEMMA SettledLeaves == ASSUME Steady, todo = <<>>, Settled PROVE SInv'
<1>1. /\ pc' = "idle" /\ UNCHANGED <<status, comments, since, pull, head, mergeable, cached>>
  BY NoCallEnds DEF Steady, VisitEnds, EndVisit, github
<1>2. Replay' = Replay
  BY <1>1, SteadyFacts, SameReplay
<1>3. (Failing' <=> Failing) /\ Review' = Review
  BY <1>1, SameStatus
<1>4. (Sane' <=> Sane) /\ (Insane' <=> Insane) /\ Wrong' = Wrong
  BY <1>1, SameSanity
<1>5. Settled'
  BY <1>2, <1>3, <1>4 DEF Settled, Answered
<1> QED BY <1>1, <1>5, KeptByLeaving

Restored == SetStatus("review", "success")

\* Calls that leave the tests and the comments alone.
LEMMA ReadingStep ==
    ASSUME Steady, todo # <<>>, Head(todo) \in Reading
    PROVE  /\ pc' = "acting" /\ Replay' = Replay /\ state' = state
           /\ \A test \in TestNames : status'[head][test] = status[head][test]
           /\ \/ /\ todo' = Tail(todo)
                 /\ \A test \in TestNames : Head(todo) = GetTest(test) => status[head][test] = "success"
              \/ todo' = <<Restored>> \o Tail(todo) /\ Head(todo) = RestoreReview
              \/ todo' = <<>> /\ Failing
<1> DEFINE c == Head(todo)
<1>1. Tail(todo) \in Seq(Call) /\ Review = status[head]["review"]
  BY SteadyFacts, Rest
<1>2. CASE c = RestoreReview
  <2>1. c.call = "restore_review" /\ \A test : c # GetTest(test)
    <3>1. c.call = "restore_review" /\ \A test : GetTest(test).call = "get_test"
      BY <1>2, CallContents
    <3> QED BY <3>1
  <2>2. OnlyThen(IF Review = "success" THEN <<>> ELSE <<SetStatus("review", "success")>>)
    BY <2>1, FirstCallDecides DEF Steady, CallRestoreReview
  <2>3. CASE Review = "success"
    <3>1. OnlyThen(<<>>)
      BY <2>2, <2>3
    <3>2. /\ status' = status /\ state' = state /\ todo' = <<>> \o Tail(todo)
          /\ pc' = "acting" /\ Replay' = Replay
      BY <3>1, CallsLed
    <3>3. <<>> \o Tail(todo) = Tail(todo)
      BY <1>1, ConcatEmptySeq
    <3> QED BY <2>1, <3>2, <3>3
  <2>4. CASE Review # "success"
    <3>1. OnlyThen(<<Restored>>)
      BY <2>2, <2>4 DEF Restored
    <3> QED BY <1>2, <3>1, CallsLed
  <2> QED BY <2>3, <2>4
<1>3. CASE c = SetStatus("review", "success")
  <2>1. /\ c.call = "set_status" /\ c.context = "review" /\ "review" \in Contexts
        /\ \A test : GetTest(test).call = "get_test"
    BY <1>3, CallContents DEF Contexts
  <2>2. CallSetStatus
    BY <2>1, FirstCallDecides DEF Steady
  <2>3. /\ \A x \in Contexts : x # "review" => status'[head][x] = status[head][x]
        /\ todo' = Tail(todo) /\ pc' = "acting" /\ state' = state /\ Replay' = Replay
    BY <2>1, <2>2, StatusSet
  <2>4. \A test \in TestNames : test \in Contexts /\ test # "review"
    BY Names
  <2>5. \A test : c # GetTest(test)
    BY <2>1
  <2> QED BY <2>3, <2>4, <2>5
<1>4. CASE \E test \in TestNames : c = GetTest(test)
  <2>1. PICK test \in TestNames : c = GetTest(test)
    BY <1>4
  <2>2. c.call = "get_test" /\ c.context = test /\ \A x : GetTest(x).context = x
    BY <2>1, CallContents
  <2>3. CallGetTest
    BY <2>2, FirstCallDecides DEF Steady
  <2>4. /\ todo' = IF status[head][test] = "success" THEN Tail(todo) ELSE <<>>
        /\ pc' = "acting" /\ UNCHANGED <<status, state, since, comments, pull>>
    BY <2>2, <2>3, SteadyFacts DEF CallGetTest, github, Calling
  <2>5. Replay' = Replay
    BY <2>4, SteadyFacts, SameReplay
  <2>6. \A x \in TestNames : c = GetTest(x) => x = test
    BY <2>2
  <2> QED BY <2>4, <2>5, <2>6 DEF Failing
<1> QED BY <1>2, <1>3, <1>4 DEF Reading

\* Success is reported after every test has been looked at.
LEMMA TestingGoesOn == ASSUME Steady, Testing PROVE SInv'
<1>1. /\ Sane' /\ stirred' = stirred /\ Replay.name = "STATE_TESTS_ONLY" /\ head' = head
      /\ Sane
  BY SteadyFacts, SameSanity DEF Testing
<1>2. ASSUME Replay'.name = "STATE_TESTS_ONLY", Tests = <<>> \/ Failing' PROVE Settled'
  BY <1>1, <1>2 DEF Settled, Answered
<1>3. Restored \in Reading
  BY DEF Reading, Restored
<1>4. CASE Tests = <<>> /\ todo \in Seq(Reading)
  <2>1. CASE todo = <<>>
    <3>1. Settled
      BY <1>1, <1>4 DEF Settled, Answered
    <3> QED BY <2>1, <3>1, SettledLeaves
  <2>2. CASE todo # <<>>
    <3>1. Head(todo) \in Reading /\ Tail(todo) \in Seq(Reading)
      BY <1>4, <2>2, Rest
    <3>2. /\ pc' = "acting" /\ Replay' = Replay
          /\ \/ todo' = Tail(todo)
             \/ todo' = <<Restored>> \o Tail(todo)
             \/ todo' = <<>>
      BY <2>2, <3>1, ReadingStep
    <3>3. <<Restored>> \o Tail(todo) \in Seq(Reading) /\ <<>> \in Seq(Reading)
      BY <1>3, <3>1, InFront, EmptySeq
    <3>4. todo' \in Seq(Reading)
      BY <3>1, <3>2, <3>3
    <3>5. Testing'
      BY <1>1, <1>4, <3>2, <3>4 DEF Testing
    <3> QED BY <3>2, <3>5, KeptByPhase
  <2> QED BY <2>1, <2>2
<1>5. CASE /\ todo # <<>>
           /\ IsReport(todo[Len(todo)])
           /\ \A i \in 1..Len(todo) - 1 : todo[i] \in Reading
           /\ \/ stirred
              \/ \E i \in 1..Len(todo) - 1 : \E test \in TestNames :
                     todo[i] = GetTest(test) /\ status[head][test] # "success"
  <2> DEFINE n == Len(todo)
  <2>1. /\ n \in Nat \ {0}
        /\ Head(todo) = todo[1] /\ Len(Tail(todo)) = n - 1 /\ Tail(todo) \in Seq(Call)
        /\ \A i \in 1..n - 1 : Tail(todo)[i] = todo[i + 1]
        /\ n = 1 => Tail(todo) = <<>>
        /\ n > 1 => Tail(todo) # <<>>
    BY <1>5, SteadyFacts, Rest
  <2>2. CASE n = 1
    <3> DEFINE c == Head(todo)
               d == [who |-> Bot, kind |-> c.kind, sha |-> pull, approvers |-> c.approvers]
    <3>1. c.call = "add_comment" /\ c.kind = "tests OK"
      BY <1>5, <2>1, <2>2 DEF IsReport
    <3>2. CallAddComment
      BY <1>5, <3>1, FirstCallDecides DEF Steady
    <3>3. /\ todo' = <<>> /\ pc' = "acting"
          /\ Replay' = Evolve(Replay, d) /\ Replay \in StateRecord
      BY <2>1, <2>2, <3>2, CommentWritten
    <3>4. d.who = Bot /\ d.sha = pull /\ d.kind = c.kind
      OBVIOUS
    <3> HIDE DEF c, d
    <3>5. Replay'.name = "STATE_MERGE_APPROVAL_PENDING"
      BY <1>1, <3>1, <3>3, <3>4, BotIsHeard
    <3>6. Settled'
      BY <1>1, <3>5 DEF Settled, Answered
    <3> QED BY <3>3, <3>6, KeptByEnd
  <2>3. CASE n # 1
    <3>1. n > 1 /\ 1 \in 1..n - 1
      BY <2>1, <2>3
    <3>2. /\ pc' = "acting" /\ Replay' = Replay
          /\ \A test \in TestNames : status'[head][test] = status[head][test]
          /\ \/ /\ todo' = Tail(todo)
                /\ \A test \in TestNames : Head(todo) = GetTest(test) => status[head][test] = "success"
             \/ todo' = <<Restored>> \o Tail(todo) /\ Head(todo) = RestoreReview
             \/ todo' = <<>> /\ Failing
      BY <1>5, <2>1, <3>1, ReadingStep
    <3>3. ASSUME todo' # <<>>, Len(todo') = n \/ Len(todo') = n - 1,
                 todo'[Len(todo')] = todo[n],
                 \A i \in 1..Len(todo') - 1 : todo'[i] \in Reading,
                 \A i \in 1..n - 1, test \in TestNames :
                     todo[i] = GetTest(test) /\ status[head][test] # "success"
                         => \E j \in 1..Len(todo') - 1 : todo'[j] = GetTest(test)
          PROVE  SInv'
      <4>1. \/ stirred
            \/ \E i \in 1..Len(todo') - 1 : \E test \in TestNames :
                   todo'[i] = GetTest(test) /\ status'[head][test] # "success"
        <5>1. CASE stirred
          BY <5>1
        <5>2. CASE \E i \in 1..n - 1 : \E test \in TestNames :
                       todo[i] = GetTest(test) /\ status[head][test] # "success"
          <6>1. PICK i \in 1..n - 1, test \in TestNames :
                    todo[i] = GetTest(test) /\ status[head][test] # "success"
            BY <5>2
          <6>2. PICK j \in 1..Len(todo') - 1 : todo'[j] = GetTest(test)
            BY <3>3, <6>1
          <6>3. status'[head][test] # "success"
            BY <3>2, <6>1
          <6> QED BY <6>2, <6>3
        <5> QED BY <1>5, <5>1, <5>2
      <4>2. IsReport(todo'[Len(todo')])
        BY <1>5, <3>3
      <4> HIDE DEF n
      <4>3. Testing'
        BY <1>1, <3>2, <3>3, <4>1, <4>2 DEF Testing
      <4> QED BY <3>2, <4>3, KeptByPhase
    <3>4. \A i \in 1..n - 2 : i \in 1..n - 1 /\ i + 1 \in 1..n - 1
      BY <2>1
    <3>5. n - 1 \in 1..n - 1 /\ (n - 1) + 1 = n
      BY <2>1, <3>1
    <3>6. CASE /\ todo' = Tail(todo)
               /\ \A test \in TestNames : Head(todo) = GetTest(test) => status[head][test] = "success"
      <4>1. /\ todo' # <<>> /\ Len(todo') = n - 1 /\ Len(todo') - 1 = n - 2
            /\ todo'[n - 1] = todo[n]
            /\ \A i \in 1..n - 2 : todo'[i] \in Reading
        BY <1>5, <2>1, <3>1, <3>4, <3>5, <3>6
      <4>2. ASSUME NEW i \in 1..n - 1, NEW test \in TestNames,
                   todo[i] = GetTest(test), status[head][test] # "success"
            PROVE  \E j \in 1..n - 2 : todo'[j] = GetTest(test)
        <5>1. i # 1
          BY <2>1, <3>6, <4>2
        <5>2. i - 1 \in 1..n - 2 /\ i - 1 \in 1..n - 1 /\ (i - 1) + 1 = i
          BY <2>1, <4>2, <5>1
        <5>3. todo'[i - 1] = GetTest(test)
          BY <2>1, <3>6, <4>2, <5>2
        <5> QED BY <5>2, <5>3
      <4> HIDE DEF n
      <4> QED BY <3>3, <4>1, <4>2
    <3>7. CASE todo' = <<Restored>> \o Tail(todo) /\ Head(todo) = RestoreReview
      <4>1. Restored \in Call \union {Restored} /\ Tail(todo) \in Seq(Call \union {Restored})
        BY <2>1, SeqMonotonic
      <4>2. /\ todo' # <<>> /\ Len(todo') = n /\ todo'[1] = Restored
            /\ \A i \in 1..n - 1 : todo'[i + 1] = Tail(todo)[i]
        <5> DEFINE S == Call \union {Restored}
                   r == Restored
        <5>1. r \in S /\ Tail(todo) \in Seq(S) /\ todo' = <<r>> \o Tail(todo)
          BY <3>7, <4>1
        <5> HIDE DEF S, r
        <5>2. /\ todo' # <<>> /\ Len(todo') = Len(Tail(todo)) + 1 /\ todo'[1] = r
              /\ \A i \in 1..Len(Tail(todo)) : todo'[i + 1] = Tail(todo)[i]
          BY <5>1, InFront
        <5> QED BY <2>1, <5>2 DEF r
      <4>3. \A i \in 1..n : i # 1 => todo'[i] = todo[i]
        <5>1. ASSUME NEW i \in 1..n, i # 1 PROVE todo'[i] = todo[i]
          <6>1. i - 1 \in 1..n - 1 /\ (i - 1) + 1 = i
            BY <2>1, <5>1
          <6> QED BY <2>1, <4>2, <6>1
        <5> QED BY <5>1
      <4>4. todo'[n] = todo[n] /\ \A i \in 1..n - 1 : i \in 1..n /\ todo'[i] \in Reading
        <5>1. n \in 1..n /\ \A i \in 1..n - 1 : i \in 1..n
          BY <2>1
        <5> QED BY <1>3, <1>5, <2>3, <4>2, <4>3, <5>1
      <4>5. ASSUME NEW i \in 1..n - 1, NEW test \in TestNames, todo[i] = GetTest(test)
            PROVE  \E j \in 1..n - 1 : todo'[j] = GetTest(test)
        <5>1. GetTest(test).call = "get_test" /\ RestoreReview.call = "restore_review"
          BY CallContents
        <5>2. i # 1
          BY <2>1, <3>7, <4>5, <5>1
        <5>3. todo'[i] = GetTest(test)
          BY <4>3, <4>4, <4>5, <5>2
        <5> QED BY <5>3
      <4> HIDE DEF n
      <4> QED BY <3>3, <4>2, <4>4, <4>5
    <3>8. CASE todo' = <<>> /\ Failing
      <4>1. Failing'
        BY <1>1, <3>2, <3>8 DEF Failing
      <4> QED BY <1>1, <1>2, <3>2, <3>8, <4>1, KeptByEnd
    <3> QED BY <3>2, <3>6, <3>7, <3>8
  <2> QED BY <2>2, <2>3
<1> QED BY <1>4, <1>5 DEF Testing

\* The calls of a state that leads to a merge leave it in that state.
LEMMA DecidingGoesOn == ASSUME Steady, Deciding PROVE SInv'
<1> DEFINE D == Decisions(state.name)
           c == Head(todo)
<1>1. /\ Sane' /\ Sane /\ todo \in Seq(D)
      /\ Replay.name \in {"STATE_TESTS_AUTOMERGE", "STATE_MERGE_APPROVAL_PENDING"}
      /\ state.name = Replay.name
  BY SteadyFacts, SameSanity DEF Deciding
<1>2. ASSUME pc' = "acting", state' = state, Replay' = Replay, todo' \in Seq(D) PROVE SInv'
  <2>1. todo' \in Seq(Decisions(state'.name))
    BY <1>2
  <2>2. Deciding'
    BY <1>1, <1>2, <2>1 DEF Deciding
  <2> QED BY <1>2, <2>2, KeptByPhase
<1>3. CASE todo = <<>>
  <2>1. Settled
    BY <1>1 DEF Settled, Answered
  <2> QED BY <1>3, <2>1, SettledLeaves
<1>4. CASE todo # <<>>
  <2>1. c \in D /\ Tail(todo) \in Seq(D) /\ c \in Call /\ <<>> \in Seq(D)
        /\ <<>> \o Tail(todo) = Tail(todo)
    BY <1>1, <1>4, NextCall, Rest, ConcatEmptySeq, EmptySeq DEF Steady
  <2>2. Restored \in D /\ Reading \subseteq D
    BY DEF Decisions, Reading, Restored
  <2>3. CASE c \in Reading
    <3>1. /\ pc' = "acting" /\ Replay' = Replay /\ state' = state
          /\ \/ todo' = Tail(todo)
             \/ todo' = <<Restored>> \o Tail(todo)
             \/ todo' = <<>>
      BY <1>4, <2>3, ReadingStep
    <3> HIDE DEF D, c
    <3>2. <<Restored>> \o Tail(todo) \in Seq(D)
      BY <2>1, <2>2, InFront
    <3> QED BY <1>2, <2>1, <3>1, <3>2
  <2>4. CASE c = MergePull
    <3>1. c.call = "merge"
      BY <2>4, CallContents
    <3>2. CallMerge \/ MergeRefused
      BY <1>4, <3>1, FirstCallDecides DEF Steady
    <3>3. pc' = "idle" /\ UNCHANGED <<comments, since, pull>>
      BY <3>2, SteadyFacts DEF CallMerge, MergeRefused, EndVisit, github
    <3>4. Replay' = Replay
      BY <3>3, SteadyFacts, SameReplay
    <3>5. Settled'
      BY <1>1, <3>4 DEF Settled, Answered
    <3> QED BY <3>3, <3>5, KeptByLeaving
  <2>5. CASE state.name = "STATE_MERGE_APPROVAL_PENDING" /\ c = PendingFirst
    <3>1. c.call = "set_status" /\ c.context = "review" /\ "review" \in Contexts
      BY <2>5, RequestContents DEF Contexts
    <3>2. CallSetStatus
      BY <1>4, <3>1, FirstCallDecides DEF Steady
    <3> QED BY <1>2, <2>1, <3>1, <3>2, StatusSet
  <2>6. CASE /\ state.name = "STATE_MERGE_APPROVAL_PENDING"
             /\ c.call = "add_comment" /\ c.kind = "approval required"
    <3> DEFINE d == [who |-> Bot, kind |-> c.kind, sha |-> pull, approvers |-> c.approvers]
    <3>1. CallAddComment
      BY <1>4, <2>6, FirstCallDecides DEF Steady
    <3>2. /\ todo' = Tail(todo) /\ pc' = "acting" /\ state' = state
          /\ Replay' = Evolve(Replay, d) /\ Replay \in StateRecord
      BY <3>1, CommentWritten
    <3>3. d.who = Bot /\ d.sha = pull /\ d.kind = c.kind
      OBVIOUS
    <3> HIDE DEF d
    <3>4. Replay' = Replay
      BY <1>1, <2>6, <3>2, <3>3, BotIsHeard DEF Late
    <3> QED BY <1>2, <2>1, <3>2, <3>4
  <2>7. CASE state.name = "STATE_MERGE_APPROVAL_PENDING" /\ c.call = "ask_again_for_merge"
    <3> DEFINE app == c.approvers
               x == IF Review = "success" THEN <<>> ELSE <<Restored>>
               y == IF c.changed \/ Review # "success" THEN RequestApproval(app) ELSE <<>>
    <3>1. OnlyThen(x \o y)
      <4>1. CallAskAgainForMerge
        BY <1>4, <2>7, FirstCallDecides DEF Steady
      <4> QED BY <4>1 DEF CallAskAgainForMerge, Restored
    <3>2. /\ todo' = (x \o y) \o Tail(todo) /\ pc' = "acting" /\ state' = state
          /\ Replay' = Replay
      <4> HIDE DEF x, y
      <4> QED BY <3>1, CallsLed
    <3>3. PendingFirst \in D /\ Request(app) \in D
      <4>1. app \in Value
        BY <2>1, <2>7, CallFields
      <4>2. Request(app) \in Call /\ Pressing(Request(app))
        BY <4>1 DEF Request, AddComment, Call, BotKinds, Pressing
      <4> QED BY <2>7, <4>2 DEF Decisions
    <3> DEFINE P == PendingFirst
               Q == Request(app)
    <3>4. x \in Seq(D) /\ y \in Seq(D)
      <4>1. RequestApproval(app) = <<P, Q>>
        BY RequestContents
      <4> HIDE DEF P, Q, D
      <4>2. <<P, Q>> \in Seq(D) /\ <<Restored>> \in Seq(D)
        BY <2>2, <3>3, ShortSequences DEF P, Q
      <4> QED BY <2>1, <4>1, <4>2
    <3> HIDE DEF x, y, D
    <3>5. todo' \in Seq(D)
      BY <2>1, <3>2, <3>4, ConcatProperties
    <3> QED BY <1>2, <3>2, <3>5
  <2> QED BY <2>1, <2>3, <2>4, <2>5, <2>6, <2>7 DEF Decisions, Pressing
<1> QED BY <1>3, <1>4

\* Every call of a visit that nothing disturbs.
LEMMA ActsKeepSInv == ASSUME QInv, SInv, Acts PROVE SInv'
<1>1. CASE asked
  <2>1. asked' = asked /\ stirred' = stirred /\ pc = "acting"
    BY ActsKeep
  <2> QED BY <1>1, <2>1 DEF SInv
<1>2. CASE ~asked
  <2>1. Steady
    BY <1>2, ActsKeep DEF Steady
  <2>2. OnCourse
    BY <2>1, SteadyFacts
  <2> QED BY <2>1, <2>2, SettledLeaves, ComplainingGoesOn, AskingGoesOn, ApprovingGoesOn,
             TestingGoesOn, DecidingGoesOn DEF OnCourse
<1> QED BY <1>1, <1>2

-----------------------------------------------------------------------------
(* How a visit starts *)

\* One more call at the end.
LEMMA AtEnd ==
    ASSUME NEW S, NEW z \in S, NEW calls \in Seq(S)
    PROVE  LET all == calls \o <<z>>
           IN  /\ all \in Seq(S) /\ all # <<>> /\ Len(all) = Len(calls) + 1
               /\ all[Len(calls) + 1] = z
               /\ \A i \in 1..Len(calls) : all[i] = calls[i]
<1> DEFINE one == <<z>>
<1>1. one \in Seq(S) /\ Len(one) = 1 /\ one[1] = z /\ Len(calls) \in Nat
  BY LenProperties
<1> SUFFICES ASSUME NEW all, all = calls \o one
             PROVE  /\ all \in Seq(S) /\ all # <<>> /\ Len(all) = Len(calls) + 1
                    /\ all[Len(calls) + 1] = z
                    /\ \A i \in 1..Len(calls) : all[i] = calls[i]
  BY DEF one
<1> HIDE DEF one
<1>2. /\ all \in Seq(S) /\ Len(all) = Len(calls) + 1
      /\ \A i \in 1..Len(calls) + 1 :
             all[i] = IF i <= Len(calls) THEN calls[i] ELSE one[i - Len(calls)]
  BY <1>1, ConcatProperties
<1>3. /\ Len(calls) + 1 \in 1..Len(calls) + 1 /\ ~(Len(calls) + 1 <= Len(calls))
      /\ (Len(calls) + 1) - Len(calls) = 1
      /\ \A i \in 1..Len(calls) : i \in 1..Len(calls) + 1 /\ i <= Len(calls)
  BY <1>1
<1>4. all[Len(calls) + 1] = z /\ \A i \in 1..Len(calls) : all[i] = calls[i]
  BY <1>1, <1>2, <1>3
<1>5. all # <<>>
  BY <1>1, <1>2, EmptySeq
<1> QED BY <1>2, <1>4, <1>5

\* The calls that reset the tests, and those that look at them.
LEMMA TestLoops ==
    /\ LET f == [i \in DOMAIN Tests |-> SetStatus(Tests[i], "pending")]
       IN  /\ f \in Seq(Resets) /\ Len(f) = Len(Tests)
           /\ \A test \in TestNames : \E i \in 1..Len(Tests) : f[i] = SetStatus(test, "pending")
    /\ LET f == [i \in DOMAIN Tests |-> GetTest(Tests[i])]
       IN  /\ f \in Seq(Reading) /\ Len(f) = Len(Tests)
           /\ \A test \in TestNames : \E i \in 1..Len(Tests) : f[i] = GetTest(test)
<1>1. Len(Tests) \in Nat /\ DOMAIN Tests = 1..Len(Tests)
  BY Names
<1>2. \A i \in 1..Len(Tests) : Tests[i] \in TestNames
  BY <1>1 DEF TestNames
<1>3. \A test \in TestNames : \E i \in 1..Len(Tests) : Tests[i] = test
  BY <1>1 DEF TestNames
<1>4. \A i \in 1..Len(Tests) : /\ SetStatus(Tests[i], "pending") \in Resets
                               /\ GetTest(Tests[i]) \in Reading
  BY <1>2 DEF Resets, Reading
<1>5. LET f == [i \in DOMAIN Tests |-> SetStatus(Tests[i], "pending")]
      IN  /\ f \in Seq(Resets) /\ Len(f) = Len(Tests)
          /\ \A test \in TestNames : \E i \in 1..Len(Tests) : f[i] = SetStatus(test, "pending")
  <2> DEFINE f == [i \in DOMAIN Tests |-> SetStatus(Tests[i], "pending")]
  <2>1. \A i \in 1..Len(Tests) : f[i] = SetStatus(Tests[i], "pending")
    BY <1>1
  <2>2. f \in Seq(Resets) /\ Len(f) = Len(Tests)
    BY <1>1, <1>4
  <2> HIDE DEF f
  <2>3. \A test \in TestNames : \E i \in 1..Len(Tests) : f[i] = SetStatus(test, "pending")
    BY <1>3, <2>1
  <2> QED BY <2>2, <2>3 DEF f
<1>6. LET f == [i \in DOMAIN Tests |-> GetTest(Tests[i])]
      IN  /\ f \in Seq(Reading) /\ Len(f) = Len(Tests)
          /\ \A test \in TestNames : \E i \in 1..Len(Tests) : f[i] = GetTest(test)
  <2> DEFINE f == [i \in DOMAIN Tests |-> GetTest(Tests[i])]
  <2>1. \A i \in 1..Len(Tests) : f[i] = GetTest(Tests[i])
    BY <1>1
  <2>2. f \in Seq(Reading) /\ Len(f) = Len(Tests)
    BY <1>1, <1>4
  <2> HIDE DEF f
  <2>3. \A test \in TestNames : \E i \in 1..Len(Tests) : f[i] = GetTest(test)
    BY <1>3, <2>1
  <2> QED BY <2>2, <2>3 DEF f
<1> QED BY <1>5, <1>6

\* What a verdict comes after.
LEMMA VerdictShape ==
    ASSUME NEW app, NEW votes, Tally(app, votes).approvers.all
    PROVE  LET calls == ApprovalPending(app, votes)
               n == Len(calls)
           IN  /\ ApprovalRequired(app, votes) = calls
               /\ calls # <<>> /\ n \in Nat /\ IsVerdict(calls[n])
               /\ \A i \in 1..n - 1 : calls[i] \in Resets
               /\ \A test \in TestNames : \E i \in 1..n - 1 : calls[i] = SetStatus(test, "pending")
<1> DEFINE t == Tally(app, votes)
           last == IF t.testsOnly THEN AddComment("testing approved", app)
                                  ELSE AddComment("approved", Approved)
           tests == [i \in DOMAIN Tests |-> SetStatus(Tests[i], "pending")]
           S == Resets \union {last}
           k == Len(Tests)
<1>1. /\ ApprovalPending(app, votes) = (<<Restored>> \o tests) \o <<last>>
      /\ ApprovalRequired(app, votes) = ApprovalPending(app, votes) \o <<>>
  BY DEF ApprovalPending, ApprovalRequired, Restored
<1>2. IsVerdict(last)
  BY DEF IsVerdict, AddComment
<1>3. /\ tests \in Seq(Resets) /\ Len(tests) = k /\ k \in Nat
      /\ \A test \in TestNames : \E i \in 1..k : tests[i] = SetStatus(test, "pending")
  BY TestLoops, Names
<1>4. Restored \in Resets
  BY DEF Resets, Restored
<1> HIDE DEF last, tests, k
<1> DEFINE front == <<Restored>> \o tests
<1>5. /\ front \in Seq(Resets) /\ Len(front) = k + 1
      /\ \A i \in 1..k : front[i + 1] = tests[i]
  BY <1>3, <1>4, InFront
<1> HIDE DEF front
<1>6. front \in Seq(S) /\ last \in S
  BY <1>5, SeqMonotonic
<1> SUFFICES ASSUME NEW calls, calls = front \o <<last>>
             PROVE  /\ calls \o <<>> = calls
                    /\ calls # <<>> /\ Len(calls) \in Nat /\ IsVerdict(calls[Len(calls)])
                    /\ \A i \in 1..Len(calls) - 1 : calls[i] \in Resets
                    /\ \A test \in TestNames :
                           \E i \in 1..Len(calls) - 1 : calls[i] = SetStatus(test, "pending")
  BY <1>1 DEF front
<1> HIDE DEF S
<1>7. /\ calls \in Seq(S) /\ calls # <<>> /\ Len(calls) = (k + 1) + 1 /\ calls[(k + 1) + 1] = last
      /\ \A i \in 1..k + 1 : calls[i] = front[i]
  BY <1>5, <1>6, AtEnd
<1>8. calls \o <<>> = calls
  BY <1>7, ConcatEmptySeq
<1>9. Len(calls) - 1 = k + 1 /\ Len(calls) \in Nat
  BY <1>3, <1>7
<1>10. ASSUME NEW i \in 1..k + 1 PROVE calls[i] \in Resets
  BY <1>3, <1>5, <1>7
<1>11. ASSUME NEW test \in TestNames PROVE \E i \in 1..k + 1 : calls[i] = SetStatus(test, "pending")
  <2>1. PICK i \in 1..k : tests[i] = SetStatus(test, "pending")
    BY <1>3
  <2>2. i + 1 \in 1..k + 1
    BY <1>3
  <2> QED BY <1>5, <1>7, <2>1, <2>2
<1> QED BY <1>2, <1>7, <1>8, <1>9, <1>10, <1>11

\* What comes before the call that success leads to.
LEMMA TestingShape ==
    ASSUME NEW call
    PROVE  LET calls == WhenTestsPass(call)
               n == Len(calls)
           IN  /\ Tests = <<>> => calls \in Seq(Reading)
               /\ calls \in Seq(Reading \union {call})
               /\ Tests # <<>> =>
                      /\ calls # <<>> /\ n \in Nat /\ calls[n] = call
                      /\ \A i \in 1..n - 1 : calls[i] \in Reading
                      /\ \A test \in TestNames : \E i \in 1..n - 1 : calls[i] = GetTest(test)
<1> DEFINE tests == [i \in DOMAIN Tests |-> GetTest(Tests[i])]
           S == Reading \union {call}
           k == Len(Tests)
<1>1. WhenTestsPass(call) = <<RestoreReview>> \o (IF Tests = <<>> THEN <<>> ELSE tests \o <<call>>)
  BY DEF WhenTestsPass
<1>2. /\ tests \in Seq(Reading) /\ Len(tests) = k /\ k \in Nat
      /\ \A test \in TestNames : \E i \in 1..k : tests[i] = GetTest(test)
  BY TestLoops, Names
<1>3. RestoreReview \in Reading /\ <<>> \in Seq(Reading) /\ Reading \subseteq S
  BY EmptySeq DEF Reading
<1> HIDE DEF tests, k
<1> SUFFICES ASSUME NEW calls, calls = WhenTestsPass(call)
             PROVE  /\ Tests = <<>> => calls \in Seq(Reading)
                    /\ calls \in Seq(S)
                    /\ Tests # <<>> =>
                      /\ calls # <<>> /\ Len(calls) \in Nat /\ calls[Len(calls)] = call
                      /\ \A i \in 1..Len(calls) - 1 : calls[i] \in Reading
                      /\ \A test \in TestNames : \E i \in 1..Len(calls) - 1 : calls[i] = GetTest(test)
  OBVIOUS
<1>4. CASE Tests = <<>>
  <2>1. calls = <<RestoreReview>> \o <<>>
    BY <1>1, <1>4
  <2>2. calls \in Seq(Reading)
    BY <1>3, <2>1, InFront
  <2> HIDE DEF S
  <2> QED BY <1>3, <1>4, <2>2, SeqMonotonic
<1>5. CASE Tests # <<>>
  <2>1. tests \in Seq(S) /\ call \in S
    BY <1>2, SeqMonotonic
  <2> HIDE DEF S
  <2>0. PICK rest : rest = tests \o <<call>>
    OBVIOUS
  <2>2. /\ rest \in Seq(S) /\ Len(rest) = k + 1 /\ rest[k + 1] = call
        /\ \A i \in 1..k : rest[i] = tests[i]
    BY <1>2, <2>1, <2>0, AtEnd
  <2>3. calls = <<RestoreReview>> \o rest
    BY <1>1, <1>5, <2>0
  <2>4. /\ calls \in Seq(S) /\ calls # <<>> /\ Len(calls) = (k + 1) + 1 /\ calls[1] = RestoreReview
        /\ \A i \in 1..k + 1 : calls[i + 1] = rest[i]
    BY <1>3, <2>2, <2>3, InFront
  <2>5. calls[(k + 1) + 1] = call /\ \A i \in 1..k : calls[i + 1] = tests[i]
    <3>1. k + 1 \in 1..k + 1 /\ \A i \in 1..k : i \in 1..k + 1
      BY <1>2
    <3> QED BY <2>2, <2>4, <3>1
  <2>6. Len(calls) - 1 = k + 1 /\ Len(calls) \in Nat
    BY <1>2, <2>4
  <2>7. ASSUME NEW i \in 1..k + 1 PROVE calls[i] \in Reading
    <3>1. CASE i = 1
      BY <1>3, <2>4, <3>1
    <3>2. CASE i # 1
      <4>1. i - 1 \in 1..k /\ (i - 1) + 1 = i
        BY <1>2, <3>2
      <4>2. tests[i - 1] \in Reading
        BY <1>2, <4>1
      <4> QED BY <2>5, <4>1, <4>2
    <3> QED BY <3>1, <3>2
  <2>8. ASSUME NEW test \in TestNames PROVE \E i \in 1..k + 1 : calls[i] = GetTest(test)
    <3>1. PICK i \in 1..k : tests[i] = GetTest(test)
      BY <1>2
    <3>2. i + 1 \in 1..k + 1
      BY <1>2
    <3> QED BY <2>5, <3>1, <3>2
  <2> QED BY <1>5, <2>4, <2>5, <2>6, <2>7, <2>8
<1> QED BY <1>4, <1>5

\* A vote leaves approvers.
LEMMA ApproveIsValue ==
    ASSUME NEW app \in Value, NEW u \in Users
    PROVE  Approve(app, u) \in Value
<1> DEFINE struck == {[u |-> g.u \ {u}, n |-> IF u \in g.u THEN g.n - 1 ELSE g.n] :
                          g \in app.groups}
           still == {g \in struck : g.n >= 1}
<1>1. still \subseteq Group
  <2> SUFFICES ASSUME NEW g \in app.groups,
                      (IF u \in g.u THEN g.n - 1 ELSE g.n) >= 1
               PROVE  [u |-> g.u \ {u}, n |-> IF u \in g.u THEN g.n - 1 ELSE g.n] \in Group
    OBVIOUS
  <2>1. g.u \in SUBSET Users /\ g.n \in Nat
    BY DEF Value, Group
  <2>2. g.u \ {u} \in SUBSET Users /\ (IF u \in g.u THEN g.n - 1 ELSE g.n) \in Nat
    BY <2>1
  <2> QED BY <2>2 DEF Group
<1>2. \/ Approve(app, u) = Approved \/ Approve(app, u) = app
      \/ Approve(app, u) = Pending(still)
  BY DEF Approve
<1> HIDE DEF still
<1>3. Approved \in Value /\ Pending(still) \in Value
  BY <1>1, Values
<1> QED BY <1>2, <1>3

\* What the votes of a replayed state leave.
LEMMA VotesTallied ==
    ASSUME NEW app \in Value, NEW votes \in Seq(Recorded)
    PROVE  LET t == Tally(app, votes)
           IN  /\ t.approvers.all \/ Heard(t.approvers, votes)
               /\ t.changed \in BOOLEAN /\ t.approvers \in Value
               /\ t.changed \/ t.approvers = app
               /\ Heard(app, votes) => ~t.approvers.all /\ ~t.changed
<1>1. Len(votes) \in Nat /\ DOMAIN votes = 1..Len(votes)
  BY LenProperties
<1>2. ASSUME NEW n \in 1..Len(votes) PROVE votes[n].u \in Users
  <2>1. votes[n] \in Recorded
    BY ElementOfSeq
  <2> QED BY <2>1 DEF Recorded
<1>3. \A n \in 1..Len(votes), a \in Value : Approve(a, votes[n].u) \in Value
  BY <1>2, ApproveIsValue
<1>4. /\ Tally(app, votes).approvers.all \/ Heard(Tally(app, votes).approvers, votes)
      /\ Tally(app, votes).changed \in BOOLEAN /\ Tally(app, votes).approvers \in Value
      /\ Tally(app, votes).changed \/ Tally(app, votes).approvers = app
  BY <1>1, <1>3, TallyHears
<1>5. ASSUME Heard(app, votes)
      PROVE  ~Tally(app, votes).approvers.all /\ ~Tally(app, votes).changed
  <2>1. Tally(app, votes) = Uncounted(app)
    BY <1>1, <1>5, HeardBefore
  <2> QED BY <1>5, <2>1 DEF Uncounted, Heard
<1> QED BY <1>4, <1>5

\* Nothing that a visit looks at is different from what it was.
LEMMA SettledStays ==
    ASSUME TypeOK, UNCHANGED <<since, comments, pull, head, cached, status, mergeable>>
    PROVE  /\ Replay' = Replay
           /\ (Settled' <=> Settled) /\ (Answered' <=> Answered)
           /\ (Sane' <=> Sane) /\ (Insane' <=> Insane) /\ Wrong' = Wrong /\ Review' = Review
<1>1. Replay' = Replay
  BY SameReplay
<1>2. (Failing' <=> Failing) /\ Review' = Review
  BY SameStatus
<1>3. (Sane' <=> Sane) /\ (Insane' <=> Insane) /\ Wrong' = Wrong
  BY SameSanity
<1>4. Answered' <=> Answered
  BY <1>1, <1>2 DEF Answered
<1>5. Settled' <=> Settled
  BY <1>2, <1>3, <1>4 DEF Settled
<1> QED BY <1>1, <1>2, <1>3, <1>4, <1>5

\* A visit that nothing happened since the previous one starts where that
\* one has left the pull request.
LEMMA StartKeepsSInv == ASSUME QInv, SInv, StartVisit PROVE SInv'
<1>1. /\ pc = "idle" /\ asked' = FALSE /\ stirred' = asked /\ pull' = head /\ cached' = head
      /\ UNCHANGED <<head, since, comments, status, mergeable>> /\ TypeOK
  BY DEF StartVisit, github, QInv
<1>2. CASE Paths[head] = {}
  <2>1. todo' = <<Complain("empty")>> /\ pc' = "acting"
    BY <1>2 DEF StartVisit
  <2>2. Insane' /\ Wrong' = "empty"
    BY <1>1, <1>2 DEF Insane, Wrong
  <2>3. asked \/ Review' = "empty"
    <3> SUFFICES ASSUME ~asked PROVE Review' = "empty"
      OBVIOUS
    <3>1. Settled /\ cached = head
      BY <1>1 DEF SInv
    <3>2. Review = "empty"
      BY <1>2, <3>1 DEF Settled, Sane, Wrong
    <3> QED BY <1>1, <3>1, <3>2 DEF Review
  <2>4. todo' = <<Complain(Wrong)>>'
    BY <2>1, <2>2 DEF Complain
  <2>5. Complaining'
    BY <1>1, <2>2, <2>3, <2>4 DEF Complaining
  <2>6. OnCourse'
    BY <2>5, Zenon DEF OnCourse
  <2> QED BY <1>1, <2>1, <2>6 DEF SInv
<1>3. CASE Paths[head] # {} /\ mergeable = "dirty"
  <2>1. todo' = <<Complain("conflicts")>> /\ pc' = "acting"
    BY <1>3 DEF StartVisit
  <2>2. Insane' /\ Wrong' = "conflicts"
    BY <1>1, <1>3 DEF Insane, Wrong
  <2>3. asked \/ Review' = "conflicts"
    <3> SUFFICES ASSUME ~asked PROVE Review' = "conflicts"
      OBVIOUS
    <3>1. Settled /\ cached = head
      BY <1>1 DEF SInv
    <3>2. Review = "conflicts"
      BY <1>3, <3>1 DEF Settled, Sane, Wrong
    <3> QED BY <1>1, <3>1, <3>2 DEF Review
  <2>4. todo' = <<Complain(Wrong)>>'
    BY <2>1, <2>2 DEF Complain
  <2>5. Complaining'
    BY <1>1, <2>2, <2>3, <2>4 DEF Complaining
  <2>6. OnCourse'
    BY <2>5, Zenon DEF OnCourse
  <2> QED BY <1>1, <2>1, <2>6 DEF SInv
<1>4. CASE Paths[head] # {} /\ mergeable = "clean"
  <2>1. pc' = "replaying"
    BY <1>4 DEF StartVisit
  <2>2. Sane'
    BY <1>1, <1>4 DEF Sane
  <2>3. asked \/ Answered'
    <3> SUFFICES ASSUME ~asked PROVE Answered'
      OBVIOUS
    <3>1. Settled /\ cached = head /\ pull = head
      BY <1>1 DEF SInv
    <3>2. Answered
      BY <1>4, <3>1 DEF Settled, Insane
    <3>3. UNCHANGED <<since, comments, pull, head, cached, status, mergeable>>
      BY <1>1, <3>1
    <3> QED BY <1>1, <3>2, <3>3, SettledStays
  <2> QED BY <1>1, <2>1, <2>2, <2>3 DEF SInv
<1> QED BY <1>2, <1>3, <1>4 DEF StartVisit

\* The action of the state that the comments lead to.
LEMMA ReplayKeepsSInv == ASSUME QInv, SInv, ReplayComments PROVE SInv'
<1>1. /\ pc = "replaying" /\ state' = Replay
      /\ UNCHANGED <<head, since, comments, status, mergeable, pull, cached, asked, stirred>>
      /\ TypeOK
  BY DEF ReplayComments, github, QInv
<1>2. /\ Replay' = Replay /\ (Answered' <=> Answered) /\ (Sane' <=> Sane) /\ Review' = Review
  BY <1>1, SettledStays
<1>3. Sound(Replay, pull)
  BY <1>1, ReplaySound DEF QInv
<1>4. /\ Replay \in StateRecord /\ Replay.name \in States
      /\ Replay.approvers \in Value /\ Replay.haveApproved \in Seq(Recorded)
      /\ Replay.haveApproved_p2 \in Seq(Recorded)
  BY <1>3 DEF Sound, StateRecord
<1>5. CASE asked
  <2>1. pc' # "idle" /\ stirred
    BY <1>1, <1>5 DEF ReplayComments, SInv
  <2> QED BY <1>1, <1>5, <2>1 DEF SInv
<1>6. CASE ~asked
  <2>1. /\ pull = head /\ cached = head /\ Sane /\ Sane' /\ (stirred \/ Answered)
    BY <1>1, <1>2, <1>6 DEF SInv
  <2>2. ASSUME pc' = "acting", Asking' \/ Approving' \/ Testing' \/ Deciding' PROVE SInv'
    <3>1. OnCourse'
      BY <2>2, Zenon DEF OnCourse
    <3> QED BY <1>1, <1>6, <2>1, <2>2, <3>1 DEF SInv
  <2>3. CASE Replay.name = "STATE_INITIAL"
    <3>1. pc' = "checking permissions"
      BY <1>1, <2>3 DEF ReplayComments
    <3>2. stirred
      BY <2>1, <2>3 DEF Answered
    <3> QED BY <1>1, <1>2, <1>6, <2>1, <2>3, <3>1, <3>2 DEF SInv
  <2>4. CASE Replay.name # "STATE_INITIAL"
    <3>1. pc' = "acting" /\ todo' = Action(Replay)
      BY <1>1, <2>4 DEF ReplayComments
    <3>2. CASE Replay.name = "STATE_APPROVAL_PENDING"
      <4> DEFINE app == Replay.approvers
                 votes == Replay.haveApproved
                 t == Tally(app, votes)
      <4>1. /\ t.approvers.all \/ Heard(t.approvers, votes)
            /\ t.changed \in BOOLEAN /\ t.approvers \in Value
            /\ t.changed \/ t.approvers = app
            /\ Heard(app, votes) => ~t.approvers.all /\ ~t.changed
        BY <1>4, VotesTallied
      <4>2. Action(Replay) = ApprovalPending(app, votes)
        BY <3>2 DEF Action
      <4>3. Answered => Heard(app, votes) /\ Review \in {"none", "pending"}
        BY <3>2 DEF Answered
      <4>4. CASE t.approvers.all
        <5>1. stirred
          BY <2>1, <4>1, <4>3, <4>4
        <5>2. LET calls == Action(Replay)
                  n == Len(calls)
              IN  /\ calls # <<>> /\ n \in Nat /\ IsVerdict(calls[n])
                  /\ \A i \in 1..n - 1 : calls[i] \in Resets
                  /\ \A test \in TestNames :
                         \E i \in 1..n - 1 : calls[i] = SetStatus(test, "pending")
          BY <4>2, <4>4, VerdictShape
        <5>3. Approving'
          BY <1>1, <1>2, <2>1, <3>1, <3>2, <5>1, <5>2 DEF Approving
        <5> QED BY <2>2, <3>1, <5>3
      <4>5. CASE ~t.approvers.all
        <5> DEFINE left == t.approvers
                   changed == t.changed
        <5>1. ApprovalPending(app, votes) = <<AskAgain(changed, left)>>
          BY <4>5 DEF ApprovalPending
        <5> HIDE DEF t
        <5>2. PICK a, ch : a = left /\ ch = changed
          OBVIOUS
        <5>3. /\ todo' = <<AskAgain(ch, a)>> /\ ch \in BOOLEAN
              /\ Heard(a, votes) /\ (ch \/ a = app)
              /\ stirred \/ (~ch /\ Review \in {"none", "pending"})
          BY <2>1, <3>1, <4>1, <4>2, <4>3, <4>5, <5>1, <5>2
        <5>4. AskingFor(a)'
          <6>1. todo'[1] = AskAgain(ch, a) /\ AskAgain(ch, a).changed = ch
            BY <5>3, Tuples, CallContents
          <6>2. /\ Sane' /\ Replay'.name = "STATE_APPROVAL_PENDING" /\ Heard(a, Replay'.haveApproved)
                /\ stirred' = stirred
            BY <1>1, <1>2, <2>1, <3>2, <5>3
          <6>3. todo'[1].changed \/ a = Replay'.approvers
            BY <1>2, <5>3, <6>1
          <6>4. stirred' \/ (~todo'[1].changed /\ Review' \in {"none", "pending"})
            BY <1>1, <1>2, <5>3, <6>1
          <6>5. todo' \in {<<AskAgain(c, a)>> : c \in BOOLEAN}
            BY <5>3
          <6> QED BY <6>2, <6>3, <6>4, <6>5 DEF AskingFor
        <5>5. todo' # <<>> /\ todo'[Len(todo')].approvers = a
          <6> DEFINE x == AskAgain(ch, a)
          <6>1. x.approvers = a
            BY CallContents
          <6> HIDE DEF x
          <6>2. <<x>>[Len(<<x>>)] = x /\ <<x>> # <<>>
            BY Tuples
          <6>3. todo' = <<x>>
            BY <5>3 DEF x
          <6> QED BY <6>1, <6>2, <6>3
        <5>6. Asking'
          BY <5>4, <5>5, AskingNext
        <5> QED BY <2>2, <3>1, <5>6
      <4> QED BY <4>4, <4>5
    <3>3. CASE Replay.name = "STATE_TESTS_ONLY"
      <4> DEFINE call == AddComment("tests OK", Replay.approvers)
      <4>1. Action(Replay) = WhenTestsPass(call)
        BY <3>3 DEF Action
      <4>2. IsReport(call)
        BY DEF IsReport, AddComment
      <4> HIDE DEF call
      <4>3. CASE Tests = <<>>
        <5>1. todo' \in Seq(Reading)
          BY <3>1, <4>1, <4>3, TestingShape
        <5>2. Testing'
          BY <1>2, <2>1, <3>3, <4>3, <5>1 DEF Testing
        <5> QED BY <2>2, <3>1, <5>2
      <4>4. CASE Tests # <<>>
        <5>1. /\ todo' # <<>> /\ todo'[Len(todo')] = call
              /\ \A i \in 1..Len(todo') - 1 : todo'[i] \in Reading
              /\ \A test \in TestNames : \E i \in 1..Len(todo') - 1 : todo'[i] = GetTest(test)
          BY <3>1, <4>1, <4>4, TestingShape
        <5>2. \/ stirred
              \/ \E i \in 1..Len(todo') - 1 : \E test \in TestNames :
                     todo'[i] = GetTest(test) /\ status'[head'][test] # "success"
          <6>1. CASE stirred
            BY <6>1
          <6>2. CASE ~stirred
            <7>1. Failing
              BY <2>1, <3>3, <4>4, <6>2 DEF Answered
            <7>2. PICK test \in TestNames : status[head][test] # "success"
              BY <7>1 DEF Failing
            <7> QED BY <1>1, <5>1, <7>2
          <6> QED BY <6>1, <6>2
        <5>3. IsReport(todo'[Len(todo')])
          BY <4>2, <5>1
        <5>4. Testing'
          BY <1>1, <1>2, <2>1, <3>3, <5>1, <5>2, <5>3 DEF Testing
        <5> QED BY <2>2, <3>1, <5>4
      <4> QED BY <4>3, <4>4
    <3>4. CASE Replay.name \in {"STATE_TESTS_AUTOMERGE", "STATE_MERGE_APPROVAL_PENDING"}
      <4>1. MergePull \in Decisions(Replay.name) /\ Reading \subseteq Decisions(Replay.name)
        BY DEF Decisions
      <4>2. todo' \in Seq(Decisions(Replay.name))
        <5>1. CASE Replay.name = "STATE_TESTS_AUTOMERGE"
          <6>1. Action(Replay) = WhenTestsPass(MergePull)
            BY <5>1 DEF Action
          <6>2. todo' \in Seq(Reading \union {MergePull})
            BY <3>1, <6>1, TestingShape
          <6>3. Reading \union {MergePull} \subseteq Decisions(Replay.name)
            BY <4>1
          <6> QED BY <6>2, <6>3, SeqMonotonic
        <5>2. CASE Replay.name = "STATE_MERGE_APPROVAL_PENDING"
          <6> DEFINE t == Tally(Replay.approvers, Replay.haveApproved_p2)
                     ask == AskAgainForMerge(t.changed, t.approvers)
          <6>1. Action(Replay) = IF t.approvers.all THEN <<MergePull>> ELSE <<ask>>
            BY <5>2 DEF Action
          <6>2. t.changed \in BOOLEAN /\ t.approvers \in Value
            BY <1>4, VotesTallied
          <6> HIDE DEF t
          <6>3. ask \in Call /\ Pressing(ask)
            BY <6>2 DEF AskAgainForMerge, Call, Pressing
          <6> HIDE DEF ask
          <6>4. ask \in Decisions(Replay.name)
            BY <5>2, <6>3 DEF Decisions
          <6> QED BY <3>1, <4>1, <6>1, <6>4, ShortSequences
        <5> QED BY <3>4, <5>1, <5>2
      <4>3. todo' \in Seq(Decisions(state'.name)) /\ state'.name = Replay'.name
        BY <1>1, <1>2, <4>2
      <4>4. Deciding'
        BY <1>2, <2>1, <3>4, <4>3 DEF Deciding
      <4> QED BY <2>2, <3>1, <4>4
    <3> QED BY <1>4, <2>4, <3>2, <3>3, <3>4 DEF States
  <2> QED BY <2>3, <2>4
<1> QED BY <1>5, <1>6

\* The first request for approval about a commit.
LEMMA CheckPermissionsKeepsSInv == ASSUME QInv, SInv, CheckPermissionsOfFiles PROVE SInv'
<1> DEFINE app == CheckPermissions(FileRules[head])
           votes == state.haveApproved
           t == Tally(app, votes)
<1>1. /\ pc = "checking permissions" /\ pc' = "acting" /\ todo' = ApprovalRequired(app, votes)
      /\ UNCHANGED <<head, since, comments, status, mergeable, pull, cached, asked, stirred>>
      /\ TypeOK
  BY DEF CheckPermissionsOfFiles, github, QInv
<1>2. /\ Replay' = Replay /\ (Sane' <=> Sane)
  BY <1>1, SettledStays
<1>3. CASE asked
  BY <1>1, <1>3 DEF SInv
<1>4. CASE ~asked
  <2>1. /\ pull = head /\ cached = head /\ Sane /\ state = Replay /\ state.name = "STATE_INITIAL"
        /\ stirred
    BY <1>1, <1>4 DEF SInv
  <2>2. ASSUME Asking' \/ Approving' PROVE SInv'
    <3>1. OnCourse'
      BY <2>2, Zenon DEF OnCourse
    <3> QED BY <1>1, <1>4, <2>1, <3>1 DEF SInv
  <2>3. app \in Value /\ votes \in Seq(Recorded)
    <3>1. head \in Shas /\ state \in StateRecord
      BY <1>1 DEF TypeOK
    <3>2. Stands(app, FileRules[head], {})
      BY <3>1, HeadsFiles, CheckPermissionsStands
    <3> HIDE DEF app
    <3> QED BY <3>1, <3>2 DEF Stands, StateRecord
  <2> HIDE DEF app
  <2>4. /\ t.approvers.all \/ Heard(t.approvers, votes)
        /\ t.changed \in BOOLEAN
    BY <2>3, VotesTallied
  <2>5. CASE t.approvers.all
    <3>1. LET calls == ApprovalRequired(app, votes)
              n == Len(calls)
          IN  /\ calls # <<>> /\ n \in Nat /\ IsVerdict(calls[n])
              /\ \A i \in 1..n - 1 : calls[i] \in Resets
              /\ \A test \in TestNames :
                     \E i \in 1..n - 1 : calls[i] = SetStatus(test, "pending")
      BY <2>5, VerdictShape
    <3> HIDE DEF t, votes
    <3>2. Approving'
      BY <1>1, <1>2, <2>1, <3>1 DEF Approving
    <3> QED BY <2>2, <3>2
  <2>6. CASE ~t.approvers.all
    <3>1. ApprovalRequired(app, votes) =
              <<AskAgain(t.changed, t.approvers)>> \o RequestApproval(t.approvers)
      BY <2>6 DEF ApprovalRequired, ApprovalPending
    <3> HIDE DEF t
    <3>2. PICK a, ch : a = t.approvers /\ ch = t.changed
      OBVIOUS
    <3> DEFINE x == AskAgain(ch, a)
               P == PendingFirst
               Q == Request(a)
    <3>3. todo' = <<x, P, Q>>
      <4>1. RequestApproval(a) = <<P, Q>>
        BY RequestContents
      <4>2. todo' = <<x>> \o RequestApproval(a)
        BY <1>1, <3>1, <3>2
      <4> HIDE DEF x, P, Q
      <4>3. <<x>> \o <<P, Q>> = <<x, P, Q>>
        BY OneBeforeTwo
      <4> QED BY <4>1, <4>2, <4>3
    <3>4. todo' # <<>> /\ todo'[Len(todo')].approvers = a
      <4>1. Q.approvers = a
        BY RequestContents
      <4> HIDE DEF x, P, Q
      <4>2. <<x, P, Q>>[Len(<<x, P, Q>>)] = Q /\ <<x, P, Q>> # <<>>
        BY Tuples
      <4> QED BY <3>3, <4>1, <4>2
    <3>5. AskingFor(a)'
      <4>1. /\ Sane' /\ stirred' /\ Replay'.name \in {"STATE_INITIAL", "STATE_APPROVAL_PENDING"}
            /\ Heard(a, Replay'.haveApproved) /\ ch \in BOOLEAN
        BY <1>1, <1>2, <2>1, <2>4, <2>6, <3>2
      <4>2. todo' \in {<<AskAgain(c, a), PendingFirst, Request(a)>> : c \in BOOLEAN}
        BY <3>3, <4>1
      <4> QED BY <4>1, <4>2, Zenon DEF AskingFor
    <3>6. Asking'
      BY <3>4, <3>5, AskingNext
    <3> QED BY <2>2, <3>6
  <2> QED BY <2>5, <2>6
<1> QED BY <1>3, <1>4

\* Nothing that happens outside, and no failure, goes unnoticed.
LEMMA NoticedKeepsSInv == ASSUME asked', stirred' \/ pc' = "idle" PROVE SInv'
BY DEF SInv

\* A quiet pull request is cached with its head already.
LEMMA RefreshKeepsSInv == ASSUME QInv, SInv, RefreshCache PROVE SInv'
<1>1. asked
  BY DEF RefreshCache, SInv
<1>2. UNCHANGED <<asked, stirred, pc>>
  BY DEF RefreshCache
<1> QED BY <1>1, <1>2, NoticedKeepsSInv DEF SInv

\* To begin with, something new is there to look at.
LEMMA InitSInv == Init => SInv
BY DEF Init, SInv

\* Nothing at all.
LEMMA StutterKeepsSInv == ASSUME QInv, SInv, UNCHANGED vars PROVE SInv'
<1>1. UNCHANGED <<head, since, comments, status, mergeable, pc, pull, cached, state, todo,
                  asked, stirred>> /\ TypeOK
  BY DEF vars, github, worker, QInv
<1>2. /\ Replay' = Replay /\ (Settled' <=> Settled) /\ (Answered' <=> Answered)
      /\ (Sane' <=> Sane)
  BY <1>1, SettledStays
<1>3. OnCourse' <=> OnCourse
  <2>1. (Insane' <=> Insane) /\ Wrong' = Wrong /\ Review' = Review
    BY <1>1, SettledStays
  <2>2. Complaining' <=> Complaining
    BY <1>1, <2>1 DEF Complaining
  <2>3. \A app : AskingFor(app)' <=> AskingFor(app)
    BY <1>1, <1>2, <2>1, Zenon DEF AskingFor
  <2>4. Asking' <=> Asking
    BY <1>1, <2>3 DEF Asking
  <2>5. Approving' <=> Approving
    BY <1>1, <1>2 DEF Approving
  <2>6. Testing' <=> Testing
    BY <1>1, <1>2 DEF Testing
  <2>7. Deciding' <=> Deciding
    BY <1>1, <1>2 DEF Deciding
  <2> QED BY <1>1, <1>2, <2>2, <2>4, <2>5, <2>6, <2>7, Zenon DEF OnCourse
<1> QED BY <1>1, <1>2, <1>3 DEF SInv

\* SInv is inductive relative to QInv.
LEMMA SInvInductive == Spec => []SInv
<1>1. QInv /\ SInv /\ [Next]_vars => SInv'
  <2> SUFFICES ASSUME QInv, SInv, [Next]_vars PROVE SInv'
    OBVIOUS
  <2>1. CASE UNCHANGED vars
    BY <2>1, StutterKeepsSInv
  <2>2. CASE Visit
    <3>1. StartVisit \/ ReplayComments \/ CheckPermissionsOfFiles \/ Acts
      BY <2>2 DEF Visit, Acts
    <3> QED BY <3>1, StartKeepsSInv, ReplayKeepsSInv, CheckPermissionsKeepsSInv, ActsKeepSInv
  <2>3. CASE \/ \E v \in Votes : Vote(v)
             \/ Push \/ Mergeability \/ TargetMoves \/ Close
             \/ \E i \in DOMAIN Tests : TestFinishes(Tests[i])
    <3>1. asked' /\ stirred'
      BY <2>3 DEF Vote, Push, Mergeability, TargetMoves, Close, TestFinishes, Outside
    <3> QED BY <3>1, NoticedKeepsSInv
  <2>4. CASE CallFails
    <3>1. asked' /\ pc' = "idle"
      BY <2>4 DEF CallFails, EndVisit
    <3> QED BY <3>1, NoticedKeepsSInv
  <2> QED BY <2>1, <2>2, <2>3, <2>4, RefreshKeepsSInv DEF Next
<1> QED BY <1>1, InitSInv, QInvInductive, PTL DEF Spec

\* A visit that has nothing new to look at writes no comment, whatever was
\* interrupted, lost or retried before the visit that preceded it.
THEOREM NothingNewNothingSaid == Spec => QuietWhenNothingNew
<1> DEFINE Quiet == /\ Len(comments') > Len(comments)
                    /\ comments'[Len(comments')].who = Bot
                    => stirred \/ state.name = "STATE_MERGE_APPROVAL_PENDING"
<1>1. QInv /\ SInv /\ [Next]_vars => [Quiet]_vars
  <2> SUFFICES ASSUME QInv, SInv, Next, Len(comments') > Len(comments),
                      comments'[Len(comments')].who = Bot
               PROVE  stirred \/ state.name = "STATE_MERGE_APPROVAL_PENDING"
    OBVIOUS
  <2>1. Len(comments) \in Nat /\ comments \in Seq(Comment)
    BY LenProperties DEF QInv, TypeOK
  <2>2. comments' # comments
    BY <2>1
  <2>3. ASSUME NEW v \in Votes, Vote(v) PROVE FALSE
    <3>1. v.who \in Users /\ v.kind \in VoteKinds /\ Bot \notin Users
      BY <2>3, VotesAssumption
    <3> DEFINE c == [who |-> v.who, kind |-> v.kind, sha |-> NoCommit, approvers |-> Pending({})]
    <3>2. comments' = Append(comments, c) /\ c.who = v.who
      BY <2>3 DEF Vote
    <3>3. c \in Comment
      <4>1. Pending({}) \in Value
        BY Values
      <4> QED BY <3>1, <4>1 DEF Comment
    <3> HIDE DEF c
    <3>4. comments'[Len(comments')] = c
      BY <2>1, <3>2, <3>3, OneMoreComment
    <3> QED BY <3>1, <3>2, <3>4
  <2>4. CallAddComment
    BY <2>2, <2>3 DEF Next, Visit, Push, Mergeability, TargetMoves, Close, TestFinishes,
       RefreshCache, StartVisit, ReplayComments, CheckPermissionsOfFiles, CallSetStatus,
       CallRestoreReview, CallGetTest, CallAskAgain, CallAskAgainForMerge, CallComplain,
       CallMerge, MergeRefused, VisitEnds, CallFails, OnlyThen, github
  <2>5. /\ Head(todo).call = "add_comment" /\ todo # <<>> /\ pc = "acting" /\ Acts
        /\ todo \in Seq(Call)
    BY <2>4 DEF CallAddComment, Calling, Acts, QInv, TypeOK
  <2> SUFFICES ASSUME ~stirred PROVE state.name = "STATE_MERGE_APPROVAL_PENDING"
    OBVIOUS
  <2>6. ~asked /\ OnCourse
    BY <2>5 DEF SInv
  <2>7. ~Complaining
    <3> SUFFICES ASSUME Complaining PROVE FALSE
      OBVIOUS
    <3>1. todo = <<Complain(Wrong)>> \/ todo = <<SetStatus("review", Wrong)>>
      BY DEF Complaining
    <3>2. Head(todo).call # "add_comment"
      BY <3>1, Tuples, CallContents
    <3> QED BY <2>5, <3>2
  <2>8. ~Asking
    <3> SUFFICES ASSUME NEW app, AskingFor(app) PROVE FALSE
      BY DEF Asking
    <3>1. PICK changed \in BOOLEAN : todo = <<AskAgain(changed, app)>>
      BY DEF AskingFor
    <3>2. Head(todo).call = "ask_again"
      BY <3>1, Tuples, CallContents
    <3> QED BY <2>5, <3>2
  <2>9. ~Approving
    BY DEF Approving
  <2>10. ~Testing
    <3> SUFFICES ASSUME Testing PROVE FALSE
      OBVIOUS
    <3>1. \A c \in Reading : c.call # "add_comment"
      BY CallContents DEF Reading
    <3>2. Head(todo) \in Reading
      <4>1. CASE todo \in Seq(Reading)
        BY <2>5, <4>1, Rest
      <4>2. CASE /\ \A i \in 1..Len(todo) - 1 : todo[i] \in Reading
                 /\ \E i \in 1..Len(todo) - 1 : TRUE
        <5>1. Len(todo) \in Nat /\ Head(todo) = todo[1]
          BY <2>5, Rest
        <5>2. 1 \in 1..Len(todo) - 1
          BY <4>2, <5>1
        <5> QED BY <4>2, <5>1, <5>2
      <4> QED BY <4>1, <4>2 DEF Testing
    <3> QED BY <2>5, <3>1, <3>2
  <2>11. Deciding
    BY <2>5, <2>6, <2>7, <2>8, <2>9, <2>10 DEF OnCourse
  <2>12. Head(todo) \in Decisions(state.name)
    BY <2>5, <2>11, Rest DEF Deciding
  <2>13. \A c \in Reading \union {MergePull} : c.call # "add_comment"
    BY CallContents DEF Reading
  <2> QED BY <2>5, <2>12, <2>13 DEF Decisions
<1> QED BY <1>1, QInvInductive, SInvInductive, PTL DEF Spec, QuietWhenNothingNew
=============================================================================
