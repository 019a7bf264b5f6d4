---------------------------- MODULE Voting_proofs ----------------------------
(* Proofs that hold for any finite set of users, any rules and any number  *)
(* of files: approval is granted exactly when it should be, and it can     *)
(* always be reached.  What each operation keeps is in Approvers_proofs.   *)
EXTENDS Voting, Approvers_proofs

\* The inductive invariant: what is left of the approvers is, group by
\* group, what the files still lack.
IInv ==
    /\ voters \in SUBSET Users
    /\ \A f \in files : File(f)
    /\ Stands(app, files, voters)

\* IInv holds before anybody votes.
LEMMA InitIInv == Init => IInv
<1> SUFFICES ASSUME Init PROVE IInv
  OBVIOUS
<1>1. \A f \in files : File(f)
  BY FileIsPossible, RulesAssumption DEF Init
<1> QED BY <1>1, CheckPermissionsStands DEF Init, IInv

\* Writing the approvers into a comment and reading them back.
LEMMA ReparseKeepsIInv == ASSUME IInv, Reparse PROVE IInv'
<1>1. UNCHANGED <<files, voters>> /\ app' = Reparsed(app)
  BY DEF Reparse
<1>2. Stands(Reparsed(app), files, voters)
  BY ReparsedStands DEF IInv
<1>3. Stands(app', files', voters')
  BY <1>1, <1>2
<1> QED BY <1>1, <1>3 DEF IInv

\* A vote, counted or not.
LEMMA VoteKeepsIInv == ASSUME IInv, NEW user \in Users, Vote(user) PROVE IInv'
<1>1. files' = files /\ voters' = voters \union {user} /\ app' = Approve(app, user)
  BY DEF Vote
<1>2. Stands(Approve(app, user), files, voters \union {user})
  BY ApproveStands DEF IInv
<1>3. Stands(app', files', voters')
  BY <1>1, <1>2
<1> QED BY <1>1, <1>3 DEF IInv

\* IInv holds in every behaviour.
LEMMA Inductive == Spec => []IInv
<1>1. IInv /\ [Next]_vars => IInv'
  <2> SUFFICES ASSUME IInv, [Next]_vars PROVE IInv'
    OBVIOUS
  <2>1. CASE UNCHANGED vars
    <3>1. app' = app /\ files' = files /\ voters' = voters
      BY <2>1 DEF vars
    <3>2. Stands(app', files', voters')
      BY <3>1 DEF IInv
    <3> QED BY <3>1, <3>2 DEF IInv
  <2> QED BY <2>1, ReparseKeepsIInv, VoteKeepsIInv DEF Next
<1> QED BY <1>1, InitIInv, PTL DEF Spec

-----------------------------------------------------------------------------
\* Approval is granted exactly when it should be: whatever the rules, the
\* files and the users, in whatever order and however often they vote and
\* the bot rewrites the groups in a comment.
THEOREM ApprovalIsExact == Spec => []QuorumExact
<1>1. IInv => QuorumExact
  BY StandsIsExact DEF IInv, QuorumExact
<1> QED BY <1>1, Inductive, PTL

\* No group that is left asks for more votes than its users can cast, so
\* no sequence of votes leads to a pull request that cannot be approved.
THEOREM ApprovalIsReachable == Spec => []QuorumReachable
<1>1. IInv => QuorumReachable
  <2> SUFFICES ASSUME IInv, NEW g \in app.groups
               PROVE  1 <= g.n /\ g.n <= Cardinality(g.u)
    BY DEF QuorumReachable
  <2>1. Explained(files, app.groups, voters)
    BY DEF IInv, Stands
  <2>2. Possible(g)
    BY <2>1, ExplainedIsPossible DEF IInv
  <2> QED BY <2>2 DEF Possible
<1> QED BY <1>1, Inductive, PTL
=============================================================================
