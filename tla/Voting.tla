-------------------------------- MODULE Voting -------------------------------
(***************************************************************************)
(* The approvers of one pull request under any sequence of votes: users    *)
(* vote in any order and more than once, and between any two votes the bot *)
(* may write the groups that are left in a comment and read them back.     *)
(***************************************************************************)
EXTENDS Approvers

CONSTANTS
    RuleSets,  \* perms.yml may hold any of these sets of rules
    Paths,     \* changed files
    Authors    \* possible authors of the pull request

ASSUME RulesAssumption == RuleSets \subseteq SUBSET Rule(Paths)

VARIABLES
    files,    \* what the changed files ask for
    app,      \* self.approvers
    voters    \* users who have voted

vars == <<files, app, voters>>

Init ==
    /\ \E rules \in RuleSets, author \in Authors :
           files = {FileApprovers(rules, p, author) : p \in Paths}
    /\ app = CheckPermissions(files)
    /\ voters = {}

Vote(user) ==
    /\ app' = Approve(app, user)
    /\ voters' = voters \union {user}
    /\ UNCHANGED files

Reparse ==
    /\ app' = Reparsed(app)
    /\ UNCHANGED <<files, voters>>

Next == Reparse \/ \E user \in Users : Vote(user)

Spec == Init /\ [][Next]_vars

\* A pull request is approved exactly when an admin voted or every changed
\* file has the approvals its rules ask for, whatever the order of the votes
\* and however often the groups went through a comment.
QuorumExact == app.all <=> Agreed(files, voters)

\* No group ever asks for more votes than there are users left in it to
\* cast them, so a pull request can always still be approved.
QuorumReachable == \A g \in app.groups : 1 <= g.n /\ g.n <= Cardinality(g.u)
=============================================================================
