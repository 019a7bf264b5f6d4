------------------------------ MODULE Approvers ------------------------------
(***************************************************************************)
(* Who must approve a pull request, and who still has to (classes          *)
(* Approvers and Perms, load_perms and action_check_permissions of         *)
(* ci/process-pull-request-http.py).                                       *)
(*                                                                         *)
(* The approvers of a pull request are groups, "n of u", all of which must *)
(* agree, or the value True once nobody is needed any more.  Lists that    *)
(* the code keeps sorted are sets here.                                    *)
(***************************************************************************)
EXTENDS Naturals, FiniteSets, FiniteSetsExt, Sequences

CONSTANTS
    Users,   \* GitHub users
    Admins   \* --admins: users_override of every Approvers

ASSUME UsersAssumption == IsFiniteSet(Users)
ASSUME AdminsAssumption == Admins \subseteq Users /\ Admins # {}

Group == [u : SUBSET Users, n : Nat]

\* self.approvers: True, or the list of groups that have not agreed yet.
Value == [all : BOOLEAN, groups : SUBSET Group]

Approved == [all |-> TRUE, groups |-> {}]
Pending(groups) == [all |-> FALSE, groups |-> groups]

-----------------------------------------------------------------------------
(* Rules of perms.yml.  A rule is a record of the paths it matches, the    *)
(* users it lets through, the users who approve and how many of them must. *)

Rule(paths) == [paths : SUBSET paths, authorized : SUBSET Users,
                approve : SUBSET Users, num : Nat \ {0}]

\* Mutant: the number asked for is not capped.
ResolvedUncapped(rule) ==
    [rule EXCEPT !.approve = IF @ = {} THEN Admins ELSE @]

\* load_perms: a rule left without approvers falls back to the admins, and
\* nobody asks for more approvals than there are approvers.
Resolved(rule) ==
    LET approve == IF rule.approve = {} THEN Admins ELSE rule.approve
    IN  [rule EXCEPT !.approve = approve,
                     !.num = IF @ < Cardinality(approve) THEN @ ELSE Cardinality(approve)]

\* What one changed file asks for: nothing if a matching rule lets its
\* author through, else the largest number of approvals any of its rules
\* wants, from the approvers of all of them.  The catch-all rule that
\* load_perms appends matches every path and names the admins.
FileApprovers(rules, path, author) ==
    LET matching == {Resolved(r) : r \in {x \in rules : path \in x.paths}}
    IN  IF \E r \in matching : author \in r.authorized
        THEN [free |-> TRUE, u |-> {}, n |-> 0]
        ELSE [free |-> FALSE,
              u |-> Admins \union UNION {r.approve : r \in matching},
              n |-> Max({r.num : r \in matching} \union {1})]

\* Approvers.push of one group after another: groups of the same users
\* become one, and the larger number stays.
Pushed(groups) == {g \in groups : \A h \in groups : h.u = g.u => h.n <= g.n}

\* action_check_permissions, from what each changed file asks for.  True is
\* pushed for a free file: it stays only if no other file wants a group.
CheckPermissions(files) ==
    LET wanted == {[u |-> f.u, n |-> f.n] : f \in {x \in files : ~x.free}}
    IN  IF wanted = {} THEN Approved ELSE Pending(Pushed(wanted))

-----------------------------------------------------------------------------
\* Approvers.__str__ and from_str: what the bot writes in a comment and
\* reads back from it.  Groups of the same users become one.
Reparsed(app) == IF app.all THEN Approved ELSE Pending(Pushed(app.groups))

\* Approvers.flat: users of the groups that have not agreed yet.
Flat(app) == UNION {g.u : g \in app.groups}

\* Approvers.approve returns whether the vote counts.
Counts(app, user) == user \in Admins \/ app.all \/ user \in Flat(app)

\* Mutant: a user who votes again is counted again.
ApproveNotStruck(app, user) ==
    LET struck == {[u |-> g.u, n |-> IF user \in g.u THEN g.n - 1 ELSE g.n] :
                       g \in app.groups}
        left   == {g \in struck : g.n >= 1}
    IN  CASE user \in Admins \/ app.all -> Approved
          [] user \notin Admins /\ ~app.all /\ user \notin Flat(app) -> app
          [] OTHER -> IF left = {} THEN Approved ELSE Pending(left)

\* Mutant: one group that agrees is enough.
ApproveAnyGroup(app, user) ==
    LET struck == {[u |-> g.u \ {user}, n |-> IF user \in g.u THEN g.n - 1 ELSE g.n] :
                       g \in app.groups}
        left   == {g \in struck : g.n >= 1}
    IN  CASE user \in Admins \/ app.all -> Approved
          [] user \notin Admins /\ ~app.all /\ user \notin Flat(app) -> app
          [] OTHER -> IF left # struck THEN Approved ELSE Pending(left)

\* What it leaves: the user is struck from every group, a group that wants
\* nobody else is dropped, and without groups all is approved.
Approve(app, user) ==
    LET struck == {[u |-> g.u \ {user}, n |-> IF user \in g.u THEN g.n - 1 ELSE g.n] :
                       g \in app.groups}
        left   == {g \in struck : g.n >= 1}
    IN  CASE user \in Admins \/ app.all -> Approved
          [] user \notin Admins /\ ~app.all /\ user \notin Flat(app) -> app
          [] OTHER -> IF left = {} THEN Approved ELSE Pending(left)

-----------------------------------------------------------------------------
(* Reference: an admin, or for every file that is not free enough of its   *)
(* approvers.                                                              *)
Agreed(files, voters) ==
    \/ voters \intersect Admins # {}
    \/ \A f \in files : ~f.free => Cardinality(voters \intersect f.u) >= f.n
=============================================================================
