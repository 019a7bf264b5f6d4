--------------------------- MODULE Approvers_proofs --------------------------
(* What the operators of Approvers keep, for any finite set of users, any  *)
(* rules and any number of files.  Voting_proofs and PrApproval_proofs     *)
(* rest on these lemmas.                                                   *)
EXTENDS Approvers, FiniteSetTheorems, WellFoundedInduction, TLAPS

USE UsersAssumption, AdminsAssumption

\* A group that its own users can satisfy, and a changed file that asks for
\* such a group.
Possible(g) == g.u \in SUBSET Users /\ g.n \in Nat /\ g.n >= 1 /\ g.n <= Cardinality(g.u)

File(f) ==
    /\ f.free \in BOOLEAN
    /\ ~f.free => Possible(f) /\ Admins \subseteq f.u

\* Votes that a file still wants.
Lacks(f, V) == f.n - Cardinality(V \intersect f.u)
Wanting(f, V) == ~f.free /\ Lacks(f, V) >= 1

-----------------------------------------------------------------------------
(* Numbers and sets *)

\* A bounded set of numbers has a greatest one.
LEMMA Greatest ==
    ASSUME NEW S \in SUBSET Nat, S # {}, NEW K \in Nat, \A x \in S : x <= K
    PROVE  \E x \in S : \A y \in S : x >= y
<1> DEFINE T == {K - x : x \in S}
<1>1. T \subseteq Nat /\ T # {}
  <2>1. \A x \in S : K - x \in Nat
    OBVIOUS
  <2> QED BY <2>1
<1>2. PICK t \in T : \A y \in T : <<y, t>> \notin OpToRel(<, Nat)
  <2> HIDE DEF T
  <2> QED BY <1>1, NatLessThanWellFounded, WFMin
<1>3. PICK x \in S : t = K - x
  OBVIOUS
<1>4. ASSUME NEW y \in S PROVE x >= y
  <2>1. K - y \in T /\ K - y \in Nat /\ t \in Nat
    BY <1>1
  <2>2. ~ (K - y < t)
    BY <2>1, <1>2 DEF OpToRel
  <2> QED BY <2>2, <1>3, <2>1
<1> QED BY <1>4

\* What Python's max returns.
LEMMA MaxIsGreatest ==
    ASSUME NEW S \in SUBSET Nat, S # {}, NEW K \in Nat, \A x \in S : x <= K
    PROVE  Max(S) \in S /\ \A y \in S : Max(S) >= y
BY Greatest DEF Max

\* Sets of users are finite.
LEMMA UserSets ==
    ASSUME NEW S \in SUBSET Users
    PROVE  IsFiniteSet(S) /\ Cardinality(S) \in Nat
BY FS_Subset, FS_CardinalityType

\* One more voter takes one off what a file lacks, or nothing at all.
LEMMA OneMoreVote ==
    ASSUME NEW f, f.u \in SUBSET Users, f.n \in Nat,
           NEW V \in SUBSET Users, NEW user \in Users
    PROVE  /\ Lacks(f, V) \in Int
           /\ user \in f.u \ V => Lacks(f, V \union {user}) = Lacks(f, V) - 1
           /\ user \notin f.u \ V => Lacks(f, V \union {user}) = Lacks(f, V)
<1>1. IsFiniteSet(V \intersect f.u) /\ Cardinality(V \intersect f.u) \in Nat
  BY UserSets
<1>2. ASSUME user \in f.u \ V PROVE Lacks(f, V \union {user}) = Lacks(f, V) - 1
  <2>1. (V \union {user}) \intersect f.u = (V \intersect f.u) \union {user}
    BY <1>2
  <2>2. Cardinality((V \union {user}) \intersect f.u) = Cardinality(V \intersect f.u) + 1
    BY <1>1, <1>2, <2>1, FS_AddElement
  <2> QED BY <1>1, <1>2, <2>2 DEF Lacks
<1>3. ASSUME user \notin f.u \ V PROVE Lacks(f, V \union {user}) = Lacks(f, V)
  <2>1. (V \union {user}) \intersect f.u = V \intersect f.u
    BY <1>3
  <2> QED BY <1>1, <1>3, <2>1 DEF Lacks
<1>4. Lacks(f, V) \in Int
  BY <1>1 DEF Lacks
<1> QED BY <1>2, <1>3, <1>4

-----------------------------------------------------------------------------
(* Rules and groups *)

\* load_perms leaves no rule that its own approvers cannot satisfy.
LEMMA ResolvedIsPossible ==
    ASSUME NEW paths, NEW r \in Rule(paths)
    PROVE  /\ Resolved(r).approve \in SUBSET Users
           /\ Resolved(r).num \in Nat
           /\ Resolved(r).num <= Cardinality(Resolved(r).approve)
<1> DEFINE approve == IF r.approve = {} THEN Admins ELSE r.approve
<1>1. approve \in SUBSET Users /\ Cardinality(approve) \in Nat
  BY UserSets DEF Rule
<1>2. /\ Resolved(r).approve = approve
      /\ Resolved(r).num = IF r.num < Cardinality(approve) THEN r.num ELSE Cardinality(approve)
  BY DEF Resolved, Rule
<1> QED BY <1>1, <1>2 DEF Rule

\* A file never asks for more approvals than there are approvers.
LEMMA FileIsPossible ==
    ASSUME NEW paths, NEW rules \in SUBSET Rule(paths), NEW path, NEW author
    PROVE  File(FileApprovers(rules, path, author))
<1> DEFINE matching == {Resolved(r) : r \in {x \in rules : path \in x.paths}}
           u == Admins \union UNION {r.approve : r \in matching}
           numbers == {r.num : r \in matching} \union {1}
<1>1. \A r \in matching : /\ r.approve \in SUBSET Users
                          /\ r.num \in Nat
                          /\ r.num <= Cardinality(r.approve)
  BY ResolvedIsPossible
<1>2. u \in SUBSET Users /\ Admins \subseteq u
  BY <1>1
<1>3. IsFiniteSet(u) /\ Cardinality(u) \in Nat
  BY <1>2, UserSets
<1>4. \A r \in matching : r.num <= Cardinality(u)
  <2>1. ASSUME NEW r \in matching PROVE r.num <= Cardinality(u)
    <3>1. r.approve \in SUBSET u
      OBVIOUS
    <3>2. Cardinality(r.approve) <= Cardinality(u) /\ Cardinality(r.approve) \in Nat
      BY <3>1, <1>1, <1>3, FS_Subset, UserSets
    <3> QED BY <3>2, <1>1, <1>3
  <2> QED BY <2>1
<1>5. 1 <= Cardinality(u)
  BY <1>2, <1>3, FS_EmptySet
<1>6. Max(numbers) \in Nat /\ Max(numbers) >= 1 /\ Max(numbers) <= Cardinality(u)
  <2>1. numbers \in SUBSET Nat /\ numbers # {} /\ 1 \in numbers
    BY <1>1
  <2>2. \A x \in numbers : x <= Cardinality(u)
    BY <1>4, <1>5
  <2> HIDE DEF numbers, u
  <2>3. Max(numbers) \in numbers /\ \A y \in numbers : Max(numbers) >= y
    BY <2>1, <2>2, <1>3, MaxIsGreatest
  <2> QED BY <2>1, <2>2, <2>3
<1>7. FileApprovers(rules, path, author) =
          IF \E r \in matching : author \in r.authorized
          THEN [free |-> TRUE, u |-> {}, n |-> 0]
          ELSE [free |-> FALSE, u |-> u, n |-> Max(numbers)]
  BY DEF FileApprovers
<1> HIDE DEF matching, u, numbers
<1> QED BY <1>2, <1>6, <1>7 DEF File, Possible

\* push keeps, of the groups of the same users, one that asks for the most.
LEMMA PushedKeepsTheGreatest ==
    ASSUME NEW groups, \A g \in groups : Possible(g), NEW g \in groups
    PROVE  \E h \in Pushed(groups) : h.u = g.u /\ h.n >= g.n
<1> DEFINE same == {h \in groups : h.u = g.u}
           numbers == {h.n : h \in same}
<1>1. numbers \in SUBSET Nat /\ g.n \in numbers
  BY DEF Possible
<1>2. Cardinality(g.u) \in Nat /\ \A x \in numbers : x <= Cardinality(g.u)
  BY UserSets DEF Possible
<1>3. PICK n \in numbers : \A y \in numbers : n >= y
  <2> HIDE DEF numbers
  <2> QED BY <1>1, <1>2, Greatest
<1>4. PICK h \in same : h.n = n
  OBVIOUS
<1>5. h \in Pushed(groups)
  BY <1>3, <1>4 DEF Pushed, Possible
<1> QED BY <1>1, <1>3, <1>4, <1>5

-----------------------------------------------------------------------------
(* Groups and what the files lack: every group that is left is what some   *)
(* file lacks, and whatever a file lacks is asked for by some group.       *)

Explained(files, groups, V) ==
    \A g \in groups : \E f \in files : Wanting(f, V) /\ g.u = f.u \ V /\ g.n = Lacks(f, V)
Covered(files, groups, V) ==
    \A f \in files : Wanting(f, V) => \E g \in groups : g.u = f.u \ V /\ g.n >= Lacks(f, V)

\* The approvers that are left once the users in V have voted: True only if
\* they agree, and otherwise exactly what the files still lack.
Stands(app, files, V) ==
    /\ app \in Value
    /\ app.all => app.groups = {} /\ Agreed(files, V)
    /\ ~app.all => /\ V \intersect Admins = {}
                   /\ app.groups # {}
                   /\ Explained(files, app.groups, V)
                   /\ Covered(files, app.groups, V)

\* Agreed, in terms of what the files lack.
LEMMA AgreedMeansNothingLacks ==
    ASSUME NEW files, \A f \in files : File(f), NEW V \in SUBSET Users
    PROVE  Agreed(files, V) <=> \/ V \intersect Admins # {}
                                \/ \A f \in files : ~Wanting(f, V)
<1>1. ASSUME NEW f \in files, ~f.free
      PROVE  Cardinality(V \intersect f.u) >= f.n <=> ~(Lacks(f, V) >= 1)
  <2>1. Cardinality(V \intersect f.u) \in Nat /\ f.n \in Nat
    BY <1>1, UserSets DEF File, Possible
  <2> QED BY <2>1 DEF Lacks
<1> QED BY <1>1 DEF Agreed, Wanting

\* What is left of a group can still be satisfied.
LEMMA ExplainedIsPossible ==
    ASSUME NEW files, \A f \in files : File(f), NEW V \in SUBSET Users,
           NEW groups, Explained(files, groups, V)
    PROVE  \A g \in groups : Possible(g)
<1> SUFFICES ASSUME NEW g \in groups PROVE Possible(g)
  OBVIOUS
<1>1. PICK f \in files : Wanting(f, V) /\ g.u = f.u \ V /\ g.n = Lacks(f, V)
  BY DEF Explained
<1>2. f.u \in SUBSET Users /\ f.n \in Nat /\ f.n <= Cardinality(f.u)
  BY <1>1 DEF Wanting, File, Possible
<1>3. /\ Cardinality(f.u \ V) = Cardinality(f.u) - Cardinality(f.u \intersect V)
      /\ Cardinality(f.u) \in Nat /\ Cardinality(f.u \intersect V) \in Nat
  BY <1>2, UserSets, FS_Difference
<1>4. Lacks(f, V) = f.n - Cardinality(f.u \intersect V)
  <2>1. f.u \intersect V = V \intersect f.u
    OBVIOUS
  <2> QED BY <2>1 DEF Lacks
<1>5. Cardinality(g.u) = Cardinality(f.u) - Cardinality(f.u \intersect V) /\ g.u \in SUBSET Users
  BY <1>1, <1>2, <1>3
<1>6. g.n >= 1 /\ g.n = f.n - Cardinality(f.u \intersect V)
  BY <1>1, <1>4 DEF Wanting
<1> QED BY <1>2, <1>3, <1>5, <1>6 DEF Possible

\* Writing the groups in a comment and reading them back changes neither.
LEMMA PushedKeepsTheMeaning ==
    ASSUME NEW files, \A f \in files : File(f), NEW V \in SUBSET Users, NEW groups,
           Explained(files, groups, V), Covered(files, groups, V)
    PROVE  /\ Explained(files, Pushed(groups), V)
           /\ Covered(files, Pushed(groups), V)
           /\ groups # {} => Pushed(groups) # {}
<1>1. \A g \in groups : Possible(g)
  BY ExplainedIsPossible
<1>2. \A g \in groups : \E h \in Pushed(groups) : h.u = g.u /\ h.n >= g.n
  BY <1>1, PushedKeepsTheGreatest
<1>3. Pushed(groups) \subseteq groups
  BY DEF Pushed
<1>4. Explained(files, Pushed(groups), V)
  BY <1>3 DEF Explained
<1>5. Covered(files, Pushed(groups), V)
  <2> SUFFICES ASSUME NEW f \in files, Wanting(f, V)
               PROVE  \E h \in Pushed(groups) : h.u = f.u \ V /\ h.n >= Lacks(f, V)
    BY DEF Covered
  <2>1. PICK g \in groups : g.u = f.u \ V /\ g.n >= Lacks(f, V)
    BY DEF Covered
  <2>2. PICK h \in Pushed(groups) : h.u = g.u /\ h.n >= g.n
    BY <1>2, <2>1
  <2>3. h.n \in Nat /\ g.n \in Nat /\ Lacks(f, V) \in Int
    <3>1. f.n \in Nat /\ Cardinality(V \intersect f.u) \in Nat
      BY UserSets DEF Wanting, File, Possible
    <3>2. Possible(g) /\ Possible(h)
      BY <1>1, <1>3, <2>1, <2>2
    <3> QED BY <3>1, <3>2 DEF Possible, Lacks
  <2> QED BY <2>1, <2>2, <2>3
<1> QED BY <1>2, <1>4, <1>5

-----------------------------------------------------------------------------
\* The two forms of self.approvers.
LEMMA Values ==
    ASSUME NEW groups \in SUBSET Group
    PROVE  /\ Approved \in Value /\ Approved.all /\ Approved.groups = {}
           /\ Pending(groups) \in Value /\ ~Pending(groups).all
           /\ Pending(groups).groups = groups
<1>1. {} \in SUBSET Group /\ TRUE \in BOOLEAN /\ FALSE \in BOOLEAN
  OBVIOUS
<1>2. Approved \in Value /\ Approved.all /\ Approved.groups = {}
  BY <1>1 DEF Approved, Value
<1>3. Pending(groups) \in Value /\ ~Pending(groups).all /\ Pending(groups).groups = groups
  BY <1>1 DEF Pending, Value
<1> QED BY <1>2, <1>3

\* A vote takes one off what the files of its user lack, so no file starts
\* to want anything.
LEMMA VoteHelps ==
    ASSUME NEW files, \A f \in files : File(f), NEW V \in SUBSET Users, NEW user \in Users
    PROVE  /\ \A f \in files : Wanting(f, V \union {user}) => Wanting(f, V)
           /\ Agreed(files, V) => Agreed(files, V \union {user})
<1>1. ASSUME NEW f \in files, Wanting(f, V \union {user}) PROVE Wanting(f, V)
  <2>1. f.u \in SUBSET Users /\ f.n \in Nat
    BY <1>1 DEF Wanting, File, Possible
  <2> QED BY <1>1, <2>1, OneMoreVote DEF Wanting
<1>2. V \union {user} \in SUBSET Users
  OBVIOUS
<1>3. V \intersect Admins # {} => (V \union {user}) \intersect Admins # {}
  OBVIOUS
<1> QED BY <1>1, <1>2, <1>3, AgreedMeansNothingLacks

\* The vote of an approver who is still asked, on the groups that are left.
LEMMA StrikingKeepsTheMeaning ==
    ASSUME NEW files, \A f \in files : File(f), NEW V \in SUBSET Users, NEW user \in Users,
           NEW groups, Explained(files, groups, V), Covered(files, groups, V)
    PROVE  LET struck == {[u |-> g.u \ {user},
                           n |-> IF user \in g.u THEN g.n - 1 ELSE g.n] : g \in groups}
               left   == {g \in struck : g.n >= 1}
           IN  Explained(files, left, V \union {user}) /\ Covered(files, left, V \union {user})
<1> DEFINE Strike(g) == [u |-> g.u \ {user}, n |-> IF user \in g.u THEN g.n - 1 ELSE g.n]
           left == {g \in {Strike(x) : x \in groups} : g.n >= 1}
           W == V \union {user}
<1>1. ASSUME NEW f \in files, Wanting(f, V)
      PROVE  /\ Lacks(f, V) \in Int
             /\ Lacks(f, W) = IF user \in f.u \ V THEN Lacks(f, V) - 1 ELSE Lacks(f, V)
             /\ f.u \ W = (f.u \ V) \ {user}
  <2>1. f.u \in SUBSET Users /\ f.n \in Nat
    BY <1>1 DEF Wanting, File, Possible
  <2> QED BY <2>1, OneMoreVote
<1>2. Explained(files, left, W)
  <2> SUFFICES ASSUME NEW h \in left
               PROVE  \E f \in files : Wanting(f, W) /\ h.u = f.u \ W /\ h.n = Lacks(f, W)
    BY DEF Explained
  <2>1. PICK g \in groups : h = Strike(g)
    OBVIOUS
  <2>2. PICK f \in files : Wanting(f, V) /\ g.u = f.u \ V /\ g.n = Lacks(f, V)
    BY DEF Explained
  <2>3. h.u = f.u \ W /\ h.n = Lacks(f, W)
    BY <1>1, <2>1, <2>2
  <2>4. Wanting(f, W)
    BY <2>2, <2>3 DEF Wanting
  <2> QED BY <2>3, <2>4
<1>3. Covered(files, left, W)
  <2> SUFFICES ASSUME NEW f \in files, Wanting(f, W)
               PROVE  \E h \in left : h.u = f.u \ W /\ h.n >= Lacks(f, W)
    BY DEF Covered
  <2>1. Wanting(f, V)
    BY VoteHelps
  <2>2. PICK g \in groups : g.u = f.u \ V /\ g.n >= Lacks(f, V)
    BY <2>1 DEF Covered
  <2>3. g.n \in Int
    <3>1. Possible(g)
      BY ExplainedIsPossible
    <3> QED BY <3>1 DEF Possible
  <2>4. Strike(g).u = f.u \ W /\ Strike(g).n >= Lacks(f, W)
    <3>1. user \in g.u <=> user \in f.u \ V
      BY <2>2
    <3>2. Strike(g).u = g.u \ {user} /\ Strike(g).n = IF user \in g.u THEN g.n - 1 ELSE g.n
      OBVIOUS
    <3> HIDE DEF Strike, W
    <3> QED BY <1>1, <2>1, <2>2, <2>3, <3>1, <3>2
  <2>5. Strike(g).n >= 1
    <3>1. Lacks(f, W) \in Int /\ Lacks(f, W) >= 1 /\ Strike(g).n \in Int
      <4>1. Lacks(f, W) \in Int
        <5> HIDE DEF W
        <5> QED BY <1>1, <2>1
      <4>2. Strike(g).n = IF user \in g.u THEN g.n - 1 ELSE g.n
        OBVIOUS
      <4> HIDE DEF Strike
      <4> QED BY <2>3, <4>1, <4>2 DEF Wanting
    <3> HIDE DEF Strike
    <3> QED BY <2>4, <3>1
  <2> QED BY <2>4, <2>5
<1> QED BY <1>2, <1>3

-----------------------------------------------------------------------------
(* What the operations of class Approvers keep. *)

\* action_check_permissions, before any vote.
LEMMA CheckPermissionsStands ==
    ASSUME NEW files, \A f \in files : File(f)
    PROVE  Stands(CheckPermissions(files), files, {})
<1> DEFINE app == CheckPermissions(files)
           wanted == {[u |-> f.u, n |-> f.n] : f \in {x \in files : ~x.free}}
<1>2. app = IF wanted = {} THEN Approved ELSE Pending(Pushed(wanted))
  BY DEF CheckPermissions
<1>3. \A f \in files : ~f.free => /\ Wanting(f, {}) /\ Lacks(f, {}) = f.n
                                  /\ f.u \ {} = f.u /\ f.n \in Nat
  <2>1. ASSUME NEW f \in files, ~f.free PROVE Lacks(f, {}) = f.n /\ f.n \in Nat /\ f.n >= 1
    <3>1. {} \intersect f.u = {}
      OBVIOUS
    <3>2. f.n \in Nat /\ f.n >= 1
      BY <2>1 DEF File, Possible
    <3> QED BY <3>1, <3>2, FS_EmptySet DEF Lacks
  <2> QED BY <2>1 DEF Wanting
<1>4. CASE wanted = {}
  <2>1. \A f \in files : f.free
    BY <1>4
  <2>2. Agreed(files, {})
    BY <2>1 DEF Agreed
  <2>3. app \in Value /\ app.all /\ app.groups = {}
    BY <1>2, <1>4, Values
  <2> QED BY <2>2, <2>3 DEF Stands
<1>5. CASE wanted # {}
  <2>1. Explained(files, wanted, {}) /\ Covered(files, wanted, {})
    <3>1. ASSUME NEW g \in wanted
          PROVE  \E f \in files : Wanting(f, {}) /\ g.u = f.u \ {} /\ g.n = Lacks(f, {})
      <4>1. PICK f \in files : ~f.free /\ g = [u |-> f.u, n |-> f.n]
        BY <3>1
      <4> QED BY <4>1, <1>3
    <3>2. ASSUME NEW f \in files, Wanting(f, {})
          PROVE  \E g \in wanted : g.u = f.u \ {} /\ g.n >= Lacks(f, {})
      <4>1. ~f.free
        BY <3>2 DEF Wanting
      <4>2. [u |-> f.u, n |-> f.n] \in wanted
        BY <4>1
      <4> QED BY <4>1, <4>2, <1>3
    <3> QED BY <3>1, <3>2 DEF Explained, Covered
  <2>2. wanted \in SUBSET Group
    BY DEF File, Possible, Group
  <2> HIDE DEF wanted
  <2>3. /\ Explained(files, Pushed(wanted), {}) /\ Covered(files, Pushed(wanted), {})
        /\ Pushed(wanted) # {}
    BY <1>5, <2>1, PushedKeepsTheMeaning
  <2>4. Pushed(wanted) \in SUBSET Group
    BY <2>2 DEF Pushed
  <2>5. app \in Value /\ ~app.all /\ app.groups = Pushed(wanted)
    BY <1>2, <1>5, <2>4, Values
  <2> QED BY <2>3, <2>5 DEF Stands
<1> QED BY <1>4, <1>5

\* What is written in a comment and read back asks for the same.
LEMMA ReparsedStands ==
    ASSUME NEW files, \A f \in files : File(f), NEW V \in SUBSET Users,
           NEW app, Stands(app, files, V)
    PROVE  Stands(Reparsed(app), files, V)
<1>2. CASE app.all
  <2>1. Reparsed(app) = Approved
    BY <1>2 DEF Reparsed
  <2>2. Reparsed(app) \in Value /\ Reparsed(app).all /\ Reparsed(app).groups = {}
    BY <2>1, Values
  <2> QED BY <1>2, <2>2 DEF Stands
<1>3. CASE ~app.all
  <2>1. Reparsed(app) = Pending(Pushed(app.groups))
    BY <1>3 DEF Reparsed
  <2>2. /\ Explained(files, Pushed(app.groups), V) /\ Covered(files, Pushed(app.groups), V)
        /\ Pushed(app.groups) # {}
    BY <1>3, PushedKeepsTheMeaning DEF Stands
  <2>3. Pushed(app.groups) \in SUBSET Group
    BY DEF Stands, Pushed, Value
  <2>4. /\ Reparsed(app) \in Value /\ ~Reparsed(app).all
        /\ Reparsed(app).groups = Pushed(app.groups)
    BY <2>1, <2>3, Values
  <2> QED BY <1>3, <2>2, <2>4 DEF Stands
<1> QED BY <1>2, <1>3

\* The vote of any user, of one who is not asked any more included.
LEMMA ApproveStands ==
    ASSUME NEW files, \A f \in files : File(f), NEW V \in SUBSET Users,
           NEW app, Stands(app, files, V), NEW user \in Users
    PROVE  Stands(Approve(app, user), files, V \union {user})
<1> DEFINE W == V \union {user}
           new == Approve(app, user)
<1>1. W \in SUBSET Users
  OBVIOUS
<1>3. CASE user \in Admins \/ app.all
  <2>1. new = Approved
    BY <1>1, <1>3 DEF Approve
  <2>2. new \in Value /\ new.all /\ new.groups = {}
    BY <2>1, Values
  <2>3. CASE user \in Admins
    <3>1. Agreed(files, W)
      BY <2>3 DEF Agreed
    <3> QED BY <1>1, <2>2, <3>1 DEF Stands, Agreed
  <2>4. CASE app.all
    <3>1. Agreed(files, W)
      BY <2>4, VoteHelps DEF Stands
    <3> QED BY <1>1, <2>2, <3>1 DEF Stands, Agreed
  <2> QED BY <1>3, <2>3, <2>4
<1>4. CASE user \notin Admins /\ ~app.all /\ user \notin Flat(app)
  <2>1. new = app
    BY <1>1, <1>4 DEF Approve
  <2>2. W \intersect Admins = {}
    BY <1>4 DEF Stands
  <2>3. ASSUME NEW g \in app.groups, NEW f \in files, Wanting(f, V), g.u = f.u \ V
        PROVE  f.u \ W = f.u \ V /\ Lacks(f, W) = Lacks(f, V)
    <3>1. user \notin f.u \ V
      BY <1>4, <2>3 DEF Flat
    <3>2. f.u \in SUBSET Users /\ f.n \in Nat
      BY <2>3 DEF Wanting, File, Possible
    <3> QED BY <3>1, <3>2, OneMoreVote DEF Stands
  <2>4. Explained(files, app.groups, W)
    BY <1>4, <2>3 DEF Stands, Explained, Wanting
  <2>5. Covered(files, app.groups, W)
    <3> SUFFICES ASSUME NEW f \in files, Wanting(f, W)
                 PROVE  \E g \in app.groups : g.u = f.u \ W /\ g.n >= Lacks(f, W)
      BY DEF Covered
    <3>1. Wanting(f, V)
      BY VoteHelps DEF Stands
    <3>2. PICK g \in app.groups : g.u = f.u \ V /\ g.n >= Lacks(f, V)
      BY <1>4, <3>1 DEF Stands, Covered
    <3> QED BY <2>3, <3>1, <3>2
  <2> QED BY <1>1, <1>4, <2>1, <2>2, <2>4, <2>5 DEF Stands, Explained, Covered
<1>5. CASE user \notin Admins /\ ~app.all /\ user \in Flat(app)
  <2> DEFINE struck == {[u |-> g.u \ {user},
                         n |-> IF user \in g.u THEN g.n - 1 ELSE g.n] : g \in app.groups}
             left   == {g \in struck : g.n >= 1}
  <2>1. new = IF left = {} THEN Approved ELSE Pending(left)
    BY <1>1, <1>5 DEF Approve
  <2>2. Explained(files, left, W) /\ Covered(files, left, W)
    BY <1>5, StrikingKeepsTheMeaning DEF Stands
  <2>3. left \in SUBSET Group
    <3>1. app.groups \in SUBSET Group
      BY DEF Stands, Value
    <3> QED BY <3>1 DEF Group
  <2> HIDE DEF struck
  <2>4. CASE left = {}
    <3>1. \A f \in files : ~Wanting(f, W)
      BY <2>2, <2>4 DEF Covered
    <3>2. Agreed(files, W)
      BY <1>1, <3>1, AgreedMeansNothingLacks
    <3>3. new \in Value /\ new.all /\ new.groups = {}
      BY <2>1, <2>4, Values
    <3> QED BY <1>1, <3>2, <3>3 DEF Stands, Agreed
  <2>5. CASE left # {}
    <3>1. new \in Value /\ ~new.all /\ new.groups = left
      BY <2>1, <2>3, <2>5, Values
    <3>2. W \intersect Admins = {}
      BY <1>5 DEF Stands
    <3> QED BY <1>1, <2>2, <2>5, <3>1, <3>2 DEF Stands, Explained, Covered
  <2> QED BY <2>4, <2>5
<1> QED BY <1>3, <1>4, <1>5

\* Nobody is needed any more exactly when those who voted satisfy the rules.
LEMMA StandsIsExact ==
    ASSUME NEW files, \A f \in files : File(f), NEW V \in SUBSET Users,
           NEW app, Stands(app, files, V)
    PROVE  app.all <=> Agreed(files, V)
<1>1. ASSUME ~app.all PROVE ~Agreed(files, V)
  <2>1. PICK g \in app.groups : TRUE
    BY <1>1 DEF Stands
  <2>2. \E f \in files : Wanting(f, V)
    BY <1>1, <2>1 DEF Stands, Explained
  <2> QED BY <1>1, <2>2, AgreedMeansNothingLacks DEF Stands
<1> QED BY <1>1 DEF Stands

\* Further voters never withdraw an agreement.
LEMMA AgreedStays ==
    ASSUME NEW files, \A f \in files : File(f), NEW V \in SUBSET Users,
           NEW W \in SUBSET V, Agreed(files, W)
    PROVE  Agreed(files, V)
<1>1. CASE W \intersect Admins # {}
  BY <1>1 DEF Agreed
<1>2. ASSUME NEW f \in files, ~f.free, Cardinality(W \intersect f.u) >= f.n
      PROVE  Cardinality(V \intersect f.u) >= f.n
  <2>1. f.n \in Nat
    BY <1>2 DEF File, Possible
  <2>2. W \intersect f.u \in SUBSET (V \intersect f.u)
    OBVIOUS
  <2>3. /\ Cardinality(V \intersect f.u) \in Nat
        /\ Cardinality(W \intersect f.u) \in Nat
        /\ IsFiniteSet(V \intersect f.u)
    BY UserSets
  <2>4. Cardinality(W \intersect f.u) <= Cardinality(V \intersect f.u)
    BY <2>2, <2>3, FS_Subset
  <2> QED BY <1>2, <2>1, <2>3, <2>4
<1> QED BY <1>1, <1>2 DEF Agreed
=============================================================================
