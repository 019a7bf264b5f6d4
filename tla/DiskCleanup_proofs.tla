--------------------------- MODULE DiskCleanup_proofs ---------------------------
(***************************************************************************)
(* What ci/cleanup.py gives up and what it keeps, for any number of builds *)
(* and symlinks, any layout of the disk and any command line.              *)
(*                                                                         *)
(* OldestGoFirst is not inductive: a step deletes the oldest of its list,  *)
(* which is the oldest on disk only if the list has everything.  That is   *)
(* why the invariant says what the list has in each phase of a run.        *)
(***************************************************************************)
EXTENDS DiskCleanup, FiniteSetTheorems, TLAPS

\* The list has what may be given up, and it is deleted from there only.
Young == \A l \in symlinks : Considered(l) /\ ~Old(l)
OldOnes == pc = "old" => \A l \in todo : Considered(l) /\ Old(l)

\* Once symlinks were gathered, no candidate is forgotten.
AllListed ==
    ~args.dry_run => \A l \in links : Considered(l) =>
        /\ pc = "old" => l \in symlinks \union todo
        /\ pc \in {"clean", "threshold"} => l \in symlinks

DryRunKeeps == args.dry_run => links = Links
OthersKept == \A l \in Links : ~Considered(l) => l \in links

LinksInv == Young /\ OldOnes /\ AllListed /\ DryRunKeeps /\ OthersKept
IInv == TypeOK /\ LinksInv /\ OldestGoFirst /\ DependenciesCached

-----------------------------------------------------------------------------
(* Space *)

\* What is on disk can be counted.
LEMMA Countable ==
    ASSUME NEW S, NEW T, IsFiniteSet(T), S \subseteq T
    PROVE  IsFiniteSet(S) /\ Cardinality(S) \in Nat /\ Cardinality(S) <= Cardinality(T)
           /\ Cardinality(T) \in Nat
  BY FS_Subset, FS_CardinalityType

\* doClean only frees space.
LEMMA CleanUpFrees ==
    ASSUME TypeOK, NEW e, NEW left, CleanUp(e, left), used' = used
    PROVE  /\ builds' \subseteq builds /\ sources' \subseteq sources
           /\ disk_free' \in Nat
  <1>1. builds' \subseteq builds /\ sources' \subseteq sources
    BY DEF CleanUp
  <1>2. IsFiniteSet(builds) /\ IsFiniteSet(sources)
    BY CapacityAssumption, Countable DEF TypeOK
  <1>3. /\ Cardinality(builds') \in Nat /\ Cardinality(builds) \in Nat
        /\ Cardinality(builds') <= Cardinality(builds)
    BY <1>1, <1>2, Countable
  <1>4. /\ Cardinality(sources') \in Nat /\ Cardinality(sources) \in Nat
        /\ Cardinality(sources') <= Cardinality(sources)
    BY <1>1, <1>2, Countable
  <1>5. used \in Nat /\ Capacity \in Nat
    BY LimitAssumption DEF TypeOK
  <1>6. Capacity - Cardinality(builds) - Cardinality(sources) - used \in Nat
    BY DEF TypeOK, disk_free
  <1>7. Capacity - Cardinality(builds') - Cardinality(sources') - used \in Nat
    BY <1>3, <1>4, <1>5, <1>6
  <1> QED BY <1>1, <1>7 DEF disk_free

-----------------------------------------------------------------------------
(* Types *)

\* There is room for what is on disk at first.
LEMMA TypeInit == ASSUME Init PROVE TypeOK
  <1>1. Cardinality(Builds) \in Nat /\ Cardinality(Envs) \in Nat
    BY CapacityAssumption, FS_CardinalityType
  <1>2. disk_free \in Nat
    BY <1>1, CapacityAssumption, LimitAssumption DEF Init, disk_free
  <1> QED BY <1>2, LimitAssumption DEF Init, TypeOK

\* Every step of the script and around it keeps the types.
LEMMA TypeStep ==
    ASSUME TypeOK, LinksInv, [Next]_vars
    PROVE  TypeOK'
  <1>1. ASSUME UNCHANGED diskVars  PROVE  disk_free' \in Nat
    BY <1>1 DEF diskVars, disk_free, TypeOK
  <1>2. CASE Gather
    BY <1>1, <1>2 DEF Gather, diskVars, TypeOK, Old
  <1>3. CASE OldDone
    BY <1>1, <1>3 DEF OldDone, diskVars, TypeOK
  <1>4. CASE CleanDone
    BY <1>1, <1>4 DEF CleanDone, diskVars, TypeOK
  <1>5. CASE ThresholdDone
    BY <1>1, <1>5 DEF ThresholdDone, diskVars, TypeOK
  <1>6. ASSUME NEW l \in Links, DeleteOld(l)  PROVE  TypeOK'
    <2>1. l \in todo /\ Old(l) /\ l \notin symlinks
      BY <1>6 DEF DeleteOld, Newest, LinksInv, Young, OldOnes
    <2>2. disk_free' \in Nat
      BY <1>6 DEF DeleteOld, disk_free, TypeOK
    <2>3. links' \subseteq links /\ (links \ {l}) \subseteq links'
      BY <1>6 DEF DeleteOld, Deleted
    <2> QED BY <1>6, <2>1, <2>2, <2>3 DEF DeleteOld, TypeOK, Old
  <1>7. ASSUME NEW l \in Links, DeleteOldest(l)  PROVE  TypeOK'
    <2>1. links' \subseteq links /\ (links \ {l}) \subseteq links'
      BY <1>7 DEF DeleteOldest, Deleted
    <2>2. builds' \subseteq builds /\ sources' \subseteq sources /\ disk_free' \in Nat
      BY <1>7, CleanUpFrees DEF DeleteOldest
    <2> QED BY <1>7, <2>1, <2>2 DEF DeleteOldest, TypeOK, Old
  <1>8. ASSUME NEW l \in Links, Abort(l)  PROVE  TypeOK'
    BY <1>1, <1>8 DEF Abort, diskVars, TypeOK
  <1>9. ASSUME NEW e \in Envs, CleanFirst(e)  PROVE  TypeOK'
    <2>1. builds' \subseteq builds /\ sources' \subseteq sources /\ disk_free' \in Nat
      BY <1>9, CleanUpFrees DEF CleanFirst
    <2> QED BY <1>9, <2>1 DEF CleanFirst, TypeOK
  <1>10. CASE Killed
    BY <1>1, <1>10 DEF Killed, diskVars, TypeOK
  <1>11. CASE OthersUseDisk
    <2>1. Cardinality(builds) \in Nat /\ Cardinality(sources) \in Nat
      BY CapacityAssumption, Countable DEF TypeOK
    <2>2. used \in Nat /\ used' = used + 1 /\ used' \in 0..MaxUse
      BY <1>11, LimitAssumption DEF OthersUseDisk, TypeOK
    <2>3. disk_free' \in Nat
      BY <1>11, <2>1, <2>2, LimitAssumption DEF OthersUseDisk, TypeOK, disk_free
    <2> QED BY <1>11, <2>2, <2>3 DEF OthersUseDisk, TypeOK, Old
  <1>12. CASE RunAgain
    BY <1>1, <1>12 DEF RunAgain, diskVars, TypeOK
  <1>13. CASE UNCHANGED vars
    BY <1>1, <1>13 DEF vars, diskVars, TypeOK, Old
  <1> QED BY <1>2, <1>3, <1>4, <1>5, <1>6, <1>7, <1>8, <1>9, <1>10, <1>11, <1>12, <1>13
          DEF Next, Step

-----------------------------------------------------------------------------
(* Symlinks *)

\* What the list has, and what is on disk, after every step.
LEMMA LinksStep ==
    ASSUME TypeOK, LinksInv, [Next]_vars
    PROVE  LinksInv'
  <1> USE DEF LinksInv, Young, OldOnes, AllListed, DryRunKeeps, OthersKept, Considered, Old
  <1>1. CASE Gather
    BY <1>1 DEF Gather, diskVars, Candidate
  <1>2. CASE OldDone
    BY <1>2 DEF OldDone, diskVars
  <1>3. CASE CleanDone
    BY <1>3 DEF CleanDone, diskVars
  <1>4. CASE ThresholdDone
    BY <1>4 DEF ThresholdDone, diskVars
  <1>5. ASSUME NEW l \in Links, DeleteOld(l)  PROVE  LinksInv'
    <2>1. /\ l \in todo /\ Considered(l) /\ Old(l) /\ pc = "old" /\ pc' = pc /\ layout' = layout
          /\ args' = args /\ symlinks' = symlinks /\ todo' = todo \ {l}
      BY <1>5 DEF DeleteOld, Newest
    <2>2. links' = IF args.dry_run THEN links ELSE links \ {l}
      BY <1>5 DEF DeleteOld, Deleted
    <2>3. Young' /\ OldOnes'
      BY <2>1
    <2>4. ASSUME NEW m \in links', Considered(m)
          PROVE  args.dry_run \/ m \in symlinks \union (todo \ {l})
      BY <2>1, <2>2, <2>4
    <2>5. DryRunKeeps' /\ OthersKept'
      BY <2>1, <2>2
    <2> QED BY <2>1, <2>3, <2>4, <2>5
  <1>6. ASSUME NEW l \in Links, DeleteOldest(l)  PROVE  LinksInv'
    BY <1>6 DEF DeleteOldest, Deleted, Oldest, TypeOK
  <1>7. ASSUME NEW l \in Links, Abort(l)  PROVE  LinksInv'
    BY <1>7 DEF Abort, diskVars
  <1>8. ASSUME NEW e \in Envs, CleanFirst(e)  PROVE  LinksInv'
    BY <1>8 DEF CleanFirst
  <1>9. CASE Killed
    BY <1>9 DEF Killed, diskVars
  <1>10. CASE OthersUseDisk
    BY <1>10 DEF OthersUseDisk
  <1>11. CASE RunAgain
    BY <1>11 DEF RunAgain, diskVars
  <1>12. CASE UNCHANGED vars
    BY <1>12 DEF vars, diskVars
  <1> QED BY <1>1, <1>2, <1>3, <1>4, <1>5, <1>6, <1>7, <1>8, <1>9, <1>10, <1>11, <1>12
          DEF Next, Step

\* Whatever a step deletes is too old, or the oldest of all candidates on disk.
LEMMA OldestStep ==
    ASSUME TypeOK, LinksInv, OldestGoFirst, [Next]_vars
    PROVE  OldestGoFirst'
  <1>1. ASSUME NEW l \in Links, DeleteOld(l)  PROVE  OldestGoFirst'
    <2>1. Old(l) /\ links' \subseteq links /\ links \ {l} \subseteq links' /\ layout' = layout
          /\ args' = args
      BY <1>1 DEF DeleteOld, Deleted, Newest, LinksInv, OldOnes
    <2> QED BY <2>1 DEF OldestGoFirst, Old, Considered
  <1>2. ASSUME NEW l \in Links, DeleteOldest(l)  PROVE  OldestGoFirst'
    <2>1. CASE args.dry_run
      BY <1>2, <2>1 DEF DeleteOldest, Deleted, OldestGoFirst, Old, Considered
    <2>2. CASE ~args.dry_run
      <3>1. links' = links \ {l} /\ layout' = layout /\ args' = args
        BY <1>2, <2>2 DEF DeleteOldest, Deleted
      <3>2. \A m \in links' : Considered(m) => layout[m].mtime >= layout[l].mtime
        <4>1. ASSUME NEW m \in links', Considered(m)
              PROVE  m \in symlinks
          BY <1>2, <2>2, <3>1, <4>1 DEF DeleteOldest, LinksInv, AllListed
        <4>2. \A m \in symlinks : layout[l].mtime <= layout[m].mtime
          BY <1>2 DEF DeleteOldest, Oldest
        <4> QED BY <4>1, <4>2
      <3> QED BY <3>1, <3>2 DEF OldestGoFirst, Old, Considered
    <2> QED BY <2>1, <2>2
  <1>3. CASE UNCHANGED <<layout, args, links>>
    BY <1>3 DEF OldestGoFirst, Old, Considered
  <1> QED BY <1>1, <1>2, <1>3 DEF Next, Step, Gather, OldDone, CleanDone, ThresholdDone, Abort,
             CleanFirst, Killed, OthersUseDisk, RunAgain, vars, diskVars

\* doClean is always told of the symlinks that the script does not consider.
LEMMA CachedStep ==
    ASSUME TypeOK, LinksInv, DependenciesCached, [Next]_vars
    PROVE  DependenciesCached'
  <1>1. ASSUME NEW e, NEW left, CleanUp(e, left), layout' = layout,
               \A l \in Links : ~Considered(l) => l \in left
        PROVE  DependenciesCached'
    <2> SUFFICES ASSUME NEW l \in Links, layout[l].kind = "install", ~layout[l].dev
                 PROVE  layout[l].target \in builds' \union {Outside}
      BY <1>1 DEF DependenciesCached
    <2>1. l \in left
      BY <1>1 DEF Considered
    <2>2. layout[l].target \notin Unreferenced(e, left)
      BY <2>1 DEF Unreferenced
    <2> QED BY <1>1, <2>2 DEF CleanUp, DependenciesCached
  <1>2. ASSUME NEW l \in Links, DeleteOldest(l)  PROVE  DependenciesCached'
    <2>1. \A m \in Links : ~Considered(m) => m \in links'
      BY <1>2 DEF DeleteOldest, Deleted, Oldest, LinksInv, OthersKept, Young
    <2> QED BY <1>1, <1>2, <2>1 DEF DeleteOldest
  <1>3. ASSUME NEW e \in Envs, CleanFirst(e)  PROVE  DependenciesCached'
    BY <1>1, <1>3 DEF CleanFirst, LinksInv, OthersKept
  <1>4. CASE UNCHANGED <<layout, builds>>
    BY <1>4 DEF DependenciesCached
  <1> QED BY <1>2, <1>3, <1>4 DEF Next, Step, Gather, OldDone, CleanDone, ThresholdDone, Abort,
             DeleteOld, Killed, OthersUseDisk, RunAgain, vars, diskVars

-----------------------------------------------------------------------------
(* Every behaviour *)

\* Before the first run everything is on disk.
LEMMA InitIInv == ASSUME Init PROVE IInv
  <1>1. TypeOK
    BY TypeInit
  <1>2. LinksInv /\ OldestGoFirst
    BY DEF Init, LinksInv, Young, OldOnes, AllListed, DryRunKeeps, OthersKept, OldestGoFirst
  <1>3. DependenciesCached
    BY LayoutAssumption DEF Init, DependenciesCached
  <1> QED BY <1>1, <1>2, <1>3 DEF IInv

\* The invariant is inductive, and holds in every reachable state.
LEMMA IInvHolds == Spec => []IInv
  <1>1. Init => IInv
    BY InitIInv
  <1>2. IInv /\ [Next]_vars => IInv'
    BY TypeStep, LinksStep, OldestStep, CachedStep DEF IInv
  <1> QED BY <1>1, <1>2, PTL DEF Spec

\* In every reachable state the types are right; in particular, the candidates are all on disk
\* and more space is never in use than there is.
THEOREM TypeCorrect == Spec => []TypeOK
  <1>1. IInv => TypeOK
    BY DEF IInv
  <1> QED BY <1>1, IInvHolds, PTL

\* In every reachable state, also after runs that were killed, a symlink that was not too old is
\* gone only when every candidate that is left is at least as young (cleanup_to_disk_threshold).
THEOREM OldestFirst == Spec => []OldestGoFirst
  <1>1. IInv => OldestGoFirst
    BY DEF IInv
  <1> QED BY <1>1, IInvHolds, PTL

\* In every reachable state, what an installed dependency leads to is still there: neither the
\* age nor the lack of space takes a build that the script is not meant to give up.
THEOREM DependenciesStay == Spec => []DependenciesCached
  <1>1. IInv => DependenciesCached
    BY DEF IInv
  <1> QED BY <1>1, IInvHolds, PTL

\* No step ends a run for which space was asked while there is neither that space nor an empty
\* list, and an empty list means that no candidate is on disk.
THEOREM SpaceOrNothing == Spec => SpaceOrNothingLeft
  <1> DEFINE Ending == pc # "done" /\ pc' = "done" /\ Wanted # NoLimit =>
                 disk_free >= Wanted \/ args.dry_run \/ {l \in links : Considered(l)} = {}
  <1>1. IInv /\ [Next]_vars => [Ending]_vars
    <2> SUFFICES ASSUME IInv, Next, pc # "done", pc' = "done", Wanted # NoLimit
                 PROVE  disk_free >= Wanted \/ args.dry_run
                        \/ {l \in links : Considered(l)} = {}
      OBVIOUS
    <2>1. ThresholdDone
      BY DEF Next, Step, Gather, OldDone, CleanDone, DeleteOld, DeleteOldest, Abort, CleanFirst,
             Killed, OthersUseDisk, RunAgain
    <2>2. symlinks = {} \/ disk_free >= Wanted
      BY <2>1 DEF ThresholdDone, Done
    <2>3. CASE symlinks = {} /\ ~args.dry_run
      BY <2>1, <2>3 DEF ThresholdDone, IInv, LinksInv, AllListed
    <2> QED BY <2>2, <2>3
  <1> QED BY <1>1, IInvHolds, PTL DEF Spec, SpaceOrNothingLeft
=============================================================================
