------------------------------ MODULE DiskCleanup ------------------------------
(***************************************************************************)
(* ci/cleanup.py: what a builder runs after every build to get disk space  *)
(* back.  It deletes symlinks, first those that are too old, then one by   *)
(* one from the oldest while space is short; the builds themselves go when *)
(* aliBuild's doClean finds that no symlink leads to them any more.        *)
(*                                                                         *)
(* doClean is external: it removes what nothing refers to, or fails and    *)
(* exits, which is only logged.  Space is counted in builds.  The script   *)
(* may be killed between any two steps and is run again after the next     *)
(* build; meanwhile others may fill the disk.                              *)
(***************************************************************************)
EXTENDS Naturals, FiniteSets

CONSTANTS
    Envs, Builds,
    Env,          \* [Builds -> Envs]
    Outside,      \* a place that is not in the work directory of any environment
    Links,        \* symlinks
    Layouts,      \* the ways the disk may look: [Links -> [env, dev, kind, mtime, target]]
    Arguments,    \* command lines: [dry_run, maximum_age, minimum_disk_space]
    NoLimit,      \* an option that is not given
    Capacity,
    MaxUse        \* bound: space that others take while the script runs

ASSUME EnvAssumption == Env \in [Builds -> Envs] /\ Outside \notin Builds
ASSUME LimitAssumption == NoLimit \notin Nat /\ Capacity \in Nat /\ MaxUse \in Nat
ASSUME LayoutAssumption == \A y \in Layouts : \A l \in Links :
    /\ y[l].target \in Builds \union {Outside}
    /\ y[l].target # Outside => y[l].env = Env[y[l].target]
ASSUME CapacityAssumption ==
    /\ IsFiniteSet(Builds) /\ IsFiniteSet(Envs)
    /\ Cardinality(Builds) + Cardinality(Envs) <= Capacity

VARIABLES
    layout, args,   \* fixed
    pc,
    links,          \* symlinks on disk
    builds,         \* builds on disk
    sources,        \* environments with temporary sources and tarballs, as large as a build
    used,           \* space that others take
    symlinks,       \* the list of candidates
    todo            \* what is left of the current loop: symlinks, then environments

diskVars == <<links, builds, sources, used>>
vars == <<layout, args, pc, diskVars, symlinks, todo>>

disk_free == Capacity - Cardinality(builds) - Cardinality(sources) - used

\* gather_symlinks: every symlink under BUILD, and those that lead to a build of a
\* development package or to a nightly.
Considered(l) == layout[l].kind = "BUILD" \/ layout[l].dev

\* Mutant: what is not under development goes too.
ConsideredAll(l) == TRUE
Candidate(l) == Considered(l)

Old(l) == args.maximum_age # NoLimit /\ layout[l].mtime < args.maximum_age

Oldest(S) == {l \in S : \A m \in S : layout[l].mtime <= layout[m].mtime}
Newest(S) == {l \in S : \A m \in S : layout[l].mtime >= layout[m].mtime}

TypeOK ==
    /\ layout \in Layouts /\ args \in Arguments
    /\ pc \in {"start", "old", "clean", "threshold", "done", "aborted"}
    /\ symlinks \subseteq links /\ links \subseteq Links
    /\ builds \subseteq Builds /\ sources \subseteq Envs
    /\ used \in 0..MaxUse
    /\ disk_free \in Nat
    /\ todo \subseteq (IF pc = "old" THEN {l \in links : Old(l)} ELSE Envs)

Init ==
    /\ layout \in Layouts /\ args \in Arguments
    /\ pc = "start"
    /\ links = Links /\ builds = Builds /\ sources = Envs /\ used = 0
    /\ symlinks = {} /\ todo = {}

-----------------------------------------------------------------------------
(* One environment *)

\* delete_symlink goes on with the next action, or ends the script with a ValueError.
Deleted(l) == links' = IF args.dry_run THEN links ELSE links \ {l}
InEnvironment(l) == layout[l].target # Outside

\* cleanup: doClean for the environment, given the symlinks that are left.
Unreferenced(e, left) == {b \in builds : Env[b] = e /\ \A l \in left : layout[l].target # b}

CleanUp(e, left) ==
    \/ ~args.dry_run /\ builds' = builds \ Unreferenced(e, left) /\ sources' = sources \ {e}
    \/ UNCHANGED <<builds, sources>>   \* a dry run, or doClean failed

-----------------------------------------------------------------------------
(* main *)

\* Mutant: what was too old stays in the list.
GatherAll ==
    /\ pc = "start"
    /\ pc' = "old"
    /\ symlinks' = {l \in links : Candidate(l)}
    /\ todo' = {l \in links : Candidate(l) /\ Old(l)}
    /\ UNCHANGED <<layout, args, diskVars>>

Gather ==
    /\ pc = "start"
    /\ pc' = "old"
    /\ symlinks' = {l \in links : Candidate(l) /\ ~Old(l)}
    /\ todo' = {l \in links : Candidate(l) /\ Old(l)}
    /\ UNCHANGED <<layout, args, diskVars>>

\* delete_old_builds: the list is sorted newest first.
DeleteOld(l) ==
    /\ pc = "old" /\ l \in Newest(todo)
    /\ InEnvironment(l)
    /\ Deleted(l)
    /\ todo' = todo \ {l}
    /\ UNCHANGED <<layout, args, pc, builds, sources, used, symlinks>>

OldDone ==
    /\ pc = "old" /\ todo = {}
    /\ pc' = "clean"
    /\ todo' = Envs
    /\ UNCHANGED <<layout, args, diskVars, symlinks>>

CleanFirst(e) ==
    /\ pc = "clean" /\ e \in todo
    /\ CleanUp(e, links)
    /\ todo' = todo \ {e}
    /\ UNCHANGED <<layout, args, pc, links, used, symlinks>>

Wanted == args.minimum_disk_space
CleanDone ==
    /\ pc = "clean" /\ todo = {}
    /\ pc' = IF Wanted = NoLimit THEN "done" ELSE "threshold"
    /\ UNCHANGED <<layout, args, diskVars, symlinks, todo>>

\* cleanup_to_disk_threshold
\* Mutant: the end of the list is not looked at, there is nothing to pop.
DoneBySpace == disk_free >= Wanted
Done == symlinks = {} \/ disk_free >= Wanted

\* Mutant: the other end of the list, as the comment in main says.
PopNewest(l) ==
    /\ pc = "threshold" /\ ~Done
    /\ l \in Newest(symlinks)
    /\ InEnvironment(l)
    /\ Deleted(l)
    /\ CleanUp(layout[l].env, links')
    /\ symlinks' = symlinks \ {l}
    /\ UNCHANGED <<layout, args, pc, used, todo>>

\* pop: the last of the list is the oldest.
DeleteOldest(l) ==
    /\ pc = "threshold" /\ ~Done
    /\ l \in Oldest(symlinks)
    /\ InEnvironment(l)
    /\ Deleted(l)
    /\ CleanUp(layout[l].env, links')
    /\ symlinks' = symlinks \ {l}
    /\ UNCHANGED <<layout, args, pc, used, todo>>

\* Mutant: space is not looked at again once the list has been worked on.
ThresholdOnce ==
    /\ pc = "threshold"
    /\ Done \/ links # Links
    /\ pc' = "done"
    /\ UNCHANGED <<layout, args, diskVars, symlinks, todo>>

ThresholdDone ==
    /\ pc = "threshold" /\ Done
    /\ pc' = "done"
    /\ UNCHANGED <<layout, args, diskVars, symlinks, todo>>

\* The ValueError of delete_symlink: a candidate leads out of its environment.
Abort(l) ==
    /\ ~InEnvironment(l)
    /\ \/ pc = "old" /\ l \in Newest(todo)
       \/ pc = "threshold" /\ ~Done /\ l \in Oldest(symlinks)
    /\ pc' = "aborted"
    /\ symlinks' = {} /\ todo' = {}
    /\ UNCHANGED <<layout, args, diskVars>>

Killed ==
    /\ pc \notin {"done", "aborted"}
    /\ pc' = "aborted"
    /\ symlinks' = {} /\ todo' = {}
    /\ UNCHANGED <<layout, args, diskVars>>

OthersUseDisk ==
    /\ used < MaxUse /\ disk_free > 0
    /\ used' = used + 1
    /\ UNCHANGED <<layout, args, pc, links, builds, sources, symlinks, todo>>

\* continuous-builder.sh: after the next build.
RunAgain ==
    /\ pc \in {"done", "aborted"}
    /\ pc' = "start"
    /\ symlinks' = {} /\ todo' = {}
    /\ UNCHANGED <<layout, args, diskVars>>

Step ==
    \/ Gather \/ OldDone \/ CleanDone \/ ThresholdDone
    \/ \E l \in Links : DeleteOld(l) \/ DeleteOldest(l) \/ Abort(l)
    \/ \E e \in Envs : CleanFirst(e)

Next == Step \/ Killed \/ OthersUseDisk \/ RunAgain

Spec == Init /\ [][Next]_vars

\* The script runs on; doClean returns.
FairSpec == Spec /\ WF_vars(Step)

-----------------------------------------------------------------------------
(* Properties *)

\* Builds are given up from the oldest: one that is not too old goes only when no older
\* candidate is left, also over several runs of which some were killed.
OldestGoFirst ==
    \A l \in Links \ links : ~Old(l) =>
        \A m \in links : Considered(m) => layout[m].mtime >= layout[l].mtime

\* "in order to clean up only development packages (leaving common build dependencies
\* cached)": an installation that a symlink of another package leads to stays.
DependenciesCached ==
    \A l \in Links : layout[l].kind = "install" /\ ~layout[l].dev =>
        layout[l].target \in builds \union {Outside}

\* The script ends with the space it was asked for, or with nothing left to delete, however
\* much of doClean fails and whatever others write meanwhile.
SpaceOrNothingLeft ==
    [][pc # "done" /\ pc' = "done" /\ Wanted # NoLimit =>
          disk_free >= Wanted \/ args.dry_run
          \/ {l \in links : Considered(l)} = {}]_vars

\* Every run comes to an end.
Ends == [](pc # "done" => <>(pc \in {"done", "aborted"}))
=============================================================================
