---------------------------- MODULE MCDiskCleanup ----------------------------
(* Two environments, the first with a build directory and an installation.   *)
(* The second and third symlink are of the same age.                         *)
EXTENDS DiskCleanup

CONSTANTS e1, e2, b1, b2, b3, l1, l2, l3

MCEnv == [b \in Builds |-> IF b = b3 THEN e2 ELSE e1]
Link(mtime, target, dev) ==
    [env |-> IF target = Outside THEN e1 ELSE MCEnv[target],
     kind |-> IF target = b1 THEN "BUILD" ELSE "install",
     mtime |-> mtime, target |-> target, dev |-> dev]
LinksOf(mtime) == {Link(mtime, target, TRUE) : target \in Builds \union {Outside}}
    \union {Link(mtime, target, FALSE) : target \in (Builds \ {b1}) \union {Outside}}
MCLayouts == {[l \in Links |-> IF l = l1 THEN x ELSE IF l = l2 THEN y ELSE z] :
                 x \in LinksOf(1), y \in LinksOf(2), z \in LinksOf(2)}
MCArguments == [dry_run : BOOLEAN, maximum_age : {NoLimit, 2}, minimum_disk_space : {NoLimit, 4}]
=============================================================================
