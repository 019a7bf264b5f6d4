----------------------------- MODULE MCPrApproval ----------------------------
(* Two users own the files.  In one instance a single head touches the     *)
(* files of both; in the other a pull request opened without changes is    *)
(* pushed to twice and only one owner votes.                               *)
EXTENDS PrApproval

CONSTANTS a, b, f1, f2, t1

MCRules == {[paths |-> {f1}, authorized |-> {}, approve |-> {a}, num |-> 1],
            [paths |-> {f2}, authorized |-> {}, approve |-> {b}, num |-> 1]}
MCVotes == [who : {a}, kind : {"+1", "+test"}] \union [who : {b}, kind : {"+1"}]
MCPaths == [s \in Shas |-> {f1, f2}]

MCVotesOfOne == [who : {a}, kind : {"+1", "+test"}]
MCPathsOfHeads == [s \in Shas |-> IF s = 1 THEN {} ELSE {f1}]
MCTests == <<t1>>
=============================================================================
