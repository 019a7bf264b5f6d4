------------------------------- MODULE MCVoting ------------------------------
(* Two rules of any kind, two files, three users and an admin.             *)
EXTENDS Voting

MCRule == [paths : (SUBSET Paths) \ {{}}, authorized : {{}} \union {{a} : a \in Authors},
           approve : SUBSET (Users \ Admins), num : 1..3]
MCRuleSets == {{r1, r2} : r1, r2 \in MCRule}
=============================================================================
