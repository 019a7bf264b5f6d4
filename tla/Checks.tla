-------------------------------- MODULE Checks -------------------------------
(***************************************************************************)
(* What the builders of a pool promise about the checks of pull requests,  *)
(* however they share the work: a check of a commit is built by one worker *)
(* at a time, a worker builds one thing at a time, and only the worker     *)
(* that builds a check reports on it.                                      *)
(*                                                                         *)
(* The abstract specification that ClaimedBuilders implements.             *)
(***************************************************************************)
EXTENDS Naturals

CONSTANTS
    Workers,  \* builders
    Items     \* pieces of work: one commit of a pull request, for one check

VARIABLES
    status,   \* GitHub's status of each item
    builders  \* who builds it

vars == <<status, builders>>

Statuses == {"none", "pending", "success", "error"}

Init ==
    /\ status = [i \in Items |-> "none"]
    /\ builders = [i \in Items |-> {}]

Start(w, i) ==
    /\ builders[i] = {}
    /\ \A j \in Items : w \notin builders[j]
    /\ builders' = [builders EXCEPT ![i] = {w}]
    /\ UNCHANGED status

Report(w, i) ==
    /\ builders[i] = {w}
    /\ \E s \in Statuses : status' = [status EXCEPT ![i] = s]
    /\ UNCHANGED builders

\* The build ends, is killed or dies with its worker.
Stop(w, i) ==
    /\ builders[i] = {w}
    /\ builders' = [builders EXCEPT ![i] = {}]
    /\ UNCHANGED status

\* The pull request bot asks for the check.
Require(i) ==
    /\ status' = [status EXCEPT ![i] = "pending"]
    /\ UNCHANGED builders

Next ==
    \/ \E w \in Workers, i \in Items : Start(w, i) \/ Report(w, i) \/ Stop(w, i)
    \/ \E i \in Items : Require(i)

Spec == Init /\ [][Next]_vars
=============================================================================
