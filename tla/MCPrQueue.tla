------------------------------ MODULE MCPrQueue ------------------------------
(* PrQueue on three pull requests, one of which is of a repository that    *)
(* perms.yml does not configure.                                           *)
EXTENDS PrQueue
=============================================================================
