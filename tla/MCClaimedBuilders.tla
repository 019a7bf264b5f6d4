-------------------------- MODULE MCClaimedBuilders --------------------------
(* Items are numbers, the oldest first; the newest has yet to be reviewed.  *)
EXTENDS ClaimedBuilders, FiniteSetsExt

MCRank == [i \in Items |-> i]
MCFirstStage == [i \in Items |-> IF i = Max(Items) THEN "unreviewed" ELSE "trusted"]
=============================================================================
