------------------------- MODULE MCFreespinsLifecycle -------------------------
(* Small instances of FreespinsLifecycle.                                  *)
EXTENDS FreespinsLifecycle, TLC

CONSTANTS alice, i1, t1

MCOpening == alice :> 1

(* One issue, and answers to the queries that are just as long as what is  *)
(* read, and longer.                                                       *)
MCIssueAccount == i1 :> alice
MCTerms == i1 :> t1
=============================================================================
