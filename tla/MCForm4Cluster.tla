---------------------------- MODULE MCForm4Cluster ----------------------------
(* Instances of Form4ClusterJob for TLC: filings about NVDA at both ends of   *)
(* one window, two about AAPL, and a press report about NVDA.                 *)
EXTENDS Form4ClusterJob

CONSTANTS NVDA, AAPL, rss

MCEvents == 1 .. 6
MCSource == [e \in MCEvents |-> IF e = 6 THEN rss ELSE SecForm4]
MCTicker == [e \in MCEvents |-> IF e \in {4, 5} THEN AAPL ELSE NVDA]
MCFetchedAt == [e \in MCEvents |-> CASE e = 1 -> 0 [] e = 2 -> 0 [] e = 3 -> 2 [] OTHER -> 1]
\* An alert may be in the channel three times.
MCMishaps == [k \in MishapKinds |-> IF k = "unconfirmed" THEN 2 ELSE 1]
NoMishaps == [k \in MishapKinds |-> 0]
=============================================================================
