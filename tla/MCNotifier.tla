----------------------------- MODULE MCNotifier -----------------------------
(* Instances of Notifier for TLC: events without tickers, scores on both     *)
(* sides of the two thresholds.                                              *)
EXTENDS Notifier

CONSTANTS n1, n2, d1, rss

MCEvents == 1 .. 2
MCSource == [e \in MCEvents |-> rss]
MCTicker == [e \in MCEvents |-> None]
MCFetchedAt == [e \in MCEvents |-> 0]
ThreeRefusals == [k \in MishapKinds |-> IF k = "refused" THEN 3 ELSE 0]
=============================================================================
