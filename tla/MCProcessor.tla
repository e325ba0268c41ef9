----------------------------- MODULE MCProcessor -----------------------------
(* Instances of Processor for TLC: three similar events, fetched one  *)
(* hour apart, about one ticker of the watchlist, from two feeds.             *)
EXTENDS Processor

CONSTANTS w1, w2, NVDA, sec, rss

MCEvents == 1 .. 3
MCSource == [e \in MCEvents |-> IF e = 2 THEN rss ELSE sec]
MCTicker == [e \in MCEvents |-> NVDA]
MCFetchedAt == [e \in MCEvents |-> e - 1]
AllSimilar == MCEvents \X MCEvents
NoFaults == [k \in FaultKinds |-> 0]
OneOfEach == [k \in FaultKinds |-> 1]
OneDbError == [crash |-> 0, dbError |-> 1, requeue |-> 0]
=============================================================================
