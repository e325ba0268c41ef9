----------------------------- MODULE MCPipeline -----------------------------
(* Instances of Pipeline for TLC: two similar events, an hour apart, about    *)
(* one ticker, from two feeds.                                                *)
EXTENDS Pipeline

CONSTANTS w1, n1, n2, d1, NVDA, sec, rss

MCEvents == 1 .. 2
MCSource == [e \in MCEvents |-> IF e = 2 THEN rss ELSE sec]
MCTicker == [e \in MCEvents |-> NVDA]
MCFetchedAt == [e \in MCEvents |-> e - 1]
AllSimilar == MCEvents \X MCEvents
NoFaults == [k \in FaultKinds |-> 0]
OneOfEach == [k \in MishapKinds |-> 1]
=============================================================================
