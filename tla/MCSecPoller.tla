----------------------------- MODULE MCSecPoller -----------------------------
(* Instances of SecPoller for TLC: a purchase and a sale at their thresholds,  *)
(* a smaller sale, a filing with a malformed hit and, a day later, one with a  *)
(* row which Postgres refuses.                                                 *)
EXTENDS SecPoller

MCEntries == {"buy", "sale", "small", "odd", "long"}
MCExternalId == [f \in MCEntries |-> f]
MCFiled == [f \in MCEntries |-> IF f = "long" THEN 1 ELSE 0]
MCCode == [f \in MCEntries |-> IF f \in {"sale", "small"} THEN "S" ELSE "P"]
MCValue == [f \in MCEntries |-> IF f = "sale" THEN 10 ELSE 1]
OneOfEach == [k \in FaultKinds |-> 1]
NoFaults == [k \in FaultKinds |-> 0]
=============================================================================
