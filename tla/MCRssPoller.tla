----------------------------- MODULE MCRssPoller -----------------------------
(* Instances of RssPoller for TLC: a feed with an entry Postgres refuses is   *)
(* read before two feeds that carry the same story, the second one twice.     *)
EXTENDS RssPoller

MCEntries == {"odd", "story", "wire", "again", "sport", "older"}
MCFeedItems == <<<<"odd", "wire">>, <<"sport", "story", "again", "older">>, <<"wire">>>>
MCExternalId == [i \in MCEntries |-> IF i \in {"again", "wire"} THEN "story" ELSE i]
OneOfEach == [k \in FaultKinds |-> 1]
=============================================================================
