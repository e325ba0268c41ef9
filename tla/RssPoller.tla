------------------------------ MODULE RssPoller ------------------------------
(***************************************************************************)
(* The round through the RSS feeds (rss_poller/main.py, pipeline.py): one  *)
(* transaction for each feed, one source for all of them.                  *)
(***************************************************************************)
EXTENDS Polling

CONSTANTS
  FeedItems,    \* FeedItems[k]: the entries of feed k, in the order of the feed
  Relevant      \* entries with a ticker in the title, or a keyword

ASSUME FeedsAssumption == FeedItems \in Seq(Seq(Entries)) /\ FeedItems # <<>>
ASSUME FaultKindsAssumption == {"stop", "fetch"} \subseteq FaultKinds

VARIABLES
  phase,   \* where the round awaits
  feed,    \* the feed it is at, 0 between two rounds
  items,   \* where in it are the entries it has read
  left     \* those it has not handled

roundVars == <<phase, feed, items, left>>
vars == <<pollVars, roundVars>>

Feeds == DOMAIN FeedItems

Entry(n) == FeedItems[feed][n]

\* Where the entries which feed k lists are.
Listed(k) == {n \in DOMAIN FeedItems[k] : FeedItems[k][n] \in published}

TypeOK ==
  /\ PollingTypeOK /\ added \subseteq Relevant
  /\ cursor \in [Feeds -> {ExternalId[x] : x \in published} \cup {"", None}]
  /\ phase \in {"idle", "fetch", "item", "commit"} /\ feed \in Feeds \cup {0}
  /\ feed = 0 <=> phase = "idle"
  /\ left \subseteq items /\ items \subseteq IF feed = 0 THEN {} ELSE Listed(feed)

Init ==
  /\ published = {} /\ stored = {} /\ cursor = [k \in Feeds |-> None] /\ added = {}
  /\ faults = [k \in FaultKinds |-> 0]
  /\ phase = "idle" /\ feed = 0 /\ items = {} /\ left = {}

-----------------------------------------------------------------------------

Start ==
  /\ phase = "idle"
  /\ phase' = "fetch" /\ feed' = 1
  /\ UNCHANGED <<pollVars, items, left>>

Fetch ==
  /\ phase = "fetch"
  /\ items' = Listed(feed) /\ left' = items'
  /\ phase' = IF items' = {} THEN "commit" ELSE "item"
  /\ UNCHANGED <<pollVars, feed>>

\* The first of some positions.
First(S) == {n \in S : \A k \in S : n <= k}

\* (Mutants: the filter is passed by; an entry it knows ends the loop.)
ItemUnfiltered ==
  /\ phase = "item"
  /\ \E n \in First(left) :
       /\ StoreNew(Entry(n))
       /\ left' = left \ {n}
  /\ phase' = IF left' = {} THEN "commit" ELSE "item"
  /\ UNCHANGED <<published, stored, cursor, faults, feed, items>>
ItemBreaking ==
  /\ phase = "item"
  /\ \E n \in First(left) :
       /\ IF Entry(n) \in Relevant THEN StoreNew(Entry(n)) ELSE UNCHANGED added
       /\ left' = IF Entry(n) \in Relevant /\ Existing(Entry(n)) THEN {} ELSE left \ {n}
  /\ phase' = IF left' = {} THEN "commit" ELSE "item"
  /\ UNCHANGED <<published, stored, cursor, faults, feed, items>>

Item ==
  /\ phase = "item"
  /\ \E n \in First(left) :
       /\ IF Entry(n) \in Relevant THEN StoreNew(Entry(n)) ELSE UNCHANGED added
       /\ left' = left \ {n}
  /\ phase' = IF left' = {} THEN "commit" ELSE "item"
  /\ UNCHANGED <<published, stored, cursor, faults, feed, items>>

LeaveFeed == items' = {} /\ left' = {} /\ added' = {} /\ UNCHANGED published

\* run_all goes on with the next feed, whatever became of this one.
NextFeed ==
  /\ LeaveFeed
  /\ IF feed = Len(FeedItems) THEN phase' = "idle" /\ feed' = 0
                              ELSE phase' = "fetch" /\ feed' = feed + 1

\* The guid of the first entry of the feed, if there is one.
NewCursor == IF items = {} THEN {""} ELSE {ExternalId[Entry(n)] : n \in First(items)}

Commit ==
  /\ phase = "commit"
  /\ CommitAdded
  /\ \E guid \in NewCursor : cursor' = [cursor EXCEPT ![feed] = guid]
  /\ NextFeed
  /\ UNCHANGED faults

FetchFails ==
  /\ phase = "fetch"
  /\ Fault("fetch")
  /\ NextFeed
  /\ UNCHANGED <<stored, cursor>>

EndRound ==
  /\ LeaveFeed
  /\ phase' = "idle" /\ feed' = 0
  /\ UNCHANGED <<stored, cursor>>

\* The session flushes before the SELECT for a relevant entry, and in commit().
Flushes == phase = "commit" \/ (phase = "item" /\ \E n \in First(left) : Entry(n) \in Relevant)

\* That flush raises.  (Mutant: the exception ends the round and not only the feed.)
RejectedRound ==
  /\ Flushes /\ FlushFails
  /\ EndRound
  /\ UNCHANGED faults

Rejected ==
  /\ Flushes /\ FlushFails
  /\ NextFeed
  /\ UNCHANGED <<stored, cursor, faults>>

\* The process stops.
Stop ==
  /\ phase # "idle"
  /\ Fault("stop")
  /\ EndRound

Round == Start \/ Fetch \/ Item \/ Commit \/ Rejected

Publish(i) ==
  /\ i \notin published
  /\ published' = published \cup {i}
  /\ UNCHANGED <<stored, cursor, added, faults, roundVars>>

Next == Round \/ FetchFails \/ Stop \/ \E i \in Entries : Publish(i)

Spec == Init /\ [][Next]_vars

\* The interval job makes round after round.
FairSpec == Spec /\ WF_vars(Round)

-----------------------------------------------------------------------------
(* Properties                                                               *)

\* A feed the round leaves without a fault, and whose rows Postgres accepts, has
\* been stored as far as it is relevant: entries the table has already, other
\* entries with their guid and whatever was wrong with the feeds before it cost
\* none of them (main.py:19-23, pipeline.py:73).
GoodFeedsAreStored ==
  [][/\ phase # "idle" /\ feed' # feed /\ faults' = faults
     /\ \A n \in items : Entry(n) \notin Refused
     => \A n \in items : Entry(n) \in Relevant => ExternalId[Entry(n)] \in stored']_vars

\* A feed whose rows Postgres accepts is stored in the end, whatever is wrong
\* with the feeds before it (main.py:19-23) and after any restart.
FeedsAreIsolated ==
  \A k \in Feeds :
    LET entries == {FeedItems[k][n] : n \in DOMAIN FeedItems[k]}
    IN entries \cap Refused = {} =>
         \A i \in entries \cap Relevant : i \in published ~> ExternalId[i] \in stored
=============================================================================
