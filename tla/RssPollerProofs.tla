---------------------------- MODULE RssPollerProofs ----------------------------
(***************************************************************************)
(* What a round through the feeds stores, for all feeds, all guids they    *)
(* share and all faults.                                                   *)
(***************************************************************************)
EXTENDS RssPoller, TLAPS

\* What the loop has passed is in the table or in the session, which holds nothing
\* but entries of this feed.
Covers ==
  /\ phase \in {"idle", "fetch"} => items = {} /\ added = {}
  /\ phase = "commit" => left = {}
  /\ \A n \in items \ left :
       Entry(n) \in Relevant => ExternalId[Entry(n)] \in stored \cup {ExternalId[x] : x \in added}
  /\ \A x \in added : \E n \in items : x = Entry(n)

IInv == TypeOK /\ AddedRowsAreNew /\ Covers

LEMMA FeedNumbers ==
  /\ Feeds = 1 .. Len(FeedItems) /\ Len(FeedItems) \in Nat /\ 1 \in Feeds
  /\ \A k \in Feeds : k # Len(FeedItems) => k + 1 \in Feeds /\ k + 1 # 0
BY FeedsAssumption DEF Feeds

LEMMA FaultEffect ==
  ASSUME faults \in [FaultKinds -> Nat], NEW k \in FaultKinds, Fault(k)
  PROVE  faults' \in [FaultKinds -> Nat] /\ faults' # faults
BY DEF Fault

\* What the SELECT after the flush does not find is neither committed nor added.
LEMMA StoreNewEffect ==
  ASSUME AddedRowsAreNew, NEW x, StoreNew(x), stored' = stored
  PROVE  /\ AddedRowsAreNew'
         /\ added \subseteq added' /\ added' \subseteq added \cup {x}
         /\ ExternalId[x] \in stored \cup {ExternalId[y] : y \in added'}
<1>1. CASE Existing(x)
  BY <1>1 DEF StoreNew, AddedRowsAreNew, Existing
<1>2. CASE ~ Existing(x)
  <2>1. /\ added' = added \cup {x}
        /\ ExternalId[x] \notin stored
        /\ \A y \in added : ExternalId[y] # ExternalId[x]
    BY <1>2 DEF StoreNew, Existing
  <2> QED BY <2>1 DEF AddedRowsAreNew
<1> QED BY <1>1, <1>2

\* Rows that are new can only be refused for what is in them.
LEMMA NewRowsAreRefused ==
  ASSUME AddedRowsAreNew, FlushFails
  PROVE  \E x \in added : x \in Refused
BY DEF AddedRowsAreNew, FlushFails

LEMMA InitIInv == Init => IInv
<1> SUFFICES ASSUME Init PROVE IInv
  OBVIOUS
<1>1. TypeOK
  BY DEF Init, TypeOK, PollingTypeOK
<1>2. AddedRowsAreNew /\ Covers
  BY DEF Init, AddedRowsAreNew, Covers
<1> QED BY <1>1, <1>2 DEF IInv

LEMMA StartIInv == ASSUME IInv, Start PROVE IInv'
<1>1. /\ phase = "idle" /\ phase' = "fetch" /\ feed' = 1 /\ items = {} /\ added = {} /\ left = {}
      /\ UNCHANGED <<published, stored, cursor, added, faults, items, left>>
  BY DEF Start, pollVars, IInv, Covers, TypeOK
<1>2. feed' \in Feeds /\ feed' # 0
  BY <1>1, FeedNumbers
<1>3. TypeOK'
  BY <1>1, <1>2 DEF IInv, TypeOK, PollingTypeOK
<1>4. AddedRowsAreNew' /\ Covers'
  BY <1>1 DEF AddedRowsAreNew, Covers
<1> QED BY <1>3, <1>4 DEF IInv

LEMMA FetchIInv == ASSUME IInv, Fetch PROVE IInv'
<1>1. /\ phase = "fetch" /\ items' = Listed(feed) /\ left' = items' /\ added = {}
      /\ phase' = IF items' = {} THEN "commit" ELSE "item"
      /\ UNCHANGED <<published, stored, cursor, added, faults, feed>>
  BY DEF Fetch, pollVars, IInv, Covers
<1>2. feed # 0 /\ Listed(feed)' = Listed(feed)
  BY <1>1 DEF IInv, TypeOK, Listed
<1>3. TypeOK'
  BY <1>1, <1>2 DEF IInv, TypeOK, PollingTypeOK
<1>4. AddedRowsAreNew' /\ Covers'
  BY <1>1 DEF AddedRowsAreNew, Covers
<1> QED BY <1>3, <1>4 DEF IInv

LEMMA ItemIInv == ASSUME IInv, Item PROVE IInv'
<1>1. PICK n \in left :
        /\ IF Entry(n) \in Relevant THEN StoreNew(Entry(n)) ELSE UNCHANGED added
        /\ left' = left \ {n}
  BY DEF Item, First
<1>2. /\ phase = "item" /\ phase' \in {"item", "commit"} /\ (phase' = "commit" => left' = {})
      /\ UNCHANGED <<published, stored, cursor, faults, feed, items>>
  BY DEF Item
<1>3. /\ TypeOK /\ feed # 0 /\ n \in items /\ Entry(n) \in published /\ Listed(feed)' = Listed(feed)
      /\ \A i : Entry(i)' = Entry(i)
  BY <1>1, <1>2 DEF IInv, TypeOK, Listed, Entry
<1>4. /\ AddedRowsAreNew'
      /\ added \subseteq added' /\ added' \subseteq added \cup {Entry(n)}
      /\ added' # added => Entry(n) \in Relevant
      /\ Entry(n) \in Relevant => ExternalId[Entry(n)] \in stored \cup {ExternalId[y] : y \in added'}
  <2>1. CASE Entry(n) \in Relevant
    BY <1>1, <1>2, <2>1, StoreNewEffect DEF IInv
  <2>2. CASE Entry(n) \notin Relevant
    BY <1>1, <1>2, <2>2 DEF IInv, AddedRowsAreNew
  <2> QED BY <2>1, <2>2
<1>5. TypeOK'
  BY <1>1, <1>2, <1>3, <1>4 DEF TypeOK, PollingTypeOK
<1>6. Covers'
  <2>1. ASSUME NEW i \in items' \ left', Entry(i)' \in Relevant
        PROVE  ExternalId[Entry(i)'] \in stored' \cup {ExternalId[x] : x \in added'}
    <3>1. CASE i = n
      BY <1>2, <1>3, <1>4, <2>1, <3>1
    <3>2. CASE i # n
      BY <1>1, <1>2, <1>3, <1>4, <2>1, <3>2 DEF IInv, Covers
    <3> QED BY <3>1, <3>2
  <2>2. \A x \in added' : \E i \in items' : x = Entry(i)'
    BY <1>2, <1>3, <1>4 DEF IInv, Covers
  <2> QED BY <1>2, <2>1, <2>2 DEF Covers
<1> QED BY <1>4, <1>5, <1>6 DEF IInv

\* Whatever ends the work on a feed, the next one begins with a fresh session.
LEMMA LeaveIInv ==
  ASSUME IInv, NextFeed \/ (LeaveFeed /\ phase' = "idle" /\ feed' = 0), feed # 0,
         cursor' \in [Feeds -> {ExternalId[x] : x \in published} \cup {"", None}],
         faults' \in [FaultKinds -> Nat],
         stored' \subseteq {ExternalId[x] : x \in published}
  PROVE  IInv'
<1>1. items' = {} /\ left' = {} /\ added' = {} /\ published' = published
  BY DEF NextFeed, LeaveFeed
<1>2. \/ phase' = "idle" /\ feed' = 0
      \/ phase' = "fetch" /\ feed' \in Feeds /\ feed' # 0
  <2>1. feed \in Feeds
    BY DEF IInv, TypeOK
  <2>2. CASE NextFeed /\ feed # Len(FeedItems)
    <3>1. phase' = "fetch" /\ feed' = feed + 1
      BY <2>2 DEF NextFeed
    <3>2. feed + 1 \in Feeds /\ feed + 1 # 0
      BY <2>1, <2>2, FeedNumbers
    <3> QED BY <3>1, <3>2
  <2> QED BY <2>2 DEF NextFeed
<1>3. TypeOK'
  BY <1>1, <1>2 DEF IInv, TypeOK, PollingTypeOK
<1>4. AddedRowsAreNew' /\ Covers'
  BY <1>1, <1>2 DEF AddedRowsAreNew, Covers
<1> QED BY <1>3, <1>4 DEF IInv

LEMMA EndsIInv == ASSUME IInv, Commit \/ Rejected \/ FetchFails \/ Stop PROVE IInv'
<1>1. /\ TypeOK /\ {"stop", "fetch"} \subseteq FaultKinds /\ feed # 0
      /\ stored \subseteq {ExternalId[x] : x \in published}
      /\ cursor \in [Feeds -> {ExternalId[x] : x \in published} \cup {"", None}]
      /\ faults \in [FaultKinds -> Nat]
  BY FaultKindsAssumption
     DEF IInv, TypeOK, PollingTypeOK, Commit, Rejected, Flushes, FetchFails, Stop
<1>2. CASE Commit
  <2>1. /\ NextFeed /\ faults' = faults /\ stored' = stored \cup {ExternalId[x] : x \in added}
        /\ \E guid \in NewCursor : cursor' = [cursor EXCEPT ![feed] = guid]
    BY <1>2 DEF Commit, CommitAdded
  <2>2. NewCursor \subseteq {ExternalId[x] : x \in published} \cup {""}
    BY <1>1 DEF NewCursor, First, Entry, TypeOK, Listed
  <2>3. cursor' \in [Feeds -> {ExternalId[x] : x \in published} \cup {"", None}]
    BY <1>1, <2>1, <2>2
  <2>4. stored' \subseteq {ExternalId[x] : x \in published}
    BY <1>1, <2>1 DEF TypeOK, PollingTypeOK
  <2> QED BY <1>1, <2>1, <2>3, <2>4, LeaveIInv
<1>3. CASE Rejected
  <2>1. NextFeed /\ UNCHANGED <<stored, cursor, faults>>
    BY <1>3 DEF Rejected
  <2> QED BY <1>1, <2>1, LeaveIInv
<1>4. CASE FetchFails
  <2>1. NextFeed /\ UNCHANGED <<stored, cursor>> /\ faults' \in [FaultKinds -> Nat]
    BY <1>1, <1>4, FaultEffect DEF FetchFails
  <2> QED BY <1>1, <2>1, LeaveIInv
<1>5. CASE Stop
  <2>1. /\ LeaveFeed /\ phase' = "idle" /\ feed' = 0
        /\ UNCHANGED <<stored, cursor>> /\ faults' \in [FaultKinds -> Nat]
    BY <1>1, <1>5, FaultEffect DEF Stop, EndRound
  <2> QED BY <1>1, <2>1, LeaveIInv
<1> QED BY <1>2, <1>3, <1>4, <1>5

LEMMA PublishIInv == ASSUME IInv, NEW i \in Entries, Publish(i) PROVE IInv'
<1>1. /\ published' = published \cup {i}
      /\ UNCHANGED <<stored, cursor, added, faults, phase, feed, items, left>>
  BY DEF Publish, roundVars
<1>2. feed # 0 => Listed(feed) \subseteq Listed(feed)'
  BY <1>1 DEF Listed
<1>3. TypeOK'
  BY <1>1, <1>2 DEF IInv, TypeOK, PollingTypeOK
<1>4. AddedRowsAreNew' /\ Covers'
  BY <1>1 DEF IInv, AddedRowsAreNew, Covers, Entry
<1> QED BY <1>3, <1>4 DEF IInv

LEMMA NextIInv == ASSUME IInv, [Next]_vars PROVE IInv'
<1>1. CASE UNCHANGED vars
  <2>1. UNCHANGED <<published, stored, cursor, added, faults, phase, feed, items, left>>
    BY <1>1 DEF vars, pollVars, roundVars
  <2>2. TypeOK'
    BY <2>1 DEF IInv, TypeOK, PollingTypeOK, Listed
  <2> QED BY <2>1, <2>2 DEF IInv, AddedRowsAreNew, Covers, Entry
<1> QED
  BY <1>1, StartIInv, FetchIInv, ItemIInv, EndsIInv, PublishIInv DEF Next, Round

\* The poller stays within its types, and stores nothing but relevant entries.
THEOREM PollerTypes == Spec => []TypeOK
<1>1. IInv => TypeOK
  BY DEF IInv
<1> QED BY <1>1, InitIInv, NextIInv, PTL DEF Spec

\* For any feeds, any guids they share and any faults, the flushes of the RSS
\* poller never offer raw_events a row it already has.
THEOREM RowsStayNew == Spec => []AddedRowsAreNew
<1>1. IInv => AddedRowsAreNew
  BY DEF IInv
<1> QED BY <1>1, InitIInv, NextIInv, PTL DEF Spec

\* A feed whose rows Postgres accepts is stored whenever no fault hits it: what the
\* other feeds hold, and what became of them, never matters.
THEOREM GoodFeedsGetStored == Spec => GoodFeedsAreStored
<1>1. ASSUME IInv, [Next]_vars
      PROVE  [/\ phase # "idle" /\ feed' # feed /\ faults' = faults
              /\ \A n \in items : Entry(n) \notin Refused
              => \A n \in items : Entry(n) \in Relevant => ExternalId[Entry(n)] \in stored']_vars
  <2> SUFFICES ASSUME Next, phase # "idle", feed' # feed, faults' = faults,
                      \A n \in items : Entry(n) \notin Refused,
                      NEW n \in items, Entry(n) \in Relevant
               PROVE  ExternalId[Entry(n)] \in stored'
    BY <1>1
  <2>1. Commit
    <3>1. ~ FlushFails
      BY <1>1, NewRowsAreRefused DEF IInv, Covers
    <3>2. ~ Rejected
      BY <3>1 DEF Rejected
    <3>3. ~ FetchFails /\ ~ Stop
      BY <1>1, FaultEffect, FaultKindsAssumption DEF FetchFails, Stop, IInv, TypeOK, PollingTypeOK
    <3>4. ~ Start /\ ~ Fetch /\ ~ Item /\ ~ \E i \in Entries : Publish(i)
      BY DEF Start, Fetch, Item, Publish, roundVars
    <3> QED BY <3>2, <3>3, <3>4 DEF Next, Round
  <2>2. left = {} /\ stored' = stored \cup {ExternalId[x] : x \in added}
    BY <1>1, <2>1 DEF Commit, CommitAdded, IInv, Covers
  <2> QED BY <1>1, <2>2 DEF IInv, Covers
<1> QED BY <1>1, InitIInv, NextIInv, PTL DEF Spec, GoodFeedsAreStored
=============================================================================
