-------------------------- MODULE Form4ClusterProofs --------------------------
(***************************************************************************)
(* Theorems about the cluster scan, for any filings, tickers, window,      *)
(* threshold and number of mishaps.  What they rest on is the order of     *)
(* four times: a filing is fetched before the scan that finds it starts,   *)
(* and the scan's embed is posted before the row that records it is built. *)
(***************************************************************************)
EXTENDS Form4ClusterJob, FiniteSetTheorems, SequenceTheorems, TLAPS

-----------------------------------------------------------------------------
(* The inductive invariant                                                  *)

Embed == [ticker : Tickers, members : SUBSET Filings]

\* The positions in the channel of the embeds about t, and of those that name e.
About(t) == {i \in DOMAIN alerts : alerts[i].ticker = t}
Naming(e) == {i \in DOMAIN alerts : e \in alerts[i].members}

Recorded(T, t) == {c \in T : c.ticker = t}

Types ==
  /\ ClusterOK
  /\ alerts \in Seq(Embed)
  /\ IsFiniteSet(draft) /\ IsFiniteSet(clusters)
  /\ phase = "idle" => draft = {}
  /\ phase = "commit" => left = {}

\* Nothing is dated in the future, and a scan finds what lies in its window.
Dated ==
  /\ \A e \in Events : row[e].status # "absent" => FetchedAt[e] <= now
  /\ \A c \in draft \cup clusters : c.created_at <= now
  /\ \A t \in DOMAIN candidates : \A e \in candidates[t] :
       Ticker[e] = t /\ started - ClusterWindow <= FetchedAt[e] /\ FetchedAt[e] <= started

\* The rows of one ticker lie more than a window apart.
Spaced(T) ==
  \A c, d \in T :
    c # d /\ c.ticker = d.ticker /\ c.created_at <= d.created_at
      => d.created_at - c.created_at > ClusterWindow

\* A scan adds one row at most for each ticker; so a rollback loses one at most.
Counted(t) ==
  LET sent == Cardinality(About(t))
      kept == Cardinality(Recorded(clusters, t))
      written == Cardinality(Recorded(draft, t))
  IN IF phase = "idle"
     THEN kept <= sent /\ sent <= kept + Lost
     ELSE /\ kept <= written /\ written <= sent /\ sent <= written + Lost
          /\ written <= kept + (IF t \in left THEN 0 ELSE 1)

\* Some row is younger than e: as long as e is in the window, that row is open.
Remembered(T, e) == \E c \in T : c.ticker = Ticker[e] /\ FetchedAt[e] <= c.created_at

NamedOnce(e) ==
  Cardinality(Naming(e)) <= Lost + (IF Remembered(Table, e) THEN 1 ELSE 0)

Clean == mishaps["refused"] + mishaps["unconfirmed"] = 0

Covered(T, t) ==
  \E c \in T : /\ c.ticker = t /\ c.created_at >= started - ClusterWindow
               /\ c.members = candidates[t]

\* What a scan has handled is in its table, as long as no embed got lost.
Handled ==
  Clean => \A t \in DOMAIN candidates : phase = "idle" \/ t \notin left => Covered(Table, t)

CInv ==
  /\ Types /\ Dated
  /\ Spaced(draft) /\ Spaced(clusters)
  /\ \A t \in Tickers : Counted(t)
  /\ \A e \in Filings : NamedOnce(e)
  /\ Handled

-----------------------------------------------------------------------------
(* Counting                                                                 *)

\* A set of positions, grown by the n positions after the last.
LEMMA GrownSet ==
  ASSUME NEW l \in Nat, NEW n \in Nat, NEW S \in SUBSET (1 .. l)
  PROVE  /\ IsFiniteSet(S) /\ Cardinality(S) \in Nat
         /\ Cardinality(S \cup ((l + 1) .. (l + n))) = Cardinality(S) + n
<1>1. IsFiniteSet(S) /\ Cardinality(S) \in Nat
  <2>1. IsFiniteSet(1 .. l)
    BY FS_Interval
  <2> QED BY <2>1, FS_Subset, FS_CardinalityType
<1>2. IsFiniteSet((l + 1) .. (l + n)) /\ Cardinality((l + 1) .. (l + n)) = n
  BY FS_Interval
<1> DEFINE T == (l + 1) .. (l + n)
<1>3. Cardinality(S \cap T) = 0
  <2>1. S \cap T = {}
    OBVIOUS
  <2> QED BY <2>1, FS_EmptySet
<1>4. Cardinality(S \cup T) = Cardinality(S) + n
  <2> HIDE DEF T
  <2>1. IsFiniteSet(T) /\ Cardinality(T) = n
    BY <1>2 DEF T
  <2>2. Cardinality(S \cup T) = Cardinality(S) + Cardinality(T) - Cardinality(S \cap T)
    BY <1>1, <2>1, FS_Union
  <2> QED BY <1>1, <1>3, <2>1, <2>2
<1> QED BY <1>1, <1>4

LEMMA CountsAreNumbers ==
  ASSUME Types
  PROVE  /\ \A t : Cardinality(About(t)) \in Nat
         /\ \A e : Cardinality(Naming(e)) \in Nat
         /\ \A t : Cardinality(Recorded(draft, t)) \in Nat
         /\ \A t : Cardinality(Recorded(clusters, t)) \in Nat
         /\ Lost \in Nat
<1>1. Len(alerts) \in Nat /\ DOMAIN alerts = 1 .. Len(alerts)
  BY LenProperties DEF Types
<1>2. ASSUME NEW t PROVE Cardinality(About(t)) \in Nat
  BY <1>1, GrownSet DEF About
<1>3. ASSUME NEW e PROVE Cardinality(Naming(e)) \in Nat
  BY <1>1, GrownSet DEF Naming
<1>4. ASSUME NEW t PROVE Cardinality(Recorded(draft, t)) \in Nat
  <2>1. Recorded(draft, t) \in SUBSET draft
    BY DEF Recorded
  <2> QED BY <2>1, FS_Subset, FS_CardinalityType DEF Types
<1>5. ASSUME NEW t PROVE Cardinality(Recorded(clusters, t)) \in Nat
  <2>1. Recorded(clusters, t) \in SUBSET clusters
    BY DEF Recorded
  <2> QED BY <2>1, FS_Subset, FS_CardinalityType DEF Types
<1>6. Lost \in Nat
  BY DEF Lost, Types, ClusterOK, ClusterTypeOK, MishapKinds
<1> QED BY <1>2, <1>3, <1>4, <1>5, <1>6

\* Which mishaps lose an embed, and which leave an alert out.
LEMMA MishapEffect ==
  ASSUME mishaps \in [MishapKinds -> Nat], NEW k \in MishapKinds, Mishap(k)
  PROVE  /\ mishaps' \in [MishapKinds -> Nat]
         /\ Lost \in Nat /\ Lost' = Lost + (IF k \in {"stop", "unconfirmed"} THEN 1 ELSE 0)
         /\ Clean' => Clean
         /\ k \in {"refused", "unconfirmed"} => ~ Clean'
BY DEF Mishap, MishapKinds, Lost, Clean

\* n embeds about t, counted by ticker and by filing.
Grown(t, n) ==
  /\ alerts' \in Seq(Embed)
  /\ \A s \in Tickers :
       Cardinality(About(s)') = Cardinality(About(s)) + (IF s = t THEN n ELSE 0)
  /\ \A e \in Filings :
       Cardinality(Naming(e)') = Cardinality(Naming(e)) + (IF e \in candidates[t] THEN n ELSE 0)

LEMMA AnnounceEffect ==
  ASSUME Types, NEW t \in DOMAIN candidates, NEW n \in Nat, Announce(t, n)
  PROVE  Grown(t, n)
<1> DEFINE embed == [ticker |-> t, members |-> candidates[t]]
           l == Len(alerts)
<1>1. embed \in Embed
  BY DEF Types, ClusterOK, ClusterTypeOK, Embed
<1>2. [i \in 1 .. n |-> embed] \in Seq(Embed) /\ Len([i \in 1 .. n |-> embed]) = n
  BY <1>1
<1>3. l \in Nat /\ DOMAIN alerts = 1 .. l
  BY LenProperties DEF Types
<1>4. /\ alerts' \in Seq(Embed) /\ DOMAIN alerts' = 1 .. (l + n)
      /\ \A i \in 1 .. l : alerts'[i] = alerts[i]
      /\ \A i \in (l + 1) .. (l + n) : alerts'[i] = embed
  <2>1. alerts' = alerts \o [i \in 1 .. n |-> embed]
    BY DEF Announce
  <2>2. /\ alerts' \in Seq(Embed) /\ Len(alerts') = l + n
        /\ \A i \in 1 .. l + n :
             alerts'[i] = IF i <= l THEN alerts[i] ELSE [j \in 1 .. n |-> embed][i - l]
    BY <1>2, <2>1, ConcatProperties DEF Types
  <2>3. DOMAIN alerts' = 1 .. (l + n)
    BY <2>2, LenProperties
  <2>4. \A i \in (l + 1) .. (l + n) : i - l \in 1 .. n
    BY <1>3
  <2> QED BY <1>3, <2>2, <2>3, <2>4
<1>5. ASSUME NEW s \in Tickers
      PROVE  Cardinality(About(s)') = Cardinality(About(s)) + (IF s = t THEN n ELSE 0)
  <2>1. CASE s = t
    <3>1. About(s)' = About(s) \cup ((l + 1) .. (l + n))
      BY <1>3, <1>4, <2>1 DEF About
    <3>2. About(s) \in SUBSET (1 .. l)
      BY <1>3 DEF About
    <3>3. Cardinality(About(s) \cup ((l + 1) .. (l + n))) = Cardinality(About(s)) + n
      BY <1>3, <3>2, n \in Nat, GrownSet, Zenon
    <3> QED BY <2>1, <3>1, <3>3
  <2>2. CASE s # t
    <3>1. About(s)' = About(s)
      BY <1>3, <1>4, <2>2 DEF About
    <3> QED BY <2>2, <3>1, CountsAreNumbers
  <2> QED BY <2>1, <2>2
<1>6. ASSUME NEW e \in Filings
      PROVE  Cardinality(Naming(e)') = Cardinality(Naming(e))
                                         + (IF e \in candidates[t] THEN n ELSE 0)
  <2>1. CASE e \in candidates[t]
    <3>1. Naming(e)' = Naming(e) \cup ((l + 1) .. (l + n))
      BY <1>3, <1>4, <2>1 DEF Naming
    <3>2. Naming(e) \in SUBSET (1 .. l)
      BY <1>3 DEF Naming
    <3>3. Cardinality(Naming(e) \cup ((l + 1) .. (l + n))) = Cardinality(Naming(e)) + n
      BY <1>3, <3>2, n \in Nat, GrownSet, Zenon
    <3> QED BY <2>1, <3>1, <3>3
  <2>2. CASE e \notin candidates[t]
    <3>1. Naming(e)' = Naming(e)
      BY <1>3, <1>4, <2>2 DEF Naming
    <3> QED BY <2>2, <3>1, CountsAreNumbers
  <2> QED BY <2>1, <2>2
<1> QED BY <1>4, <1>5, <1>6 DEF Grown

\* The outcomes of an alert: it is recorded, and its first embed is the one that
\* counts, or it is not, and whatever reached the channel is lost.
LEMMA AlertEffect ==
  ASSUME Types, NEW t \in left, Alert(t)
  PROVE  /\ mishaps' \in [MishapKinds -> Nat]
         /\ \E n \in Nat :
              /\ Grown(t, n)
              /\ \/ /\ Record(t) /\ 1 <= n
                    /\ Lost' \in Nat /\ n + Lost <= Lost' + 1 /\ Lost <= Lost'
                    /\ Clean' => Clean
                 \/ /\ draft' = draft
                    /\ Lost' \in Nat /\ n + Lost <= Lost'
                    /\ ~ Clean'
<1>1. t \in DOMAIN candidates /\ mishaps \in [MishapKinds -> Nat]
  BY DEF Types, ClusterOK, ClusterTypeOK
<1>2. PICK answer \in Answer :
        /\ Answered(answer) /\ Announce(t, answer.copies)
        /\ IF answer.returned THEN Record(t) ELSE UNCHANGED draft
  BY DEF Alert
<1>3. /\ answer.copies \in Nat /\ answer.returned \in BOOLEAN
      /\ answer.returned => answer.copies > 0
  BY DEF Answer, MaxCopies
<1>4. Grown(t, answer.copies)
  BY <1>1, <1>2, <1>3, AnnounceEffect
<1>5. /\ mishaps' \in [MishapKinds -> Nat] /\ Lost \in Nat /\ Lost' \in Nat
      /\ IF answer.returned
         THEN answer.copies + Lost <= Lost' + 1 /\ Lost <= Lost' /\ (Clean' => Clean)
         ELSE answer.copies + Lost <= Lost' /\ ~ Clean'
  <2>1. CASE answer.copies = 0
    BY <1>1, <1>2, <1>3, <2>1, MishapEffect DEF Answered, MishapKinds
  <2>2. CASE answer.copies # 0
    BY <1>1, <1>2, <1>3, <2>2 DEF Answered, Unconfirmed, MishapKinds, Lost, Clean
  <2> QED BY <2>1, <2>2
<1>6. CASE answer.returned
  <2>1. 1 <= answer.copies
    BY <1>3, <1>6
  <2> QED BY <1>2, <1>3, <1>4, <1>5, <1>6, <2>1, Zenon
<1>7. CASE ~ answer.returned
  BY <1>2, <1>3, <1>4, <1>5, <1>7, Zenon
<1> QED BY <1>6, <1>7

-----------------------------------------------------------------------------
(* Each step keeps the invariant                                            *)

LEMMA InitCInv == ClusterInit => CInv
<1> SUFFICES ASSUME ClusterInit PROVE CInv
  OBVIOUS
<1> USE DEF ClusterInit, DbInit
<1>1. alerts \in Seq(Embed) /\ DOMAIN alerts = {}
  BY EmptySeq
<1>2. DbTypeOK
  <2>1. [FreshRow EXCEPT !.status = "absent"] \in Row
    BY DEF FreshRow, Row, Status, MaxRetries
  <2>2. \A c \in Clients : Locked(c) = {} /\ session[c] \in [Locked(c) -> Row]
    BY DEF NoRows, Locked
  <2> QED BY <2>1, <2>2 DEF DbTypeOK
<1>3. DOMAIN candidates = {}
  BY DEF NoCandidates
<1>4. Types
  BY <1>1, <1>2, <1>3, FS_EmptySet, MaxSettledAssumption
     DEF Types, ClusterOK, ClusterTypeOK, MishapKinds
<1>5. Dated /\ Spaced(draft) /\ Spaced(clusters)
  BY <1>3, EventsAssumption DEF Dated, Spaced, FreshRow
<1>6. Handled
  BY <1>3 DEF Handled
<1>7. Lost = 0
  BY DEF Lost, MishapKinds
<1>8. ASSUME NEW t \in Tickers PROVE Counted(t)
  <2>1. Recorded(clusters, t) = {} /\ About(t) = {}
    BY <1>1 DEF Recorded, About
  <2>2. Cardinality(Recorded(clusters, t)) = 0 /\ Cardinality(About(t)) = 0
    BY <2>1, FS_EmptySet
  <2> QED BY <1>7, <2>2 DEF Counted
<1>9. ASSUME NEW e \in Filings PROVE NamedOnce(e)
  <2>1. Naming(e) = {} /\ ~ Remembered(Table, e)
    BY <1>1 DEF Naming, Remembered, Table
  <2> QED BY <1>7, <2>1, FS_EmptySet DEF NamedOnce
<1> QED BY <1>4, <1>5, <1>6, <1>8, <1>9 DEF CInv

\* The surroundings: time passes, events arrive and are settled.
LEMMA QuietStep ==
  ASSUME CInv, UNCHANGED <<phase, started, candidates, left, draft, clusters, alerts>>,
         DbTypeOK', due' \in BOOLEAN, settled' \in 0 .. MaxSettled, now <= now',
         \A e \in Events : row'[e].status # "absent" => FetchedAt[e] <= now',
         mishaps' \in [MishapKinds -> Nat], Lost' = Lost, Clean' => Clean
  PROVE  CInv'
<1>1. now \in Nat /\ now' \in Nat /\ started \in Nat
  BY DEF CInv, Types, ClusterOK, DbTypeOK, ClusterTypeOK
<1>2. ClusterTypeOK'
  BY <1>1 DEF CInv, Types, ClusterOK, ClusterTypeOK
<1>3. Types'
  BY <1>2 DEF CInv, Types, ClusterOK
<1>4. Dated'
  <2>1. \A c \in draft \cup clusters : c.created_at \in Nat
    BY DEF CInv, Types, ClusterOK, ClusterTypeOK, Cluster
  <2> QED BY <1>1, <2>1 DEF CInv, Dated
<1>5. Table' = Table
  BY DEF Table
<1>6. ASSUME NEW t \in Tickers PROVE Counted(t)'
  BY DEF CInv, Counted, About, Recorded
<1>7. ASSUME NEW e \in Filings PROVE NamedOnce(e)'
  BY <1>5 DEF CInv, NamedOnce, Naming, Remembered
<1>8. Handled'
  BY <1>5 DEF CInv, Handled, Covered
<1>9. Spaced(draft)' /\ Spaced(clusters)'
  BY DEF CInv, Spaced
<1> QED BY <1>3, <1>4, <1>6, <1>7, <1>8, <1>9 DEF CInv

LEMMA InsertCInv ==
  ASSUME CInv, NEW e \in Events, Insert(e), UNCHANGED clusterVars PROVE CInv'
<1>1. DbTypeOK /\ Dated
  BY DEF CInv, Types, ClusterOK
<1>2. now \in Nat /\ row' \in [Events -> Row]
  BY <1>1 DEF DbTypeOK, Insert, Row, FreshRow, Status, MaxRetries
<1>3. DbTypeOK'
  BY <1>1, <1>2 DEF Insert, DbTypeOK, Locked
<1>4. \A f \in Events : row'[f].status # "absent" => FetchedAt[f] <= now'
  BY <1>1 DEF Insert, DbTypeOK, Dated
<1>5. /\ UNCHANGED <<phase, due, started, candidates, left, draft, clusters, alerts, mishaps, settled>>
      /\ now' = now
  BY DEF Insert, clusterVars, scanVars
<1>6. Lost' = Lost /\ Clean' = Clean
  BY <1>5 DEF Lost, Clean
<1> QED BY <1>2, <1>3, <1>4, <1>5, <1>6, QuietStep DEF CInv, Types, ClusterOK, ClusterTypeOK

LEMMA SettleCInv == ASSUME CInv, NEW e \in Events, Settle(e) PROVE CInv'
<1>1. DbTypeOK /\ Dated
  BY DEF CInv, Types, ClusterOK
<1>2. PICK s \in Status : row[e].status # "absent" /\ row' = [row EXCEPT ![e].status = s]
  BY <1>1 DEF Settle, Status
<1>3. row' \in [Events -> Row]
  BY <1>1, <1>2 DEF DbTypeOK, Row
<1>4. now \in Nat /\ DbTypeOK'
  BY <1>1, <1>3 DEF Settle, DbTypeOK, Locked
<1>5. \A f \in Events : row'[f].status # "absent" => FetchedAt[f] <= now'
  BY <1>1, <1>2 DEF Settle, DbTypeOK, Dated, Row
<1>6. /\ UNCHANGED <<phase, due, started, candidates, left, draft, clusters, alerts, mishaps>>
      /\ now' = now
  BY DEF Settle, scanVars
<1>7. Lost' = Lost /\ Clean' = Clean
  BY <1>6 DEF Lost, Clean
<1>8. settled' \in 0 .. MaxSettled
  BY MaxSettledAssumption DEF Settle, CInv, Types, ClusterOK, ClusterTypeOK
<1> QED
  BY <1>4, <1>5, <1>6, <1>7, <1>8, QuietStep DEF CInv, Types, ClusterOK, ClusterTypeOK

LEMMA RequeueCInv ==
  ASSUME CInv, RequeueFailed, Mishap("requeue"),
         UNCHANGED <<scanVars, clusters, alerts, settled>>
  PROVE  CInv'
<1>1. DbTypeOK /\ Dated /\ mishaps \in [MishapKinds -> Nat]
  BY DEF CInv, Types, ClusterOK, ClusterTypeOK
<1>2. row' \in [Events -> Row]
  <2>1. ASSUME NEW r \in Row PROVE [r EXCEPT !.status = "new", !.retry = 0] \in Row
    <3>1. 0 \in 0 .. MaxRetries /\ "new" \in Status
      BY DEF MaxRetries, Status
    <3> QED BY <3>1 DEF Row
  <2> QED BY <1>1, <2>1 DEF RequeueFailed, DbTypeOK
<1>3. now \in Nat /\ DbTypeOK'
  BY <1>1, <1>2 DEF RequeueFailed, DbTypeOK, Locked
<1>4. \A f \in Events : row'[f].status # "absent" => FetchedAt[f] <= now'
  BY <1>1 DEF RequeueFailed, Dated
<1>5. /\ UNCHANGED <<phase, due, started, candidates, left, draft, clusters, alerts, settled>>
      /\ now' = now
  BY DEF RequeueFailed, scanVars
<1>6. mishaps' \in [MishapKinds -> Nat] /\ Lost' = Lost /\ (Clean' => Clean)
  BY <1>1, MishapEffect DEF MishapKinds
<1> QED BY <1>3, <1>4, <1>5, <1>6, QuietStep DEF CInv, Types, ClusterOK, ClusterTypeOK

LEMMA TickCInv == ASSUME CInv, Tick PROVE CInv'
<1>1. DbTypeOK /\ Dated /\ now \in Nat /\ now' = now + 1
  BY DEF CInv, Types, ClusterOK, DbTypeOK, Tick, AdvanceClock
<1>2. DbTypeOK'
  BY <1>1 DEF DbTypeOK, Tick, AdvanceClock, Locked
<1>3. \A f \in Events : row'[f].status # "absent" => FetchedAt[f] <= now'
  BY <1>1, FetchedAtAssumption DEF Dated, Tick, AdvanceClock
<1>4. /\ UNCHANGED <<phase, started, candidates, left, draft, clusters, alerts, mishaps, settled>>
      /\ due' \in BOOLEAN
  BY DEF Tick
<1>5. Lost' = Lost /\ Clean' = Clean
  BY <1>4 DEF Lost, Clean
<1> QED
  BY <1>1, <1>2, <1>3, <1>4, <1>5, QuietStep DEF CInv, Types, ClusterOK, ClusterTypeOK

\* A scan starts from the committed rows, with all that lies in its window to do.
LEMMA StartScanCInv == ASSUME CInv, StartScan PROVE CInv'
<1>1. /\ phase = "idle" /\ phase' \in {"scan", "commit"} /\ due' = FALSE /\ started' = now
      /\ candidates' = FindForm4Clusters(now - ClusterWindow) /\ left' = DOMAIN candidates'
      /\ phase' = "commit" => left' = {}
      /\ draft' = clusters
      /\ UNCHANGED <<row, session, keyShare, now, clusters, alerts, mishaps, settled>>
  BY DEF StartScan, dbVars
<1>2. /\ Types /\ DbTypeOK /\ ClusterTypeOK /\ now \in Nat /\ Lost' = Lost
  BY <1>1 DEF CInv, Types, ClusterOK, DbTypeOK, Lost
<1>3. /\ DOMAIN candidates' \subseteq Tickers
      /\ \A t \in DOMAIN candidates' : candidates'[t] = Members(t, now - ClusterWindow)
  BY <1>1 DEF FindForm4Clusters
<1>4. Types'
  <2>1. DbTypeOK'
    BY <1>1, <1>2 DEF DbTypeOK, Locked
  <2>2. \A t \in DOMAIN candidates' : candidates'[t] \subseteq Filings
    BY <1>3 DEF Members
  <2>3. started' \in 0 .. now' /\ left' \subseteq DOMAIN candidates' /\ draft' \subseteq Cluster
    BY <1>1, <1>2 DEF ClusterTypeOK
  <2>4. ClusterTypeOK'
    BY <1>1, <1>2, <1>3, <2>2, <2>3 DEF ClusterTypeOK
  <2> QED BY <1>1, <1>2, <2>1, <2>4 DEF Types, ClusterOK
<1>5. Dated'
  <2>1. ASSUME NEW t \in DOMAIN candidates', NEW e \in candidates'[t]
        PROVE  /\ Ticker[e] = t
               /\ started' - ClusterWindow <= FetchedAt[e] /\ FetchedAt[e] <= started'
    <3>1. /\ e \in Events /\ FetchedAt[e] >= now - ClusterWindow /\ Ticker[e] = t
          /\ row[e].status # "absent"
      BY <1>3 DEF Members, Filings, ClusterStatuses
    <3> QED BY <1>1, <1>2, <3>1, FetchedAtAssumption, ClusterWindowAssumption DEF CInv, Dated
  <2> QED BY <1>1, <2>1 DEF CInv, Dated
<1>6. Table' = Table /\ Spaced(draft)' /\ Spaced(clusters)'
  BY <1>1 DEF CInv, Table, Spaced
<1>7. ASSUME NEW t \in Tickers PROVE Counted(t)'
  <2>1. About(t)' = About(t) /\ Recorded(clusters, t)' = Recorded(clusters, t)
        /\ Recorded(draft, t)' = Recorded(clusters, t)
    BY <1>1 DEF About, Recorded
  <2>2. Counted(t) /\ Cardinality(Recorded(clusters, t)) \in Nat
    BY CountsAreNumbers DEF CInv
  <2> QED BY <1>1, <1>2, <2>1, <2>2 DEF Counted
<1>8. ASSUME NEW e \in Filings PROVE NamedOnce(e)'
  <2>1. Naming(e)' = Naming(e) /\ Remembered(Table, e)' = Remembered(Table, e)
    BY <1>1, <1>6 DEF Naming, Remembered
  <2> QED BY <1>2, <2>1 DEF CInv, NamedOnce
<1>9. Handled'
  BY <1>1 DEF Handled
<1> QED BY <1>4, <1>5, <1>6, <1>7, <1>8, <1>9 DEF CInv

\* What a step of the loop leaves to show.
LEMMA LoopTypes ==
  ASSUME Types, NEW t \in left, phase = "scan", NextTicker(t),
         draft' \subseteq Cluster, IsFiniteSet(draft'),
         alerts' \in Seq(Embed), mishaps' \in [MishapKinds -> Nat]
  PROVE  /\ Types'
         /\ phase' # "idle" /\ left' = left \ {t}
         /\ UNCHANGED <<row, now, started, candidates, clusters>>
         /\ t \in DOMAIN candidates /\ t \in Tickers
         /\ started \in Nat /\ now \in Nat /\ started <= now
<1>1. /\ phase' \in {"scan", "commit"} /\ left' = left \ {t}
      /\ phase' = "commit" => left' = {}
      /\ UNCHANGED <<row, session, keyShare, now, due, started, candidates, clusters, settled>>
  BY DEF NextTicker, dbVars
<1>2. DbTypeOK /\ ClusterTypeOK /\ now \in Nat
  BY DEF Types, ClusterOK, DbTypeOK
<1>3. DbTypeOK'
  BY <1>1, <1>2 DEF DbTypeOK, Locked
<1>4. \A i \in DOMAIN alerts' : alerts'[i] \in Embed
  BY LenProperties, ElementOfSeq
<1>5. ClusterTypeOK'
  BY <1>1, <1>2, <1>4 DEF ClusterTypeOK, Embed
<1>6. Types'
  BY <1>1, <1>3, <1>5 DEF Types, ClusterOK
<1> QED BY <1>1, <1>2, <1>6 DEF ClusterTypeOK

\* An open row takes the members of the scan; it keeps its ticker and its age, by
\* which the other rows of the ticker differ from it.
LEMMA RefreshCInv == ASSUME CInv, NEW t \in left, Refresh(t) PROVE CInv'
<1>1. PICK c \in OpenClusters(t) : draft' = (draft \ {c}) \cup {Refreshed(c)}
  BY DEF Refresh
<1> DEFINE r == Refreshed(c)
<1>2. /\ Types /\ phase = "scan" /\ NextTicker(t)
      /\ alerts' = alerts /\ mishaps' = mishaps /\ Lost' = Lost /\ Clean' = Clean
  BY DEF CInv, Refresh, Lost, Clean
<1>3. /\ c \in draft /\ c \in Cluster /\ c.ticker = t
      /\ c.created_at >= started - ClusterWindow
  BY <1>2 DEF OpenClusters, Types, ClusterOK, ClusterTypeOK
<1>4. /\ r \in Cluster /\ r.ticker = t /\ r.created_at = c.created_at
      /\ r.members = candidates[t]
  <2>1. t \in DOMAIN candidates /\ candidates[t] \in SUBSET Filings /\ started \in Nat
    BY <1>2 DEF Types, ClusterOK, DbTypeOK, ClusterTypeOK
  <2> QED BY <1>3, <2>1 DEF Refreshed, Cluster
<1> HIDE DEF r
<1>5. draft' = (draft \ {c}) \cup {r}
  BY <1>1 DEF r
<1>6. draft' \subseteq Cluster /\ IsFiniteSet(draft')
  <2>1. IsFiniteSet(draft \ {c})
    BY <1>2, FS_RemoveElement DEF Types
  <2>2. IsFiniteSet(draft')
    BY <1>5, <2>1, FS_AddElement
  <2> QED BY <1>2, <1>4, <1>5, <2>2 DEF Types, ClusterOK, ClusterTypeOK
<1>7. /\ Types' /\ phase' # "idle" /\ left' = left \ {t}
      /\ UNCHANGED <<row, now, started, candidates, clusters>>
      /\ t \in DOMAIN candidates /\ t \in Tickers
  <2>1. alerts' \in Seq(Embed) /\ mishaps' \in [MishapKinds -> Nat]
    BY <1>2 DEF Types, ClusterOK, ClusterTypeOK
  <2> QED BY <1>2, <1>6, <2>1, LoopTypes
<1>8. Dated'
  BY <1>3, <1>4, <1>5, <1>7 DEF CInv, Dated
<1>9. Spaced(draft)' /\ Spaced(clusters)'
  BY <1>3, <1>4, <1>5, <1>7 DEF CInv, Spaced
<1>10. Table = draft /\ Table' = draft'
  BY <1>2, <1>7 DEF Table
<1>11. ASSUME NEW s \in Tickers PROVE Counted(s)'
  <2>1. About(s)' = About(s) /\ Recorded(clusters, s)' = Recorded(clusters, s)
    BY <1>2, <1>7 DEF About, Recorded
  <2>2. Cardinality(Recorded(draft, s)') = Cardinality(Recorded(draft, s))
    <3>1. CASE s = t
      <4>1. r \notin Recorded(draft, t) \ {c}
        BY <1>3, <1>4, ClusterWindowAssumption DEF CInv, Spaced, Recorded, Cluster
      <4>2. Recorded(draft, t)' = (Recorded(draft, t) \ {c}) \cup {r} /\ c \in Recorded(draft, t)
        BY <1>3, <1>4, <1>5 DEF Recorded
      <4>3. Recorded(draft, t) \in SUBSET draft
        BY DEF Recorded
      <4>4. IsFiniteSet(Recorded(draft, t)) /\ Cardinality(Recorded(draft, t)) \in Nat
        BY <1>2, <4>3, FS_Subset, FS_CardinalityType DEF Types
      <4>5. /\ IsFiniteSet(Recorded(draft, t) \ {c})
            /\ Cardinality(Recorded(draft, t) \ {c}) = Cardinality(Recorded(draft, t)) - 1
        BY <4>2, <4>4, FS_RemoveElement
      <4>6. Cardinality((Recorded(draft, t) \ {c}) \cup {r})
              = Cardinality(Recorded(draft, t) \ {c}) + 1
        BY <4>1, <4>5, FS_AddElement
      <4> QED BY <3>1, <4>2, <4>4, <4>5, <4>6
    <3>2. CASE s # t
      <4>1. Recorded(draft, s)' = Recorded(draft, s)
        BY <1>3, <1>4, <1>5, <3>2 DEF Recorded
      <4> QED BY <4>1
    <3> QED BY <3>1, <3>2
  <2>3. Counted(s) /\ Cardinality(Recorded(clusters, s)) \in Nat
    BY CountsAreNumbers DEF CInv
  <2>4. Cardinality(Recorded(draft, s)) \in Nat
    BY <1>2, CountsAreNumbers
  <2> QED BY <1>2, <1>7, <2>1, <2>2, <2>3, <2>4 DEF Counted
<1>12. ASSUME NEW e \in Filings PROVE NamedOnce(e)'
  <2>1. Naming(e)' = Naming(e) /\ (Remembered(Table, e) <=> Remembered(Table, e)')
    BY <1>2, <1>3, <1>4, <1>5, <1>10 DEF Naming, Remembered
  <2> QED BY <1>2, <2>1 DEF CInv, NamedOnce
<1>13. Handled'
  <2>1. ASSUME Clean, NEW s \in DOMAIN candidates, s \notin left \/ s = t
        PROVE  Covered(Table, s)'
    <3>1. CASE s = t
      BY <1>3, <1>4, <1>5, <1>7, <1>10, <3>1 DEF Covered
    <3>2. CASE s # t
      <4>1. PICK d \in draft : /\ d.ticker = s /\ d.created_at >= started - ClusterWindow
                               /\ d.members = candidates[s]
        BY <1>2, <1>10, <2>1, <3>2 DEF CInv, Handled, Covered
      <4>2. d \in draft'
        BY <1>3, <1>5, <3>2, <4>1
      <4> QED BY <1>7, <1>10, <4>1, <4>2 DEF Covered
    <3> QED BY <3>1, <3>2
  <2> QED BY <1>2, <1>7, <2>1 DEF Handled
<1> QED BY <1>7, <1>8, <1>9, <1>11, <1>12, <1>13 DEF CInv

\* An alert: there is no open row, so none that remembers a filing it names; the new
\* row is dated after the scan began and remembers all of them.
LEMMA AlertCInv == ASSUME CInv, NEW t \in left, Alert(t) PROVE CInv'
<1> DEFINE r == [ticker |-> t, members |-> candidates[t],
                 window_start |-> started - ClusterWindow, window_end |-> started,
                 created_at |-> now]
<1>1. /\ Types /\ phase = "scan" /\ NextTicker(t) /\ OpenClusters(t) = {} /\ Lost \in Nat
      /\ t \in DOMAIN candidates
  BY CountsAreNumbers DEF CInv, Alert, Types, ClusterOK, ClusterTypeOK
<1>2. PICK n \in Nat :
        /\ Grown(t, n)
        /\ \/ /\ draft' = draft \cup {r} /\ 1 <= n
              /\ Lost' \in Nat /\ n + Lost <= Lost' + 1 /\ Lost <= Lost'
              /\ Clean' => Clean
           \/ /\ draft' = draft
              /\ Lost' \in Nat /\ n + Lost <= Lost'
              /\ ~ Clean'
  BY <1>1, AlertEffect DEF Record
<1>3. mishaps' \in [MishapKinds -> Nat]
  BY <1>1, AlertEffect
<1>4. r \in Cluster
  <2>1. /\ t \in Tickers /\ candidates[t] \in SUBSET Filings
        /\ started \in Nat /\ now \in Nat /\ started - ClusterWindow \in Int
    BY <1>1, ClusterWindowAssumption DEF Types, ClusterOK, DbTypeOK, ClusterTypeOK
  <2> QED BY <2>1 DEF Cluster
<1>5. /\ r.ticker = t /\ r.created_at = now /\ r.members = candidates[t]
  OBVIOUS
<1> HIDE DEF r
<1>6. draft' \subseteq Cluster /\ IsFiniteSet(draft')
  <2>1. IsFiniteSet(draft \cup {r})
    BY <1>1, FS_AddElement DEF Types
  <2> QED BY <1>1, <1>2, <1>4, <2>1 DEF Types, ClusterOK, ClusterTypeOK
<1>7. /\ Types' /\ phase' # "idle" /\ left' = left \ {t}
      /\ UNCHANGED <<row, now, started, candidates, clusters>>
      /\ t \in DOMAIN candidates /\ t \in Tickers
      /\ started \in Nat /\ now \in Nat /\ started <= now
  BY <1>1, <1>2, <1>3, <1>6, LoopTypes DEF Grown
<1>8. \A c \in draft : c.ticker = t => c.created_at \in Nat /\ c.created_at < started - ClusterWindow
  <2>1. \A c \in draft : c.created_at \in Nat
    BY <1>1 DEF Types, ClusterOK, ClusterTypeOK, Cluster
  <2> QED BY <1>1, <1>7, <2>1, ClusterWindowAssumption DEF OpenClusters
<1>9. Dated'
  BY <1>2, <1>5, <1>7 DEF CInv, Dated
<1>10. Spaced(draft)' /\ Spaced(clusters)'
  <2>1. Spaced(draft) /\ Spaced(clusters)
    BY DEF CInv
  <2>2. Spaced(draft \cup {r})
    BY <1>5, <1>7, <1>8, <2>1, ClusterWindowAssumption DEF Spaced
  <2> QED BY <1>2, <1>7, <2>1, <2>2 DEF Spaced
<1>11. Table = draft /\ Table' = draft'
  BY <1>1, <1>7 DEF Table
<1>12. ASSUME NEW s \in Tickers PROVE Counted(s)'
  <2>1. Counted(s) /\ Recorded(clusters, s)' = Recorded(clusters, s)
    BY <1>7 DEF CInv, Recorded
  <2>2. /\ Cardinality(About(s)) \in Nat
        /\ Cardinality(Recorded(clusters, s)) \in Nat /\ Cardinality(Recorded(draft, s)) \in Nat
        /\ Cardinality(About(s)') = Cardinality(About(s)) + (IF s = t THEN n ELSE 0)
    BY <1>1, <1>2, CountsAreNumbers DEF Grown
  <2>3. CASE draft' = draft
    <3>1. Recorded(draft, s)' = Recorded(draft, s)
      BY <2>3 DEF Recorded
    <3>2. CASE s = t
      <4>1. t \notin left' /\ t \in left /\ Lost' \in Nat
        BY <1>2, <1>7
      <4>2. Lost <= Lost' /\ n + Lost <= Lost' + 1 /\ (n + Lost <= Lost' \/ r \in draft)
        BY <1>1, <1>2, <2>3
      <4>3. r \notin draft
        BY <1>5, <1>7, <1>8, ClusterWindowAssumption
      <4> QED BY <1>1, <1>7, <2>1, <2>2, <3>1, <3>2, <4>1, <4>2, <4>3 DEF Counted
    <3>3. CASE s # t
      <4>1. Lost <= Lost' /\ Lost' \in Nat
        BY <1>1, <1>2
      <4> QED BY <1>1, <1>7, <2>1, <2>2, <3>1, <3>3, <4>1 DEF Counted
    <3> QED BY <3>2, <3>3
  <2>4. CASE draft' = draft \cup {r} /\ s # t
    <3>1. Recorded(draft, s)' = Recorded(draft, s)
      BY <1>5, <2>4 DEF Recorded
    <3> QED BY <1>1, <1>2, <1>7, <2>1, <2>2, <2>4, <3>1 DEF Counted
  <2>5. CASE draft' = draft \cup {r} /\ s = t
    <3>1. Recorded(draft, t)' = Recorded(draft, t) \cup {r}
      BY <1>5, <2>5 DEF Recorded
    <3>2. r \notin Recorded(draft, t)
      BY <1>5, <1>7, <1>8, ClusterWindowAssumption DEF Recorded
    <3>3. Recorded(draft, t) \in SUBSET draft
      BY DEF Recorded
    <3>4. Cardinality(Recorded(draft, t)') = Cardinality(Recorded(draft, t)) + 1
      BY <1>1, <3>1, <3>2, <3>3, FS_Subset, FS_AddElement DEF Types
    <3>5. r \notin draft
      BY <1>5, <3>2 DEF Recorded
    <3> QED BY <1>1, <1>2, <1>7, <2>1, <2>2, <2>5, <3>4, <3>5 DEF Counted
  <2> QED BY <1>2, <2>3, <2>4, <2>5
<1>13. ASSUME NEW e \in Filings PROVE NamedOnce(e)'
  <2>1. /\ NamedOnce(e) /\ Cardinality(Naming(e)) \in Nat
        /\ Cardinality(Naming(e)') = Cardinality(Naming(e))
                                       + (IF e \in candidates[t] THEN n ELSE 0)
    BY <1>1, <1>2, CountsAreNumbers DEF CInv, Grown
  <2>2. Remembered(Table, e) => Remembered(Table, e)'
    BY <1>2, <1>11 DEF Remembered
  <2>3. CASE e \in candidates[t]
    <3>1. /\ Ticker[e] = t /\ FetchedAt[e] \in Nat
          /\ started - ClusterWindow <= FetchedAt[e] /\ FetchedAt[e] <= started
      BY <1>1, <2>3, FetchedAtAssumption DEF CInv, Dated, Filings
    <3>2. ~ Remembered(Table, e)
      BY <1>7, <1>8, <1>11, <3>1, ClusterWindowAssumption DEF Remembered
    <3>3. draft' = draft \cup {r} => Remembered(Table, e)'
      BY <1>5, <1>7, <1>11, <3>1 DEF Remembered
    <3> QED BY <1>1, <1>2, <2>1, <2>3, <3>2, <3>3 DEF NamedOnce
  <2>4. CASE e \notin candidates[t]
    BY <1>1, <1>2, <2>1, <2>2, <2>4 DEF NamedOnce
  <2> QED BY <2>3, <2>4
<1>14. Handled'
  <2>1. ASSUME Clean', NEW s \in DOMAIN candidates, s \notin left \/ s = t
        PROVE  Covered(Table, s)'
    <3>1. Clean /\ draft' = draft \cup {r}
      BY <1>2, <2>1
    <3>2. CASE s = t
      BY <1>5, <1>7, <1>11, <3>1, <3>2, ClusterWindowAssumption DEF Covered
    <3>3. CASE s # t
      BY <1>1, <1>7, <1>11, <2>1, <3>1, <3>3 DEF CInv, Handled, Covered
    <3> QED BY <3>2, <3>3
  <2> QED BY <1>7, <2>1 DEF Handled
<1> QED BY <1>7, <1>9, <1>10, <1>12, <1>13, <1>14 DEF CInv

\* The end of a scan: either its rows stay, or none of them does.
LEMMA EndScanTypes ==
  ASSUME Types, EndScan, clusters' \in {clusters, draft}, mishaps' \in [MishapKinds -> Nat],
         \/ UNCHANGED <<candidates, left>> /\ left = {}
         \/ candidates' = NoCandidates /\ left' = {}
  PROVE  /\ Types' /\ phase' = "idle" /\ draft' = {}
         /\ UNCHANGED <<row, now, started, alerts>>
<1>1. /\ phase' = "idle" /\ draft' = {}
      /\ UNCHANGED <<row, session, keyShare, now, due, started, alerts, settled>>
  BY DEF EndScan, dbVars
<1>2. DbTypeOK /\ ClusterTypeOK
  BY DEF Types, ClusterOK
<1>3. DbTypeOK'
  BY <1>1, <1>2 DEF DbTypeOK, Locked
<1>4. /\ left' \subseteq DOMAIN candidates' /\ DOMAIN candidates' \subseteq Tickers
      /\ \A t \in DOMAIN candidates' : candidates'[t] \subseteq Filings
  <2>1. DOMAIN NoCandidates = {}
    BY DEF NoCandidates
  <2> QED BY <1>2, <2>1 DEF ClusterTypeOK
<1>5. ClusterTypeOK'
  BY <1>1, <1>2, <1>4 DEF ClusterTypeOK
<1>6. IsFiniteSet(draft') /\ IsFiniteSet(clusters') /\ alerts' \in Seq(Embed)
  BY <1>1, FS_EmptySet DEF Types
<1> QED BY <1>1, <1>3, <1>5, <1>6 DEF Types, ClusterOK

LEMMA CommitScanCInv == ASSUME CInv, CommitScan PROVE CInv'
<1>1. /\ Types /\ phase = "commit" /\ left = {} /\ clusters' = draft
      /\ UNCHANGED <<candidates, left, mishaps>> /\ EndScan
  BY DEF CInv, CommitScan, Types
<1>2. /\ Types' /\ phase' = "idle" /\ draft' = {}
      /\ UNCHANGED <<row, now, started, alerts>> /\ Lost' = Lost /\ Clean' = Clean
  <2>1. mishaps' \in [MishapKinds -> Nat]
    BY <1>1 DEF Types, ClusterOK, ClusterTypeOK
  <2> QED BY <1>1, <2>1, EndScanTypes DEF Lost, Clean
<1>3. Table = draft /\ Table' = draft
  BY <1>1, <1>2 DEF Table
<1>4. Dated' /\ Spaced(draft)' /\ Spaced(clusters)'
  BY <1>1, <1>2 DEF CInv, Dated, Spaced
<1>5. ASSUME NEW t \in Tickers PROVE Counted(t)'
  <2>1. About(t)' = About(t) /\ Recorded(clusters, t)' = Recorded(draft, t)
    BY <1>1, <1>2 DEF About, Recorded
  <2> QED BY <1>1, <1>2, <2>1 DEF CInv, Counted
<1>6. ASSUME NEW e \in Filings PROVE NamedOnce(e)'
  <2>1. Naming(e)' = Naming(e) /\ Remembered(Table, e)' = Remembered(Table, e)
    BY <1>2, <1>3 DEF Naming, Remembered
  <2> QED BY <1>2, <2>1 DEF CInv, NamedOnce
<1>7. Handled'
  BY <1>1, <1>2, <1>3 DEF CInv, Handled, Covered
<1> QED BY <1>2, <1>4, <1>5, <1>6, <1>7 DEF CInv

LEMMA AbortScanCInv == ASSUME CInv, AbortScan PROVE CInv'
<1>1. /\ Types /\ phase # "idle" /\ clusters' = clusters
      /\ candidates' = NoCandidates /\ left' = {} /\ Mishap("stop") /\ EndScan
  BY DEF CInv, AbortScan
<1>2. mishaps' \in [MishapKinds -> Nat] /\ Lost \in Nat /\ Lost' = Lost + 1
  BY <1>1, MishapEffect DEF Types, ClusterOK, ClusterTypeOK, MishapKinds
<1>3. /\ Types' /\ phase' = "idle" /\ draft' = {}
      /\ UNCHANGED <<row, now, started, alerts>> /\ DOMAIN candidates' = {}
  BY <1>1, <1>2, EndScanTypes DEF NoCandidates
<1>4. Dated' /\ Spaced(draft)' /\ Spaced(clusters)' /\ Handled'
  BY <1>1, <1>3 DEF CInv, Dated, Spaced, Handled
<1>5. ASSUME NEW t \in Tickers PROVE Counted(t)'
  <2>1. About(t)' = About(t) /\ Recorded(clusters, t)' = Recorded(clusters, t)
    BY <1>1, <1>3 DEF About, Recorded
  <2>2. /\ Cardinality(About(t)) \in Nat
        /\ Cardinality(Recorded(clusters, t)) \in Nat /\ Cardinality(Recorded(draft, t)) \in Nat
    BY <1>1, CountsAreNumbers
  <2> QED BY <1>1, <1>2, <1>3, <2>1, <2>2 DEF CInv, Counted
<1>6. ASSUME NEW e \in Filings PROVE NamedOnce(e)'
  <2>1. Naming(e)' = Naming(e) /\ Cardinality(Naming(e)) \in Nat
    BY <1>1, <1>3, CountsAreNumbers DEF Naming
  <2> QED BY <1>2, <2>1 DEF CInv, NamedOnce
<1> QED BY <1>3, <1>4, <1>5, <1>6 DEF CInv

LEMMA NextCInv == ASSUME CInv, [ClusterNext]_cvars PROVE CInv'
<1>1. CASE StartScan
  BY <1>1, StartScanCInv
<1>2. ASSUME NEW t \in left, Refresh(t) PROVE CInv'
  BY <1>2, RefreshCInv
<1>3. ASSUME NEW t \in left, Alert(t) PROVE CInv'
  BY <1>3, AlertCInv
<1>4. CASE CommitScan
  BY <1>4, CommitScanCInv
<1>5. CASE AbortScan
  BY <1>5, AbortScanCInv
<1>6. CASE Tick
  BY <1>6, TickCInv
<1>7. ASSUME NEW e \in Events, Insert(e), UNCHANGED clusterVars PROVE CInv'
  BY <1>7, InsertCInv
<1>8. ASSUME NEW e \in Events, Settle(e) PROVE CInv'
  BY <1>8, SettleCInv
<1>9. ASSUME RequeueFailed, Mishap("requeue"), UNCHANGED <<scanVars, clusters, alerts, settled>>
      PROVE  CInv'
  BY <1>9, RequeueCInv
<1>10. CASE UNCHANGED cvars
  <2>1. /\ UNCHANGED <<row, session, keyShare, now, phase, due, started, candidates, left>>
        /\ UNCHANGED <<draft, clusters, alerts, mishaps, settled>>
    BY <1>10 DEF cvars, dbVars, clusterVars, scanVars
  <2>2. DbTypeOK /\ ClusterTypeOK /\ now \in Nat
    BY DEF CInv, Types, ClusterOK, DbTypeOK
  <2>3. DbTypeOK' /\ due' \in BOOLEAN /\ settled' \in 0 .. MaxSettled
        /\ mishaps' \in [MishapKinds -> Nat]
    BY <2>1, <2>2 DEF DbTypeOK, Locked, ClusterTypeOK
  <2>4. Lost' = Lost /\ Clean' = Clean
    BY <2>1 DEF Lost, Clean
  <2> QED BY <2>1, <2>2, <2>3, <2>4, QuietStep DEF CInv, Dated
<1> QED
  BY <1>1, <1>2, <1>3, <1>4, <1>5, <1>6, <1>7, <1>8, <1>9, <1>10 DEF ClusterNext, ClusterJob

-----------------------------------------------------------------------------
(* The theorems                                                             *)

LEMMA ClusterInv == ClusterSpec => []CInv
BY InitCInv, NextCInv, PTL DEF ClusterSpec

\* form4_clusters and the job stay within their types; clusters hold filings only.
THEOREM ClusterTypes == ClusterSpec => []ClusterOK
<1>1. CInv => ClusterOK
  BY DEF CInv, Types
<1> QED BY <1>1, ClusterInv, PTL

\* form4_cluster.py:18-20, for any window and scans of any length: when an alert is
\* recorded, every row of its ticker has left the window (AlertCInv).
THEOREM OneClusterIsOpen == ClusterSpec => []OneOpenCluster
<1>1. CInv => OneOpenCluster
  BY DEF CInv, Spaced, OneOpenCluster, Table
<1> QED BY <1>1, ClusterInv, PTL

\* Alerts and rows differ by no more than the lost runs and answers.
THEOREM AlertsAreRecorded == ClusterSpec => []AlertsMatchRecords
<1>1. ASSUME CInv PROVE AlertsMatchRecords
  BY <1>1 DEF CInv, Counted, About, Recorded, AlertsMatchRecords, Table
<1> QED BY <1>1, ClusterInv, PTL

\* A filing is announced twice only after a lost run or answer.
THEOREM AnnouncedOnce == ClusterSpec => []FilingsAreAnnouncedOnce
<1>1. ASSUME CInv, NEW e \in Filings PROVE Cardinality(Naming(e)) <= 1 + Lost
  <2>1. Lost \in Nat /\ Cardinality(Naming(e)) \in Nat
    BY <1>1, CountsAreNumbers DEF CInv
  <2> QED BY <1>1, <2>1 DEF CInv, NamedOnce
<1>2. CInv => FilingsAreAnnouncedOnce
  BY <1>1 DEF FilingsAreAnnouncedOnce, Naming
<1> QED BY <1>2, ClusterInv, PTL

\* As long as Discord takes the embeds, a scan leaves no ticker it found without a row.
THEOREM NothingIsLeftBehind == ClusterSpec => []ScansLeaveNothingBehind
<1>1. CInv => ScansLeaveNothingBehind
  BY DEF CInv, Handled, Clean, Covered, Table, ScansLeaveNothingBehind
<1> QED BY <1>1, ClusterInv, PTL
=============================================================================
