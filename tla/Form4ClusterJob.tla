--------------------------- MODULE Form4ClusterJob ---------------------------
(***************************************************************************)
(* The hourly scan for Form-4 clusters (notifier/form4_cluster.py) and its *)
(* query (processor/cluster.py): several filings about one ticker within a *)
(* window become one alert.  A scan is one transaction, committed after    *)
(* all its alerts are posted; the open rows of form4_clusters are what     *)
(* keeps the scans after it from alerting again.                           *)
(***************************************************************************)
EXTENDS RawEvents, Discord, Sequences

CONSTANTS
  SecForm4,        \* the source of the SEC poller's events
  ClusterWindow,   \* form4_cluster_window_h
  MinFilings,      \* threshold form4_cluster_min_filings
  MaxSettled,      \* bound on the status changes made by the other services
  MaxNow           \* bound on the clock

ASSUME ClusterWindowAssumption == ClusterWindow \in Nat
ASSUME MinFilingsAssumption == MinFilings \in Nat \ {0}
ASSUME MaxSettledAssumption == MaxSettled \in Nat

Filings == {e \in Events : Source[e] = SecForm4}
Tickers == {Ticker[e] : e \in Events} \ {None}

\* A row of form4_clusters; alerted_at is window_end as it was first written.
Cluster == [ticker : Tickers, members : SUBSET Filings,
            window_start : Int, window_end : Nat, created_at : Nat]

VARIABLES
  phase,        \* where the job awaits
  due,          \* the cron trigger of this hour has not been served
  started,      \* `now' of the last scan
  candidates,   \* what its query returned: members by ticker
  left,         \* the tickers its loop has not handled
  draft,        \* form4_clusters as its transaction sees it
  clusters,     \* the committed rows of form4_clusters
  alerts,       \* the embeds which reached the Discord channel, in order
  settled       \* status changes made by the other services so far

scanVars == <<phase, due, started, candidates, left, draft>>
clusterVars == <<scanVars, clusters, alerts, mishaps, settled>>
cvars == <<dbVars, clusterVars>>

NoCandidates == [t \in {} |-> {}]

ClusterTypeOK ==
  /\ phase \in {"idle", "scan", "commit"} /\ due \in BOOLEAN
  /\ started \in 0 .. now
  /\ DOMAIN candidates \subseteq Tickers
  /\ \A t \in DOMAIN candidates : candidates[t] \subseteq Filings
  /\ left \subseteq DOMAIN candidates
  /\ draft \subseteq Cluster /\ clusters \subseteq Cluster
  /\ \A i \in DOMAIN alerts : alerts[i] \in [ticker : Tickers, members : SUBSET Filings]
  /\ mishaps \in [MishapKinds -> Nat] /\ settled \in 0 .. MaxSettled

ClusterInit ==
  /\ DbInit
  /\ phase = "idle" /\ due = TRUE /\ started = 0
  /\ candidates = NoCandidates /\ left = {}
  /\ draft = {} /\ clusters = {} /\ alerts = <<>>
  /\ mishaps = [k \in MishapKinds |-> 0] /\ settled = 0

-----------------------------------------------------------------------------
(* processor/cluster.py                                                     *)

ClusterStatuses == {"new", "processed", "sent"}

\* (Mutant: the events of every source count.)
MembersOfAnySource(t, since) ==
  {e \in Events : /\ FetchedAt[e] >= since
                  /\ Ticker[e] = t
                  /\ row[e].status \in ClusterStatuses}

Members(t, since) ==
  {e \in Filings : /\ FetchedAt[e] >= since
                   /\ Ticker[e] = t
                   /\ row[e].status \in ClusterStatuses}

FindForm4Clusters(since) ==
  [t \in {t \in Tickers : Cardinality(Members(t, since)) >= MinFilings} |-> Members(t, since)]

-----------------------------------------------------------------------------
(* notifier/form4_cluster.py                                                *)

StartScan ==
  /\ phase = "idle" /\ due
  /\ due' = FALSE
  /\ started' = now
  /\ candidates' = FindForm4Clusters(now - ClusterWindow)
  /\ left' = DOMAIN candidates'
  /\ phase' = IF left' = {} THEN "commit" ELSE "scan"
  /\ draft' = clusters
  /\ UNCHANGED <<dbVars, clusters, alerts, mishaps, settled>>

\* (Mutant: the end of the window is left out.)
OpenClustersStrictly(t) ==
  {c \in draft : c.ticker = t /\ c.created_at > started - ClusterWindow}

OpenClusters(t) ==
  {c \in draft : c.ticker = t /\ c.created_at >= started - ClusterWindow}

\* The loop goes on with another ticker; their order does not matter.
NextTicker(t) ==
  /\ left' = left \ {t}
  /\ phase' = IF left' = {} THEN "commit" ELSE "scan"
  /\ UNCHANGED <<dbVars, due, started, candidates, clusters, settled>>

\* (Mutant: only the window moves.)
RefreshedWindow(c) == [c EXCEPT !.window_end = started]

Refreshed(c) == [c EXCEPT !.members = candidates[c.ticker], !.window_end = started]

\* first() of a query which states no order.
Refresh(t) ==
  /\ phase = "scan" /\ t \in left
  /\ \E c \in OpenClusters(t) : draft' = (draft \ {c}) \cup {Refreshed(c)}
  /\ NextTicker(t)
  /\ UNCHANGED <<alerts, mishaps>>

\* n embeds about t reach the channel.
Announce(t, n) ==
  alerts' = alerts \o [i \in 1 .. n |-> [ticker |-> t, members |-> candidates[t]]]

\* created_at is read when the row is built, after the embed was posted.
Record(t) ==
  draft' = draft \cup {[ticker |-> t, members |-> candidates[t],
                        window_start |-> started - ClusterWindow, window_end |-> started,
                        created_at |-> now]}

\* The row is written if send_embed returned True.  (Mutant: it always is.)
AlertUnchecked(t) ==
  /\ phase = "scan" /\ t \in left /\ OpenClusters(t) = {}
  /\ \E answer \in Answer : Answered(answer) /\ Announce(t, answer.copies)
  /\ Record(t)
  /\ NextTicker(t)

Alert(t) ==
  /\ phase = "scan" /\ t \in left /\ OpenClusters(t) = {}
  /\ \E answer \in Answer :
       /\ Answered(answer) /\ Announce(t, answer.copies)
       /\ IF answer.returned THEN Record(t) ELSE UNCHANGED draft
  /\ NextTicker(t)

EndScan == phase' = "idle" /\ draft' = {} /\ UNCHANGED <<dbVars, due, started, alerts, settled>>

CommitScan ==
  /\ phase = "commit"
  /\ clusters' = draft
  /\ EndScan
  /\ UNCHANGED <<candidates, left, mishaps>>

\* The process stops, or the database fails and run_once swallows it: the rows
\* of all the tickers are gone, the embeds are not.
AbortScan ==
  /\ phase # "idle"
  /\ Mishap("stop")
  /\ EndScan
  /\ candidates' = NoCandidates /\ left' = {}
  /\ UNCHANGED clusters

ClusterJob == StartScan \/ (\E t \in left : Refresh(t) \/ Alert(t)) \/ CommitScan

-----------------------------------------------------------------------------
(* The rest of the system                                                   *)

\* The cron trigger fires every hour.  The scheduler skips it while a scan is
\* still running, which a long Retry-After of Discord makes possible.
Tick ==
  /\ AdvanceClock(MaxNow)
  /\ due' = (phase = "idle")
  /\ UNCHANGED <<phase, started, candidates, left, draft, clusters, alerts, mishaps, settled>>

\* What the processor and the notifier do to the status of an event.
Settle(e) ==
  /\ settled < MaxSettled /\ settled' = settled + 1
  /\ \E s \in CASE row[e].status = "new" -> {"processed", "skipped", "duplicate", "failed"}
                [] row[e].status = "processed" -> {"sent", "failed"}
                [] OTHER -> {} :
       row' = [row EXCEPT ![e].status = s]
  /\ UNCHANGED <<session, keyShare, now, scanVars, clusters, alerts, mishaps>>

ClusterNext ==
  \/ ClusterJob \/ AbortScan \/ Tick
  \/ \E e \in Events : (Insert(e) /\ UNCHANGED clusterVars) \/ Settle(e)
  \/ RequeueFailed /\ Mishap("requeue") /\ UNCHANGED <<scanVars, clusters, alerts, settled>>

ClusterSpec == ClusterInit /\ [][ClusterNext]_cvars

-----------------------------------------------------------------------------
(* Properties                                                               *)

\* Types, and a cluster holds nothing but Form-4 filings.
ClusterOK == DbTypeOK /\ ClusterTypeOK

\* The table as the job goes on to read it.
Table == IF phase = "idle" THEN clusters ELSE draft

\* Embeds which the table cannot account for.
Lost == mishaps["stop"] + mishaps["unconfirmed"]

\* A ticker has at most one open row whenever one looks at it, however long the
\* scans take and however often they fail (form4_cluster.py:18-20).
OneOpenCluster ==
  \A c, d \in Table :
    c # d /\ c.ticker = d.ticker /\ c.created_at <= d.created_at
      => d.created_at - c.created_at > ClusterWindow

\* Every row stands for an alert that reached the channel, and every alert has
\* its row, but for the runs that were stopped and the answers that got lost
\* ("at-least-once", form4_cluster.py:21).
AlertsMatchRecords ==
  \A t \in Tickers :
    LET sent == Cardinality({i \in DOMAIN alerts : alerts[i].ticker = t})
        recorded == Cardinality({c \in Table : c.ticker = t})
    IN recorded <= sent /\ sent <= recorded + Lost

\* No filing is announced twice, but for the same failures: a row stays open
\* at least until the last filing its alert named has left the window.
FilingsAreAnnouncedOnce ==
  \A e \in Filings :
    Cardinality({i \in DOMAIN alerts : e \in alerts[i].members}) <= 1 + Lost

\* After a scan whose embeds were all delivered, each ticker it found has an
\* open row that names all of its filings (models.py:142-143).
ScansLeaveNothingBehind ==
  phase = "idle" /\ mishaps["refused"] + mishaps["unconfirmed"] = 0 =>
    \A t \in DOMAIN candidates :
      \E c \in clusters : /\ c.ticker = t /\ c.created_at >= started - ClusterWindow
                          /\ c.members = candidates[t]

\* cluster.py:35-36: of the filings about a ticker only duplicates and failed
\* ones are left out, on the watchlist or not.
ScansCoverTheMarket ==
  [][phase = "idle" /\ phase' # "idle" =>
       \A t \in Tickers :
         LET filed == {e \in Filings : /\ Ticker[e] = t /\ FetchedAt[e] >= now - ClusterWindow
                                       /\ row[e].status \notin {"absent", "duplicate", "failed"}}
         IN Cardinality(filed) >= MinFilings => t \in DOMAIN candidates']_cvars
=============================================================================
