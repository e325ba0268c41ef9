# A verification of ArgusCore in TLA+

ArgusCore collects market news (SEC Form-4 filings, RSS feeds), rates them with an LLM and
posts the relevant ones to Discord. Four services share one Postgres database and talk to each
other through one table, `raw_events`, whose column `status` makes it a queue:

    pollers --insert 'new'--> raw_events <--claim, classify-- processor
                                  ^
                                  +---- claim, post, mark --- notifier --> Discord

This directory holds TLA+ models of the services, TLC configurations that check them on small
instances, and TLAPS proofs for all instances. Source paths
below are relative to `src/src/argus/` unless they start with `src/`.

## 1. The system: an inventory

| Component (code) | State | Operations | What is hard | What makes it correct | Modelled in |
|---|---|---|---|---|---|
| `raw_events` and sessions (`common/models.py`, `common/db.py`) | rows with `status`, `retry_count`, `duplicate_of`, `relevance_score`; row locks | SELECT FOR UPDATE SKIP LOCKED, flush, commit, rollback | READ COMMITTED visibility, autoflush, the lock a foreign key takes, deadlock | a row moves through its life cycle one stage at a time; claims are exclusive | `RawEvents`, `EventQueue` |
| Processor (`processor/worker.py`, `dedup.py`, `classifier.py`, `filters.py`) | the batch of a run | `run_once`: fetch, duplicate check, filter, LLM, one commit | several workers; awaits between read and write; stop between LLM call and commit; a failed SELECT inside a transaction | duplicates lead to an original; attempts counted and bounded; every new event settled | `Processor`, `Pipeline` |
| Instant notifier (`notifier/worker.py`) | its batch, `notifications` | `run_once`: fetch by score, post one by one, one commit | posting cannot be rolled back; two consumers of one status | at least once; repeats only after a mishap; parked after failures | `Notifier`, `Pipeline` |
| Digest (`notifier/digest.py`) | its batch | `run_once`: fetch the band, one embed, mark all | the same, and thresholds shared with the instant notifier | an event takes one of the two paths | `Notifier`, `Pipeline` |
| Form-4 clusters (`notifier/form4_cluster.py`, `processor/cluster.py`) | `form4_clusters` | `run_once`: group filings, refresh an open row or alert | two windows that must end together; one commit after several posts | one open row per ticker; an alert per row; a filing announced once | `Form4ClusterJob` |
| SEC poller (`sec_poller/`) | `polling_state` | hourly search, fetch, parse, filter, insert | overlap of the windows; an answer that holds a part of them; hits that are skipped; partial failures | a filing is lost only if its hit is malformed or no run got the whole window on the days it was listed; a bad filing does not cost the others | `Polling`, `SecPoller` |
| RSS poller (`rss_poller/`) | `polling_state` per feed | round over feeds, insert | shared guids, one bad feed | no unique violation; feeds isolated | `Polling`, `RssPoller` |
| Discord client (`notifier/discord.py`) | none | `send_embed` with a retry loop of its own | an embed that is posted though the client sees a failure | answers are truthful; a 5xx alone makes it post twice | `HttpRetry`, implementing `SendEmbed`; `Discord` |
| HTTP retry (`common/http.py`) | none | `with_retry` | what is retried, how often, how long it sleeps | bounded attempts and sleeps; it returns | `HttpRetry` |
| LLM providers (`llm/`) | none | `classify` with one reprompt | two nested loops; a completion billed twice | six requests at most | `HttpRetry`, the result in `Processor` |
| Migrations (`src/alembic/`) | the schema | `alembic upgrade head` at container start, under an advisory lock | who owns the transaction | services find their tables | `Migrations` |
| Service mains | schedulers | wiring, interval and cron jobs | jobs of one service overlap | | fairness, `due`, `Pipeline` |
| Health (`common/health.py`) | `LastRunTracker` | `tracked`, `/healthz` | jobs that swallow failures | the time is that of a good run | |
| Configuration, logging | files | read at start | none at run time | | |

How the parts interact: only through committed rows (and through row locks while a transaction
is open). The pollers insert; the processor takes `new` to `processed`, `skipped`, `duplicate`,
`failed` or back to `new`; the notifier jobs take `processed` to `sent` or `failed`; an operator
may requeue `failed` as `new` by SQL (`src/README.md`, "Requeue"). The cluster scan only reads
events, whatever the other services make of them meanwhile.

`PROJECT.json` lists, under `hazards`, each place in the code where one of these behaviours can go wrong,
with the property that watches it.

## 2. The modules

### RawEvents: the table and the part of Postgres it relies on
`row` is what is committed, `session[c]` the rows client `c` holds FOR UPDATE with the values
it has not committed, `keyShare[c]` the rows on which its foreign keys hold a key-share lock,
`now` a clock. Operators are the database operations of the code: `Lock` (SELECT ... FOR UPDATE
SKIP LOCKED LIMIT n), `Visible` (what a SELECT sees: committed rows and one's own), `Assign` (an
attribute assigned to an ORM object), `FlushRows`, `CommitRows`, `Rollback`, `Deadlocked`,
`Insert`, `RequeueFailed`. The key-share lock is that of `duplicate_of` (`models.py:84`): it does
not conflict with itself, but it does with FOR UPDATE, so a flush may have to wait for another
worker's claim, and two flushes for each other (`WaitsFor`). `Deadlocked(c)` is what Postgres looks for, a set of
sessions with `c` in it that wait in a ring; `Blocked(S)` a set whose waiting members wait for members only. `absent` stands for a row not inserted yet.

Postgres and SQLAlchemy are not in the repository; these operators model what the code asks of
them and carry `external` in the map where no line of the code corresponds.

### EventQueue: what the table promises
The abstract specification: the status of every event and the number of its LLM calls, with no
worker, lock, transaction or failure. `Arrive`, `Classify` and `Deliver` (a batch at once), `Requeue`.

### Processor
`ProcessorWorker.run_once` is one transaction of many awaits; each await is a step.
`Fetch` (worker.py:39-48), then per event `Autoflush` and the duplicate check's SELECT
(`MarkDuplicate` / `NoDuplicate`, dedup.py:16-47), the classification (`Classify`:
classifier.py, filters.py), at the end `Commit` (worker.py:80). Failures: `DedupFails` and its
aftermath `ClassifyOpen`, `EndAborted`; `DeadlockVictim`; `Crash`. Similarity of titles is a
relation between events (`TitleSimilar`), the LLM a choice between a score and a failure.
`find_duplicate` orders its candidates by nothing, so any similar one may be the original.

### Notifier
Instant workers and digest jobs over the same rows. `posted` counts the embeds that reached the
channel, by path: it is what a rollback cannot undo. `InstantFetch`, `InstantSend` (one event,
one answer of Discord), `DigestFetch`, `DigestSend` (one embed for the batch), `NotifierCommit`,
`Stop`. The module
runs alone, with what a processor leaves as its initial rows, only for finding 3; otherwise it is
a part of `Pipeline`.

### EmbedAnswers, SendEmbed, Discord: what the jobs know of Discord
`Answer` (`EmbedAnswers`) is all that `send_embed` can come to: what it returns, and how many copies of the embed are in the
channel in the end. False may stand for up to three copies (discord.py:169: any exception, such as a timeout, after Discord
has taken the request), and so may True (discord.py:164: Discord takes a request, answers with a 5xx, and the loop posts it
again). `SendEmbed` is the abstract specification, a call that comes to one of these and stays at it; `HttpRetry` is the
loop, proved to implement it. `Discord` gives the answers to the jobs and counts as mishaps what a caller does not learn:
a refused embed, and each copy that nobody has confirmed. So the answers the notifier and the cluster job are modelled with are neither
invented nor too few.

### Pipeline
`Processor` and `Notifier` side by side over one `RawEvents`, with the pollers' inserts, the clock and
the operator's requeue as `Surroundings`. It adds no behaviour of its own: a step of one service leaves the
other's variables alone, and what they do to each other goes through rows and locks. Its
properties are those that need both: who holds a row, which embeds a duplicate has, what an
event in the channel has cost, and that an event which arrives comes to an end.

### Form4ClusterJob
`StartScan` runs the query of `cluster.py`; per ticker `Refresh` or `Alert`; `CommitScan` or
`AbortScan`. `draft` is the table as the transaction sees it. `due` is the hourly cron trigger,
which is skipped while a scan still runs (a Retry-After may be long); `created_at` is therefore
a clock reading of its own, later than `started`. `Settle` is what the processor and the notifier
do to the events between scans. One job, as the docstring requires (form4_cluster.py:21).

### Polling, SecPoller, RssPoller
`Polling` is what both pollers do: look an entry up, add it, flush before the next SELECT, commit.
`SecPoller` counts in days of UTC, the grain of the EDGAR search (main.py:20). The poller does not see the filings but one answer of the search:
`Pages` are the answers EDGAR may give, the filings of the `Window` if they fit on one page (`PageSize`), else as many as fit, in an order of EDGAR's own,
or JSON without hits, which `data.get` reads as an empty list (edgar.py:75). `Urls` leaves out the hits `_hit_to_url` makes nothing of (`Malformed`). `Publish` lets a
filing come out on its date or on the day after, since EDGAR dates filings in US Eastern time (`late`). `flawed`, `today`, `late` and `badDays` are history: the
code knows none of them, and logs a run that saw a part of the window as complete. `RssPoller` walks through feeds, each
in its own transaction, all with one source, and keeps of a feed the positions it has read (`items`) and not handled (`left`),
so that an entry a feed lists twice is looked up twice. `Refused` are entries whose row Postgres does not
accept, such as a ticker longer than its column (models.py:75).

### HttpRetry
One outgoing call: a GET of a poller (`fetch`), a classification (`classify`), an embed (`embed`). `attempt`
is the counter of the loop, `prompt` that of the provider's `for attempt in range(2)`. The server
is part of the model: between `Send` and the answer it may act (`Serve`), which the client cannot
see, so that a 5xx or a timeout may come before or after the effect; a request that is given up may still
have its effect later (`LateEffect`). The two loops differ: `with_retry` caps Retry-After, reads
it on a 5xx too and treats a date as no header; `send_embed` sleeps it out as it is, and on a
date `float()` raises and the call returns False. Neither repeats a request that was not answered.

### Migrations
`env.py` in each container that starts: connect, take the advisory lock, configure, upgrade
revision by revision, unlock, close. `holders` are the connections with the advisory lock, `tx` tells whose transaction the connection is in: SQLAlchemy
begins one with the first statement (`autobegin`), and Alembic commits only one it has begun itself (`block`).
That is how SQLAlchemy 2 and Alembic behave; both are outside the repository.

MC modules give the constants their values (`MCPipeline`, `MCProcessor`, ...). The definitions commented
"Mutant" are plausible bugs; nothing uses them, they serve to show that each property is able to fail.

## 3. What TLC checks

| Run | Instance | Shows |
|---|---|---|
| `proc_safety` | 2 workers, 3 similar events an hour apart, batches of 2, one crash, one database error, one requeue | `TypeOK`, `ClaimsAreFresh`, `BlockedRunsAreReleased`, `NoMutualDuplicates`, `AttemptsAreAccounted`; every step refines `EventQueue` (`QueueSpec`); `NewEventsAreSettled`, through blocking and deadlock |
| `proc_cycle` (violation) | 2 workers, batches of 1 | `DuplicatesLeadToOriginals` fails: finding 1 |
| `proc_fail_open` (violation) | 1 worker, one database error | `FailOpenClassifies` fails: finding 2 |
| `pipeline` | 1 processor worker as in the compose file, 2 instant workers, a digest job, 2 similar events an hour apart, scores 50, 75, 90 around thresholds 70 and 90, one mishap of each kind | what a job posts is claimed and fresh; `BlockedServicesAreReleased`; duplicates lead to an original and are silent; one recorded call per classification; sent means posted; repeats need mishaps; one path; parking; refinement of `EventQueue` up to `sent`; `EventsMoveForward`, `EventsComeToAnEnd` |
| `notifier_parked` (violation) | three refused sends | `ParkedAfterThreeFailures` fails: finding 3 |
| `cluster` | 5 filings about 2 tickers at both ends of a window of 2 hours, a press report, one mishap of each kind, two unconfirmed copies | `OneOpenCluster`, `AlertsMatchRecords`, `FilingsAreAnnouncedOnce`, `ScansLeaveNothingBehind` |
| `cluster_market` (violation) | no mishaps | `ScansCoverTheMarket` fails: finding 4 |
| `sec` | 5 filings, one with a malformed hit and one with a refused row, 3 hits to an answer, 4 days, one failed search, fetch and stop each | `TypeOK`, `LostOnlyWithoutGoodRun`, `OnlyRefusedRowsKillRuns` |
| `sec_bad_url` (violation) | no faults | `BadUrlsDoNotKillRuns` fails: finding 5 |
| `rss` | 3 feeds sharing a guid, the first with a refused entry | `TypeOK`, `AddedRowsAreNew`, `GoodFeedsAreStored`, `FeedsAreIsolated` |
| `http` | the three kinds of call; Retry-After of 0, 7 and 90 seconds, none, or a date | `TypeOK`, `RequestBudget`, `EmbedRepeatsNeedServerErrors`, `TransientFailuresUseAllAttempts`, `SleepsAreBounded`; refinement of `SendEmbed` (`EmbedSpec`); `CallsRunOut`, `CallEnds` |
| `migrations` (violation) | two containers | `ServicesFindTheirTables` fails: finding 6 |

Bounds, and why they are enough to be interesting. Three events are the least for a ring of
duplicates that is not a pair; two workers the least for contention and deadlock; a batch of 2
gives partial flushes and a LIMIT that matters; a window of one or two hours over a clock of
`MaxNow` lets a candidate leave it. `MaxFaults` and `MaxMishaps` allow one fault of each kind, so
that a fault meets every state and another kind of fault; in `pipeline` the faults of the processor's
database are left to `proc_safety`, and a classification may use up two of the three attempts there, so that one
refused send parks an event. Two unconfirmed copies in `cluster` let one alert be in the channel three times, the most there can be
(`MCMishaps`); `pipeline` has one, which is enough to repeat an embed, and with more takes too long to be run often: the
proofs are for any number. `MaxSettled`
(one) bounds how often other services change a status during cluster scans, `MaxNow` (3, with a window of
2) lets a row be opened, refreshed, and closed. `MaxDay` (4, with a window of 2) lets a filing be
listed, leave the window, and be missed; with 3 hits to an answer the five filings may fit into one, as far as they
are out, or not. Scores lie on, between and below both thresholds; 0, 7 and 90 lie
on both sides of the cap of 60 seconds. The attempts and prompts of `HttpRetry` are the code's own numbers. Deadlock
checking is off where a bounded clock or bounded faults let the system come to rest.

### Fairness
- `WF(Worker(w))`: the interval job starts `run_once` every 30 seconds (processor/main.py:44),
  and each await returns or raises.
- `SF(Autoflush(w))` and `SF(Commit(w))`: Postgres grants a row lock to the session that waits
  for it. The wait is not continuous in the model (another worker may claim the row again in
  between), hence strong fairness; with weak fairness TLC finds a worker that waits for ever.
- `WF(Job(c))` of the notifier: the interval of 15 seconds and the daily cron job
  (notifier/main.py:60-64). `PipelineFairness` is these and nothing more.
- `WF(Round)` of the RSS poller: its interval job (rss_poller/main.py:56). One round can take long;
  nothing is assumed about how long.
- `WF(Send)`, `WF(Wake)`, `WF(NoAnswer)` of `HttpRetry`: the event loop, `asyncio.sleep`, and the client timeouts
  (30 seconds in `make_client`, 15 in `DiscordClient`). No server is assumed to answer.
- The SEC poller, the cluster scan and the migrations have no liveness property. `NextDay` assumes that of the
  24 runs of a day at least one came to an end, and the cluster job's cron trigger is `due`.
- No fairness is assumed of faults, of arrivals, of the LLM's or Discord's goodwill. That faults
  are finitely many is the bound on them: a database that fails for ever settles nothing.

## 4. What is proved

For all values of the constants (any numbers of workers, jobs, events, feeds and filings, any
thresholds, batch sizes, windows and similarity relations, any number of faults), TLAPS checks what
follows. The only assumptions are the named `ASSUME`s of the modules: types of the constants, that
the sessions of the services are different ones, and that the sets of events and of sessions are finite. Each property
is also checked by a run, except those marked with a star, which are proved only: the runs keep to properties that say more
(`OnlyRefusedRowsKillRuns` of the SEC poller, `PostingClaimsAreFresh` of the jobs), and that of the
migrations is about finding 6.

| Theorem | Says |
|---|---|
| `ProcessorProofs!TypeCorrect` | `Spec => []TypeOK` |
| `ProcessorProofs!ClaimsStayFresh` | `Spec => []ClaimsAreFresh` |
| `ProcessorProofs!AttemptsAccounted` | `Spec => []AttemptsAreAccounted` |
| `ProcessorProofs!ProcessorImplementsQueue` | `Spec => QueueSpec`, the refinement of `EventQueue` |
| `ProcessorProofs!BlockedRunsGetReleased` | `Spec => []BlockedRunsAreReleased` |
| `DuplicateProofs!NeverMutual` | `Spec => []NoMutualDuplicates` |
| `DuplicateProofs!SingleWorkerKeepsOriginals` | with at most one worker, `Spec => []DuplicatesLeadToOriginals` |
| `PipelineProofs!PipelineTypes` | `PipelineSpec => []PipelineOK` |
| `PipelineProofs!ClaimsExclude` * | `PipelineSpec => []ClaimsAreExclusive` |
| `PipelineProofs!PostingClaimsStayFresh` | `PipelineSpec => []PostingClaimsAreFresh` |
| `PipelineProofs!SentIsPosted` | `PipelineSpec => []SentWasPosted` |
| `PipelineProofs!RepeatsArePaid` | `PipelineSpec => []RepeatsNeedMishaps` |
| `PipelineProofs!PathsExclude` | `PipelineSpec => []OnePathPerEvent` |
| `PipelineProofs!DuplicatesStaySilent` | `PipelineSpec => []DuplicatesAreSilent` |
| `PipelineProofs!ParkingIsExplained` | `PipelineSpec => []ParkedAfterFailures` |
| `PipelineProofs!CallsAreBilled` | `PipelineSpec => []CallsAreAccounted` |
| `PipelineProofs!PipelineImplementsQueue` | `PipelineSpec => QueueSpec` |
| `PipelineProofs!EventsOnlyMoveForward` | `PipelineSpec => EventsMoveForward`, an action property |
| `PipelineProofs!BlockedServicesGetReleased` | `PipelineSpec => []BlockedServicesAreReleased` |
| `PipelineProofs!NeverMutualAcrossServices` | `PipelineSpec => []NoMutualDuplicates` |
| `PipelineProofs!OriginalsStay` | with at most one worker, `PipelineSpec => []DuplicatesLeadToOriginals` |
| `Form4ClusterProofs!ClusterTypes` | `ClusterSpec => []ClusterOK` |
| `Form4ClusterProofs!OneClusterIsOpen` | `ClusterSpec => []OneOpenCluster` |
| `Form4ClusterProofs!AlertsAreRecorded` | `ClusterSpec => []AlertsMatchRecords` |
| `Form4ClusterProofs!AnnouncedOnce` | `ClusterSpec => []FilingsAreAnnouncedOnce` |
| `Form4ClusterProofs!NothingIsLeftBehind` | `ClusterSpec => []ScansLeaveNothingBehind` |
| `SecPollerProofs!PollerTypes`, `GoodRunsLoseNothing` | `Spec => []TypeOK`, `Spec => []LostOnlyWithoutGoodRun`, for any hits, page size and order |
| `SecPollerProofs!OnlyRefusalsKillRuns` | `Spec => OnlyRefusedRowsKillRuns`, an action property |
| `SecPollerProofs!RowsStayNew` * | `Spec => []AddedRowsAreNew` |
| `RssPollerProofs!PollerTypes` | `Spec => []TypeOK` |
| `RssPollerProofs!RowsStayNew` | `Spec => []AddedRowsAreNew`, for all feeds and guids |
| `RssPollerProofs!GoodFeedsGetStored` | `Spec => GoodFeedsAreStored`, an action property |
| `HttpRetryProofs!TypeCorrectness` | `Spec => []TypeOK` |
| `HttpRetryProofs!EmbedRefined` | `Spec => EmbedSpec`, the refinement of `SendEmbed` |
| `HttpRetryProofs!CallsDoRunOut` | `Spec => CallsRunOut`, an action property |
| `HttpRetryProofs!BudgetHolds` | `Spec => []RequestBudget` |
| `HttpRetryProofs!EmbedRepeatsAreExplained` | `Spec => []EmbedRepeatsNeedServerErrors` |
| `HttpRetryProofs!TransientFailuresAreRetried` | `Spec => []TransientFailuresUseAllAttempts` |
| `HttpRetryProofs!SleepsStayBounded` | `Spec => []SleepsAreBounded`, for any Retry-After |
| `Migrations!TypeCorrect` * | `Spec => []TypeOK` |
| `Migrations!LockSerializes` * | `Spec => []UpgradesAreSerialized` |
| `Migrations!UpgradesAreRolledBack` * | `Spec => []NothingIsCommitted`: finding 6 does not depend on an order of events |

`ProcessorProofs` begins with one lemma per database operation (`LockEffect`, `AssignEffect`, `FlushEffect`,
`CommitEffect`, `RollbackEffect`): what it changes, and that it keeps types and locks exclusive. All
proofs about services use them.

**Processor.** The properties are not inductive. `Inv` strengthens them: locks exclude
each other (`LocksExclude`); a session's uncommitted values are legal results (`Settles`); what the
loop has yet to handle is still held and still as it was fetched, and a worker without a
transaction holds nothing (`Pending`); a held row is committed as new (`ClaimOf`); a row has a mark exactly when it is
a duplicate and its attempts fit its status (`RowsOK`). Without
`Pending` a second classification of an event in one run could not be excluded, without `ClaimOf` a
commit could overwrite another's result. There is one lemma per action; `NextInv` combines them, and
`AttemptsAccounted` adds to `Inv` that the calls fit the statuses (`CallsOK`), which holds of the processor alone.
The refinement maps a commit to `Classify`, arrivals and requeues to their namesakes, and
every other step, failures included, to a stutter.

**Waiting.** `BlockedRunsAreReleased` excludes a standstill: take whoever a blocked run waits for, whoever these wait for in
their turn, and so on; one of them has nothing to wait for, or is the member of a deadlock which Postgres aborts. The proof
takes the members that wait. If all others go nowhere, these wait for each other only, and a least set that is closed under waiting exists, as the
strict subsets of a finite set are well-founded (`WaitersDeadlock`); each of its members is waited for, since a set without it would be
smaller and closed, so the set is a deadlock. It remains that the victim is at a statement Postgres can abort: in the middle of an iteration
everything a worker has marked is flushed already (`Flushed`), so only a flush or a commit ever waits (`WaitingAtFlush`), and a worker
without a transaction holds nothing (`Pending`). Across services, a job marks no duplicates and so never waits
(`JobsNeverWait`), and a session that is nobody's holds nothing (`OnlyServicesLock`). The mutants leave a session open behind a run that
has failed: then somebody waits for rows of no run.

**Duplicates.** `NeverMutual` needs more: `Unanswered(w)` says that no row `w` has marked, committed or not, is pointed
back at by the row it points at, in `w`'s view. A commit of another worker could break it, but that
worker's flush needed a key-share lock on the very row `w` holds FOR UPDATE, so it waited. This is
where the foreign key is indispensable: without it (the mutant `WaitsForWithoutForeignKey`) two workers can lose
a story by marking two events as each other's duplicate, and no comment in the code says that the schema prevents it.
`SingleWorkerKeepsOriginals` carries the property over to what the session sees
(`LeadsOut(Visible(w))`): a mark always points at a row which at that moment is no duplicate, so it closes
no ring (`OneMoreMark`).

**Pipeline.** `PInv` is the processor's `Inv` and `NInv`, an invariant of the notifier: `JobOK` about each job (`Untouched`:
what it has yet to post it holds, as it was fetched; `Posting`: what it holds is committed as processed and of its own
path, and what it has marked sent it has posted), and `History` about each event: what its committed row tells of its past
(`OnRecord`, `NotRequeued`, `Billed`), and that each copy in the channel beyond the one that counts is paid for by a
mishap (`Paid`). The copy that counts is that of a `sent` row, or of a row some job has marked sent and not
committed (`Settling`); a stop in between turns it into a repeat, which the stop then pays for. The parts
are put together by two facts: a step of a worker changes only rows no job holds (`WorkerEffect`, `JobsUndisturbed`),
and a step of a job keeps the processor's invariant (`OutsideInv`, `JobKeepsInv`). The refinement maps `NotifierCommit` to
`Deliver`. `EventsOnlyMoveForward` needs that uncommitted values are advances already: `Advances` compares every value a session holds
with the committed row by `Ahead`, what is left of the stages and the attempts. Each assignment goes from a new or a processed row
(`SettlingAdvances`, `SendingAdvances`) and adds up with those before it (`AdvancedTransitive`); a commit publishes the result, and
nobody else changes a row that is held (`OneServiceAdvances`). It is the safety half of `EventsComeToAnEnd`.
`NeverMutualAcrossServices` and `OriginalsStay` take `DupInv` and `SingleInv` over from `DuplicateProofs`: a job neither marks a row nor unmarks one (`JobDupInv`, `JobLeadsOut`).

**Clusters.** The argument is about four times: a filing is fetched before the scan that finds it starts (`Dated`), the scan
starts before the embed is posted, and the row is built, and dated, after that. So a row stays open at least until each filing
its alert named has left the window (`Remembered`, `NamedOnce`), and when a ticker gets a new row all its others are
more than a window old (`Spaced`). `Counted` compares alerts and rows by cardinality: a scan adds one row
at most for each ticker, which is why a stopped scan loses one at most. `Handled` says that what a scan has
looked at is in its table.

**Pollers.** `Pending` follows a filing through the days it is listed on after the one it came out on (`DaysListed`): as long as it is not in the table, the
ones that are over were bad and today is not good so far. `RunCovers` says of a run that is not flawed what it has stored or has yet to look at; it starts
with the whole window but for the malformed hits, or it is flawed. What the theorem does not say is that a run ever gets the whole window: a page that is always too small makes every day a
bad one, and then any filing may be lost. Nor does it say so of a filing whose hit is malformed, which no run stores. `RowsStayNew` holds because an entry is
added only when a SELECT that follows the flush of the earlier ones does not find it (`StoreNewEffect`), and every
run, or feed, starts with a fresh session. The two action properties follow: `Covers` says of a feed that what the loop has passed is stored or in the
session, and that the session holds nothing of another feed, so `AddedRowsAreNew` leaves a refused row as the only reason for a flush
to fail (`GoodFeedsGetStored`); the same argument about a run is `OnlyRefusalsKillRuns`.

**Calls and migrations.** The invariants relate the counters of a call to the step it is at (`Counts`, `Effects`, `Sleeps`). For the
refinement of `SendEmbed`, `Copies` counts each copy against a request of its own: the copies posted, the request on its way, and the
request that is given up and may be acted on later. The refinement maps a call to what its answer will be when the late request is through
(`acted + open`), so that `LateEffect` is a stutter. `CallsDoRunOut` proves that `Remaining` decreases with each step: `CallEnds` needs the
fairness as well, which is TLC's. In `Migrations`, from the lock to
the unlock the container holds the lock and is in the transaction which the lock's own statement began (`Locking`), so that
nobody ever commits.

Only model-checked: liveness (`NewEventsAreSettled`, `EventsComeToAnEnd`, `FeedsAreIsolated`, `CallEnds`), since the prover has no reasoning
about fairness and ENABLED. Every invariant, action property and refinement of the runs that pass is proved, `DuplicatesLeadToOriginals` for
one worker, as finding 1 demands. What a recursive definition computes for every
input is out of the prover's reach too; none of the modules defines one.

## 5. Findings

Each is a run expected to be violated; the quotes are in `PROJECT.json`.

1. `proc_cycle`. Two workers can mark three similar events as duplicates of each other in a ring, so none
   of them is classified. worker.py:15-16 invites concurrent workers. It takes two processor instances,
   three similar events and flushes that interleave narrowly; with the single worker of
   `docker-compose.yml` it is proved impossible.
2. `proc_fail_open`. "Fail open" after a failed duplicate check does not: the transaction is aborted in
   Postgres, the LLM is called, and then the whole batch is rolled back. No event is lost.
3. `notifier_parked`. "After three failures the event is parked" (notifier/worker.py:24-25) counts the
   classifier's failures too: both services use `retry_count` and nothing resets it.
4. `cluster_market`. Clusters are meant to be found across the market, but the processor turns filings off
   the watchlist into `skipped` and `CLUSTER_STATUSES` leaves these out.
5. `sec_bad_url`. One row Postgres refuses discards the whole run of the SEC poller, and every run while EDGAR
   lists the filing; the handler for a bad URL does not include the flush.
6. `migrations`. `alembic upgrade head` commits nothing. The statement that takes the advisory lock (env.py:34) makes SQLAlchemy
   begin a transaction; Alembic finds the connection in one, takes it for its caller's and leaves it to be rolled back when the
   connection closes. The command ends with exit code 0. No test runs `env.py`: they create the schema with `create_all`.

Two more disagreements with the documents, which no run is about. The design asks for "Network timeout" to be
retried, three times at most (2026-07-05-arguscore-design.md:561), but `with_retry` repeats answers only (http.py:42). `NoAnswer` does what the code does; no property
depends on it for the calls that use `with_retry`: `EmbedRepeatsNeedServerErrors` is about `send_embed`, which has a loop of its own (discord.py:169).
And `tracked` marks "each successful run" (health.py:23), also of a job that has swallowed its failure (form4_cluster.py:66, sec_poller/main.py:23).

## 6. What is not modelled, and abstractions to know

- Wording and layout of the embeds (including that the digest lists ten events and marks all), the prompt,
  the XML and feed parsers: data the properties do not tell apart. Parsing is reduced to "readable or not".
- `HttpRetry` is one call by itself. The services see its outcomes as choices of their own (`Answer`, the LLM's
  score or failure, `FetchFails`): for an embed that these are all is proved, for the other calls they are what `HttpRetry` can end with, in any order. Jitter is left out, and the connect retries of
  `AsyncHTTPTransport`, which send no request.
- Time is counted in hours (processor, clusters) or days (SEC poller).
- EDGAR is outside the repository: how many hits an answer holds, and in which order, is the constant `PageSize` and a choice of the model. A
  filing that comes out later than the day after its date is left out (a filing that enters the index after its window is never listed at all), and so are
  searches that run over midnight: a run of the SEC poller ends on the day it began.
- Entries without id, guid and link all get the empty guid in `parser.py`; the instance of the RSS run has none.
- A second notifier instance runs a second cluster job; the docstring excludes it, and so does the model.
- The database itself never loses a commit.
- `Pipeline` leaves the pollers and the cluster job to their own modules: they insert rows, or only read them.
- Revisions are the sets of tables they create; downgrades are left out, which nothing runs.
- The health endpoint keeps one timestamp and nothing in the system reads it; configuration and logging are read once at
  start, and the values of the configuration are the constants of the modules.

## 7. Plan

Done: everything in section 2, and the proofs of section 4. What could come next:
- `Queue!Deliver` and `Queue!Classify` with the attempts, so that `EventsMoveForward` follows from the refinement;
- a run of its own for the two disagreements at the end of section 5;
- the cluster job inside `Pipeline`, in place of `Settle`.

## 8. Running it

    tlc -workers 2 -config MCProcessorSafety.cfg MCProcessor
    tlapm ProcessorProofs.tla

Each run of `PROJECT.json` names its module and configuration. All finish within minutes.
