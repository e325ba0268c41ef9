------------------------------ MODULE RawEvents ------------------------------
(***************************************************************************)
(* The table raw_events, which is also the queue between the services, and *)
(* the part of Postgres the services rely on: READ COMMITTED transactions, *)
(* SELECT ... FOR UPDATE SKIP LOCKED, and the key-share lock which the     *)
(* foreign key duplicate_of takes on the row it points at.                 *)
(***************************************************************************)
EXTENDS Integers, FiniteSets

CONSTANTS
  Events,      \* the rows the pollers may ever insert
  Clients,     \* database sessions: processor workers, notifier jobs
  None,        \* NULL
  Source,      \* Source[e]: the feed the event comes from
  Ticker,      \* Ticker[e]: its ticker, None when there is none
  FetchedAt,   \* FetchedAt[e]: when the poller built the row, in hours
  Scores       \* the relevance scores the LLM may give

ASSUME NoneAssumption == None \notin Events \cup Scores
ASSUME EventsAssumption == IsFiniteSet(Events)
ASSUME ClientsAssumption == IsFiniteSet(Clients)
ASSUME ScoresAssumption == Scores \subseteq 0 .. 100
ASSUME FetchedAtAssumption == FetchedAt \in [Events -> Nat]

\* The literal 3 of classifier.py:40 and worker.py:70, _MAX_RETRIES in the notifier.
MaxRetries == 3

\* "absent" stands for a row that is not inserted yet.
Status == {"absent", "new", "processed", "sent", "duplicate", "skipped", "failed"}

Row == [status : Status, retry : 0 .. MaxRetries,
        dup : Events \cup {None}, score : Scores \cup {None}]

\* What RawEvent(...) builds: every column the pollers leave out has its default.
FreshRow == [status |-> "new", retry |-> 0, dup |-> None, score |-> None]

VARIABLES
  row,        \* committed rows
  session,    \* session[c]: the rows c holds FOR UPDATE, with c's uncommitted values
  keyShare,   \* keyShare[c]: the rows c's foreign keys hold FOR KEY SHARE
  now         \* the clock, in hours

dbVars == <<row, session, keyShare, now>>

Locked(c) == DOMAIN session[c]

DbTypeOK ==
  /\ row \in [Events -> Row]
  /\ session \in [Clients -> {session[c] : c \in Clients}]
  /\ \A c \in Clients : Locked(c) \subseteq Events /\ session[c] \in [Locked(c) -> Row]
  /\ keyShare \in [Clients -> SUBSET Events]
  /\ now \in Nat

NoRows == [e \in {} |-> FreshRow]

DbInit ==
  /\ row = [e \in Events |-> [FreshRow EXCEPT !.status = "absent"]]
  /\ session = [c \in Clients |-> NoRows]
  /\ keyShare = [c \in Clients |-> {}]
  /\ now = 0

-----------------------------------------------------------------------------
(* Reading.  A statement of c sees what is committed when it starts, and    *)
(* c's own writes (SQLAlchemy flushes them before every SELECT).            *)

Visible(c) ==
  [e \in Events |-> IF e \in Locked(c) THEN session[c][e] ELSE row[e]]

\* Rows SKIP LOCKED does not pass over: FOR UPDATE conflicts with both locks.
\* (Mutant: a SELECT without FOR UPDATE.)
FreeWithoutSkipLocked(c) == Events

Free(c) == {e \in Events : \A d \in Clients \ {c} : e \notin Locked(d) \cup keyShare[d]}

\* S is a result of ORDER BY rank LIMIT n over the rows of avail.
IsFirst(S, avail, n, rank) ==
  /\ S \subseteq avail
  /\ Cardinality(S) = n \/ (S = avail /\ Cardinality(avail) < n)
  /\ \A x \in S, y \in avail \ S : rank[x] <= rank[y]

(* Writing *)

\* The SELECT ... FOR UPDATE of c returned the rows S.
Lock(c, S) ==
  /\ session' = [session EXCEPT ![c] = [e \in S |-> row[e]]]
  /\ UNCHANGED <<row, keyShare, now>>

\* c assigns to the columns of a row it holds.
Assign(c, e, value) ==
  /\ session' = [session EXCEPT ![c][e] = value]
  /\ UNCHANGED <<row, keyShare, now>>

\* The rows c's uncommitted duplicate_of values point at, other than c's own.
Originals(c) == {session[c][e].dup : e \in Locked(c)} \ ({None} \cup Locked(c))

\* c's flush must wait for d: the foreign key needs a key-share lock on a row
\* d holds FOR UPDATE.  (Mutant: duplicate_of without a foreign key.)
WaitsForWithoutForeignKey(c, d) == FALSE

WaitsFor(c, d) == c # d /\ Originals(c) \cap Locked(d) # {}

\* The next flush of c has to wait.
Waits(c) == \E d \in Clients : WaitsFor(c, d)

\* Somebody in S waits, and whoever a member of S waits for is in S.
Blocked(S) ==
  /\ \E c \in S : Waits(c)
  /\ \A c \in S, d \in Clients : WaitsFor(c, d) => d \in S

FlushRows(c) ==
  /\ \A d \in Clients : ~WaitsFor(c, d)
  /\ keyShare' = [keyShare EXCEPT ![c] = @ \cup Originals(c)]
  /\ UNCHANGED <<row, session, now>>

CloseSession(c) ==
  /\ session' = [session EXCEPT ![c] = NoRows]
  /\ keyShare' = [keyShare EXCEPT ![c] = {}]
  /\ UNCHANGED now

\* commit() flushes what is left, which may have to wait, and publishes.
CommitRows(c) ==
  /\ \A d \in Clients : ~WaitsFor(c, d)
  /\ row' = Visible(c)
  /\ CloseSession(c)

\* Leaving the session without commit() discards everything.  (Mutant: what was
\* flushed stays, as under autocommit.)
RollbackKeepingFlushes(c) == row' = Visible(c) /\ CloseSession(c)

Rollback(c) == UNCHANGED row /\ CloseSession(c)

\* Everyone in S waits for somebody in S: Postgres aborts one of them.
Deadlocked(c) ==
  \E S \in SUBSET Clients :
    /\ c \in S
    /\ \A x \in S : \E y \in S : WaitsFor(x, y)
    /\ \A y \in S : \E x \in S : WaitsFor(x, y)

-----------------------------------------------------------------------------
(* What happens to the table from outside the workers                       *)

\* A poller's transaction commits the row.  The order of arrival is not the
\* order of fetched_at, which is read when the row is built.
Insert(e) ==
  /\ row[e].status = "absent"
  /\ FetchedAt[e] <= now
  /\ row' = [row EXCEPT ![e] = FreshRow]
  /\ UNCHANGED <<session, keyShare, now>>

\* README "Requeue": UPDATE ... SET status = 'new', retry_count = 0 WHERE
\* status = 'failed'.  It needs no lock a key-share lock conflicts with.
RequeueFailed ==
  /\ \E e \in Events : row[e].status = "failed"
  /\ row' = [e \in Events |-> IF row[e].status = "failed"
                              THEN [row[e] EXCEPT !.status = "new", !.retry = 0]
                              ELSE row[e]]
  /\ UNCHANGED <<session, keyShare, now>>

AdvanceClock(limit) == now < limit /\ now' = now + 1 /\ UNCHANGED <<row, session, keyShare>>
=============================================================================
