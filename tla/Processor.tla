------------------------------ MODULE Processor ------------------------------
(***************************************************************************)
(* The processor service: workers draining raw_events rows with status     *)
(* 'new' (processor/worker.py), the cross-source duplicate check (dedup.py)*)
(* and the classifier (classifier.py, filters.py).                         *)
(*                                                                         *)
(* One run of ProcessorWorker.run_once is one transaction.  Its awaits are *)
(* the points where other sessions, a crash or a database error come in:   *)
(* the fetch, the flush and the SELECT of each duplicate check, the LLM    *)
(* call of each event, the commit.                                         *)
(***************************************************************************)
EXTENDS RawEvents

CONSTANTS
  Workers,       \* concurrent ProcessorWorker.run_once calls
  BatchSize,     \* batch_size of the worker
  WindowHours,   \* WINDOW_HOURS of dedup.py
  TitleSimilar,  \* pairs <<a, b>> with titles_similar(title of a, title of b)
  Watchlist,     \* tickers of WatchlistFilter
  KeywordHit,    \* events whose title or body holds a keyword
  MaxFaults,     \* how often each kind of fault may happen
  MaxNow         \* bound on the clock

ASSUME WorkersAssumption == Workers \subseteq Clients
ASSUME BatchSizeAssumption == BatchSize \in Nat \ {0}
ASSUME WatchlistAssumption == None \notin Watchlist

FaultKinds == {"crash", "dbError", "requeue"}
ASSUME MaxFaultsAssumption == MaxFaults \in [FaultKinds -> Nat]

VARIABLES
  pc,        \* pc[w]: where the worker awaits
  todo,      \* todo[w]: the events of the batch the loop has not settled
  llmRows,   \* llmRows[e]: committed LlmCall rows of the event
  faults     \* faults[k]: faults of kind k so far

workerVars == <<pc, todo>>
processorVars == <<workerVars, llmRows, faults>>
vars == <<dbVars, processorVars>>

\* "open" is the classification after a failed duplicate check, "aborted" the
\* rest of a run whose transaction Postgres has aborted.
Pc == {"idle", "flush", "query", "classify", "commit", "open", "aborted"}

ProcessorTypeOK ==
  /\ pc \in [Workers -> Pc]
  /\ todo \in [Workers -> SUBSET Events]
  /\ llmRows \in [Events -> Nat]
  /\ faults \in [FaultKinds -> Nat]

ProcessorInit ==
  /\ pc = [w \in Workers |-> "idle"]
  /\ todo = [w \in Workers |-> {}]
  /\ llmRows = [e \in Events |-> 0]
  /\ faults = [k \in FaultKinds |-> 0]

Init == DbInit /\ ProcessorInit

Goto(w, label) == pc' = [pc EXCEPT ![w] = label]

Fault(k) == faults[k] < MaxFaults[k] /\ faults' = [faults EXCEPT ![k] = @ + 1]

\* The event of the current iteration: the batch is ordered by fetched_at.
Current(w) == CHOOSE e \in todo[w] : \A f \in todo[w] : FetchedAt[e] <= FetchedAt[f]

-----------------------------------------------------------------------------
(* processor/worker.py: the batch                                           *)

\* (Mutant: events the notifier has not settled are picked up again.)
FetchUnsettled(w) ==
  /\ pc[w] = "idle"
  /\ LET avail == {e \in Free(w) : row[e].status \in {"new", "processed"}}
     IN \E S \in (SUBSET avail) \ {{}} :
          /\ IsFirst(S, avail, BatchSize, FetchedAt)
          /\ Lock(w, S)
          /\ todo' = [todo EXCEPT ![w] = S]
  /\ Goto(w, "flush")
  /\ UNCHANGED <<llmRows, faults>>

\* An empty result commits nothing: such a run leaves the state as it is.
Fetch(w) ==
  /\ pc[w] = "idle"
  /\ LET avail == {e \in Free(w) : row[e].status = "new"}
     IN \E S \in (SUBSET avail) \ {{}} :
          /\ IsFirst(S, avail, BatchSize, FetchedAt)
          /\ Lock(w, S)
          /\ todo' = [todo EXCEPT ![w] = S]
  /\ Goto(w, "flush")
  /\ UNCHANGED <<llmRows, faults>>

\* The duplicate check starts with SQLAlchemy's autoflush of the iterations
\* before it; after the last iteration, commit() flushes by itself.
Autoflush(w) ==
  /\ pc[w] = "flush"
  /\ FlushRows(w)
  /\ Goto(w, "query")
  /\ UNCHANGED <<todo, llmRows, faults>>

\* The loop goes on with the next event; the commit follows the last one.
NextIteration(w, e) ==
  LET rest == todo[w] \ {e}
  IN /\ todo' = [todo EXCEPT ![w] = rest]
     /\ Goto(w, IF rest = {} THEN "commit" ELSE "flush")
     /\ UNCHANGED <<llmRows, faults>>

SameKey(e, c) ==
  IF Ticker[e] # None THEN Ticker[c] = Ticker[e]
                      ELSE Ticker[c] = None /\ Source[c] = Source[e]

\* The rows find_duplicate may return: the first similar one of the SELECT,
\* which states no order.  (Mutant: a session that does not flush before it reads.)
DuplicatesWithoutAutoflush(w, e) ==
  {c \in Events \ {e} :
     /\ FetchedAt[c] >= now - WindowHours
     /\ row[c].status \in {"new", "processed", "sent"}
     /\ SameKey(e, c)
     /\ <<e, c>> \in TitleSimilar}

Duplicates(w, e) ==
  {c \in Events \ {e} :
     /\ FetchedAt[c] >= now - WindowHours
     /\ Visible(w)[c].status \in {"new", "processed", "sent"}
     /\ SameKey(e, c)
     /\ <<e, c>> \in TitleSimilar}

MarkDuplicate(w) ==
  /\ pc[w] = "query"
  /\ LET e == Current(w)
     IN /\ \E c \in Duplicates(w, e) :
             Assign(w, e, [session[w][e] EXCEPT !.status = "duplicate", !.dup = c])
        /\ NextIteration(w, e)

NoDuplicate(w) ==
  /\ pc[w] = "query"
  /\ Duplicates(w, Current(w)) = {}
  /\ Goto(w, "classify")
  /\ UNCHANGED <<dbVars, todo, llmRows, faults>>

-----------------------------------------------------------------------------
(* processor/classifier.py: one event                                       *)

PassesFilter(e) == Ticker[e] \in Watchlist \/ e \in KeywordHit

\* Every way the classification of a row can end.
Skip(r) == [r EXCEPT !.status = "skipped"]

Succeed(r, score) == [r EXCEPT !.status = "processed", !.score = score]

\* (Mutants: the limit missed by one, missing, or the count not kept.)
FailOneTooMany(r) ==
  [r EXCEPT !.retry = @ + 1,
            !.status = IF r.retry + 1 > MaxRetries THEN "failed" ELSE "new"]
FailWithoutLimit(r) == [r EXCEPT !.retry = @ + 1]
FailUncounted(r) == [r EXCEPT !.status = "new"]

Fail(r) ==
  [r EXCEPT !.retry = @ + 1,
            !.status = IF r.retry + 1 >= MaxRetries THEN "failed" ELSE "new"]

Outcomes(e, r) ==
  IF PassesFilter(e) THEN {Fail(r)} \cup {Succeed(r, s) : s \in Scores}
                     ELSE {Skip(r)}

Classify(w) ==
  /\ pc[w] = "classify"
  /\ LET e == Current(w)
     IN /\ \E r \in Outcomes(e, session[w][e]) : Assign(w, e, r)
        /\ NextIteration(w, e)

\* (Mutant: a call is recorded before its answer is known to be good.)
CommitEveryCall(w) ==
  /\ pc[w] = "commit"
  /\ CommitRows(w)
  /\ llmRows' = [e \in Events |-> IF e \in Locked(w) /\ session[w][e].status # "duplicate"
                                  THEN llmRows[e] + 1 ELSE llmRows[e]]
  /\ Goto(w, "idle")
  /\ UNCHANGED <<todo, faults>>

\* The LlmCall rows of the run are committed with the events they are for.
Commit(w) ==
  /\ pc[w] = "commit"
  /\ CommitRows(w)
  /\ llmRows' = [e \in Events |-> IF e \in Locked(w) /\ session[w][e].status = "processed"
                                  THEN llmRows[e] + 1 ELSE llmRows[e]]
  /\ Goto(w, "idle")
  /\ UNCHANGED <<todo, faults>>

-----------------------------------------------------------------------------
(* Failures                                                                 *)

\* (Mutant: a session that is not closed when its run fails.)
EndRunUnclosed(w) ==
  /\ UNCHANGED dbVars
  /\ Goto(w, "idle")
  /\ todo' = [todo EXCEPT ![w] = {}]
  /\ UNCHANGED llmRows

EndRun(w) ==
  /\ Rollback(w)
  /\ Goto(w, "idle")
  /\ todo' = [todo EXCEPT ![w] = {}]
  /\ UNCHANGED llmRows

\* The SELECT of the duplicate check raises (a statement timeout, a lost
\* connection).  Postgres aborts the transaction and drops its locks at once;
\* worker.py:52 catches the exception and classifies the event all the same.
DedupFails(w) ==
  /\ pc[w] = "query"
  /\ Fault("dbError")
  /\ Rollback(w)
  /\ Goto(w, "open")
  /\ UNCHANGED <<todo, llmRows>>

\* The classification ends in memory only: the columns it sets belong to a
\* transaction that is gone.
ClassifyOpen(w) ==
  /\ pc[w] = "open"
  /\ Goto(w, "aborted")
  /\ UNCHANGED <<dbVars, todo, llmRows, faults>>

\* The next flush (of the next duplicate check, or of the commit) raises, and
\* leaving the session rolls everything back.
EndAborted(w) ==
  /\ pc[w] = "aborted"
  /\ EndRun(w)
  /\ UNCHANGED faults

\* Postgres aborts one member of a deadlock.  In a flush the session expires
\* its objects, so that worker.py:54 raises in its turn and the run ends.
DeadlockVictim(w) ==
  /\ pc[w] \in {"flush", "commit"}
  /\ Deadlocked(w)
  /\ EndRun(w)
  /\ UNCHANGED faults

\* The process dies, shutdown(wait=False) cancels the job, or the commit fails.
Crash(w) ==
  /\ pc[w] # "idle"
  /\ Fault("crash")
  /\ EndRun(w)

-----------------------------------------------------------------------------

Worker(w) ==
  \/ Fetch(w) \/ Autoflush(w) \/ MarkDuplicate(w) \/ NoDuplicate(w)
  \/ Classify(w) \/ Commit(w)
  \/ ClassifyOpen(w) \/ EndAborted(w) \/ DeadlockVictim(w)

Environment ==
  \/ \E e \in Events : Insert(e) /\ UNCHANGED processorVars
  \/ AdvanceClock(MaxNow) /\ UNCHANGED processorVars
  \/ RequeueFailed /\ Fault("requeue") /\ UNCHANGED <<workerVars, llmRows>>

Next ==
  \/ \E w \in Workers : Worker(w) \/ DedupFails(w) \/ Crash(w)
  \/ Environment

Spec == Init /\ [][Next]_vars

\* The interval job starts every worker again and again, and Postgres grants a
\* lock to the session that has been waiting for it.
Fairness ==
  \A w \in Workers : WF_vars(Worker(w)) /\ SF_vars(Autoflush(w)) /\ SF_vars(Commit(w))

FairSpec == Spec /\ Fairness

-----------------------------------------------------------------------------
(* Properties                                                               *)

TypeOK == DbTypeOK /\ ProcessorTypeOK

\* A worker only ever holds rows which are still new for everybody else, and
\* nobody holds a row of another worker: what it read under FOR UPDATE SKIP
\* LOCKED (worker.py:40-48) is still true when it commits many awaits later.
ClaimsAreFresh ==
  \A w \in Workers :
    /\ \A e \in Locked(w) : row[e].status = "new"
    /\ \A c \in Clients \ {w} : Locked(w) \cap (Locked(c) \cup keyShare[c]) = {}

\* Postgres aborts w's transaction, or w's next statement has nothing to wait for.
GoesOn(w) ==
  /\ w \in Workers /\ pc[w] # "idle"
  /\ Waits(w) => pc[w] \in {"flush", "commit"} /\ Deadlocked(w)

\* Whoever a blocked run waits for, and they in their turn, among them is a run
\* that goes on, or that Postgres ends as a member of a deadlock: no run waits for
\* rows of a session nobody will end (each run leaves "async with", worker.py:40),
\* and none holds up a deadlock from within its LLM call.
BlockedRunsAreReleased ==
  \A S \in SUBSET Clients : Blocked(S) => \E w \in S : GoesOn(w)

\* No two events are each marked the duplicate of the other: some row of a pair
\* of similar events is left to tell the story.  No code states it; with several
\* workers it rests on the foreign key of models.py:84 alone.
NoMutualDuplicates ==
  \A e, f \in Events : row[e].dup = f => row[f].dup # e

\* Every set of duplicates points out of itself, so that following duplicate_of
\* from any duplicate ends at an event that is none: the story was kept once
\* ("pointing at the original", worker.py:24).
DuplicatesLeadToOriginals ==
  \A S \in SUBSET {e \in Events : row[e].status = "duplicate"} :
    S # {} => \E e \in S : row[e].dup \notin S

\* An event given up has used up its attempts, one waiting for the LLM has some
\* left (classifier.py:38-40), and a processed one has cost one recorded call.
AttemptsAreAccounted ==
  \A e \in Events :
    /\ row[e].status = "failed" => row[e].retry = MaxRetries
    /\ row[e].status \in {"new", "processed", "skipped"} => row[e].retry < MaxRetries
    /\ llmRows[e] = IF row[e].status = "processed" THEN 1 ELSE 0

\* The queue the other services see, without workers, locks or failures.
Queue == INSTANCE EventQueue WITH st <- [e \in Events |-> row[e].status],
                                  calls <- llmRows

\* Every step of the workers, and every failure, is a step of the queue or none.
QueueSpec == Queue!Spec

\* Every new event is settled in the end, whatever workers contend for it and
\* as long as faults do not go on for ever.
NewEventsAreSettled ==
  \A e \in Events : row[e].status = "new" ~> row[e].status # "new"

\* worker.py:53 and dedup-digest-design.md:75-77: after a failed duplicate check
\* the event is classified normally, so the run leaves its row changed.
FailOpenClassifies ==
  [][\A w \in Workers :
       pc[w] = "aborted" /\ pc'[w] = "idle" => row'[Current(w)] # row[Current(w)]]_vars
=============================================================================
