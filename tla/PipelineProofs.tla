---------------------------- MODULE PipelineProofs ----------------------------
(***************************************************************************)
(* Theorems about the services together, for any number of workers, jobs,  *)
(* events, scores, faults and mishaps, and any thresholds.  The invariant  *)
(* of the processor (ProcessorProofs) is kept by everything the notifier   *)
(* does, and the other way round.                                          *)
(***************************************************************************)
EXTENDS Pipeline, DuplicateProofs

-----------------------------------------------------------------------------
(* The inductive invariant of the notifier.                                 *)

\* What a job writes into its rows.
JobStatus == {"processed", "sent", "failed"}

\* The job that may post an event of this score.
OnPath(c, score) == IF c \in Instants THEN score >= InstantScore ELSE score < InstantScore

Total(e) == posted[e].instant + posted[e].digest

Untouched(c) ==
  /\ stage[c] = "idle" => Locked(c) = {}
  /\ stage[c] # "send" => unsent[c] = {}
  /\ unsent[c] \subseteq Locked(c)
  /\ c \in Digests /\ stage[c] = "send" => unsent[c] = Locked(c)
  /\ \A e \in unsent[c] : session[c][e].status = "processed"

\* A job holds processed events of its own path; their scores are as committed, and
\* what it has marked sent it has posted.
Posting(c) ==
  \A e \in Locked(c) :
    /\ row[e].status = "processed" /\ row[e].score # None /\ OnPath(c, row[e].score)
    /\ session[c][e].status \in JobStatus /\ session[c][e].score = row[e].score
    /\ WellMarked(session[c][e]) /\ Attempts(session[c][e])
    /\ session[c][e].status = "sent" => Total(e) >= 1

JobOK(c) == Untouched(c) /\ Posting(c)

\* What the committed row of an event tells about its past.
OnRecord(e) ==
  /\ row[e].status = "sent" => Total(e) >= 1 /\ notes[e].delivered = 1
  /\ row[e].status # "sent" => notes[e].delivered = 0
  /\ row[e].score # None /\ row[e].status \notin {"processed", "sent"} => notes[e].failed >= 1

\* ... as long as nobody has requeued an event.
NotRequeued(e) ==
  mishaps["requeue"] = 0 =>
    /\ row[e].status \in {"absent", "new", "skipped", "duplicate"} =>
         Total(e) = 0 /\ notes[e].delivered = 0 /\ notes[e].failed = 0
    /\ posted[e].instant > 0 => row[e].score # None /\ row[e].score >= InstantScore
    /\ posted[e].digest > 0 => row[e].score # None /\ row[e].score < InstantScore

\* Each call was recorded when an event left the queue, which it does again only
\* after a requeue.
Billed(e) ==
  /\ Total(e) > 0 \/ row[e].status \in {"processed", "sent"} => llmRows[e] >= 1
  /\ llmRows[e] <= mishaps["requeue"] + (IF row[e].status \in {"absent", "new"} THEN 0 ELSE 1)

\* Some job has marked e sent and not committed it yet.
Settling(e) == \E c \in Notifiers : e \in Locked(c) /\ session[c][e].status = "sent"

\* A copy in the channel is the one that counts, or is paid for by a mishap.
Paid(e) ==
  Total(e) <= mishaps["stop"] + mishaps["unconfirmed"]
                + (IF row[e].status = "sent" \/ Settling(e) THEN 1 ELSE 0)

History(e) == OnRecord(e) /\ NotRequeued(e) /\ Billed(e) /\ Paid(e)

NInv ==
  /\ NotifierTypeOK
  /\ \A c \in Notifiers : JobOK(c)
  /\ \A e \in Events : History(e)

PInv == Inv /\ NInv

-----------------------------------------------------------------------------

\* Jobs and workers are different sessions.
LEMMA JobsAreClients ==
  /\ Notifiers \subseteq Clients /\ Workers \subseteq Clients
  /\ \A c \in Notifiers : c \notin Workers
BY NotifiersAssumption, WorkersAssumption, ServicesAssumption

\* An answer that stands for more copies than it confirms costs a mishap.
LEMMA AnswerEffect ==
  ASSUME NotifierTypeOK, NEW answer \in Answer, Answered(answer)
  PROVE  /\ mishaps' \in [MishapKinds -> Nat]
         /\ mishaps'["stop"] = mishaps["stop"] /\ mishaps'["requeue"] = mishaps["requeue"]
         /\ answer.copies \in Nat
         /\ mishaps["unconfirmed"] \in Nat /\ mishaps'["unconfirmed"] \in Nat
         /\ answer.returned => /\ answer.copies >= 1
                                   /\ answer.copies + mishaps["unconfirmed"]
                                        <= mishaps'["unconfirmed"] + 1
         /\ ~answer.returned => answer.copies + mishaps["unconfirmed"]
                                      <= mishaps'["unconfirmed"]
<1>1. /\ answer.returned \in BOOLEAN /\ answer.copies \in Nat
      /\ answer.returned => answer.copies > 0
  BY DEF Answer, MaxCopies
<1> USE <1>1 DEF NotifierTypeOK, MishapKinds
<1>2. CASE answer.copies = 0
  BY <1>2 DEF Answered, Mishap
<1>3. CASE answer.copies # 0
  BY <1>3 DEF Answered, Unconfirmed
<1> QED BY <1>2, <1>3

LEMMA PostsEffect ==
  ASSUME NotifierTypeOK, NEW e \in Events, NEW answer \in Answer, answer.copies \in Nat
  PROVE  /\ Posts(e, "instant", answer) \in [instant : Nat, digest : Nat]
         /\ Posts(e, "instant", answer).instant = posted[e].instant + answer.copies
         /\ Posts(e, "instant", answer).digest = posted[e].digest
         /\ Posts(e, "digest", answer) \in [instant : Nat, digest : Nat]
         /\ Posts(e, "digest", answer).digest = posted[e].digest + answer.copies
         /\ Posts(e, "digest", answer).instant = posted[e].instant
BY DEF NotifierTypeOK, Posts

\* Whatever changes only rows that are not processed leaves the jobs as they are.
LEMMA JobsUndisturbed ==
  ASSUME PInv, stage' = stage, unsent' = unsent, posted' = posted,
         \A c \in Notifiers : session'[c] = session[c],
         \A e \in Events : row[e].status = "processed" => row'[e] = row[e]
  PROVE  /\ \A c \in Notifiers : JobOK(c)'
         /\ \A e \in Events : Settling(e)' = Settling(e) /\ Total(e)' = Total(e)
<1>1. \A c \in Notifiers : Locked(c)' = Locked(c) /\ Locked(c) \subseteq Events
  BY JobsAreClients DEF Locked, PInv, Inv, TypeOK, DbTypeOK
<1>2. ASSUME NEW c \in Notifiers PROVE JobOK(c)'
  <2>1. JobOK(c)
    BY DEF PInv, NInv
  <2>2. Untouched(c)'
    BY <1>1, <2>1 DEF JobOK, Untouched
  <2>3. \A e \in Locked(c) : row'[e] = row[e] /\ Total(e)' = Total(e)
    BY <1>1, <2>1 DEF JobOK, Posting, Total
  <2>4. Posting(c)'
    BY <1>1, <2>1, <2>3 DEF JobOK, Posting
  <2> QED BY <2>2, <2>4 DEF JobOK
<1>3. ASSUME NEW e \in Events PROVE Settling(e)' = Settling(e) /\ Total(e)' = Total(e)
  BY <1>1 DEF Settling, Total
<1> QED BY <1>2, <1>3

\* A step of a worker, seen from the other sessions: some new rows are settled.
LEMMA WorkerEffect ==
  ASSUME Inv, NEW w \in Workers, Worker(w) \/ DedupFails(w) \/ Crash(w)
  PROVE  /\ \A d \in Clients \ {w} : session'[d] = session[d]
         /\ \A e \in Events :
              \/ row'[e] = row[e] /\ llmRows'[e] = llmRows[e]
              \/ /\ row[e].status = "new" /\ row'[e].status \in WorkerStatus
                 /\ row'[e].status # "processed" => row'[e].score = row[e].score
                 /\ llmRows'[e] = IF row'[e].status = "processed" THEN llmRows[e] + 1
                                                                  ELSE llmRows[e]
<1>1. w \in Clients /\ DbTypeOK
  BY WorkersAssumption DEF Inv, TypeOK
<1>2. ASSUME NEW d \in Clients \ {w} PROVE session'[d] = session[d]
  <2>1. session' = session \/ \E x : session' = [session EXCEPT ![w] = x]
    BY DEF Worker, Fetch, Autoflush, MarkDuplicate, NoDuplicate, Classify, Commit,
       ClassifyOpen, EndAborted, DeadlockVictim, DedupFails, Crash, EndRun, Rollback, Lock,
       FlushRows, Assign, CommitRows, CloseSession, dbVars
  <2> QED BY <1>1, <2>1 DEF DbTypeOK
<1>3. CASE Commit(w)
  <2>1. /\ \A e \in Locked(w) : row'[e] = session[w][e]
        /\ \A e \in Events \ Locked(w) : row'[e] = row[e]
    BY <1>1, <1>3, CommitEffect DEF Commit
  <2>2. \A e \in Events : llmRows'[e] =
          IF e \in Locked(w) /\ session[w][e].status = "processed"
          THEN llmRows[e] + 1 ELSE llmRows[e]
    BY <1>3 DEF Commit
  <2>3. \A e \in Locked(w) :
          /\ row[e].status = "new" /\ session[w][e].status \in WorkerStatus
          /\ session[w][e].status # "processed" => session[w][e].score = row[e].score
    BY DEF Inv, WorkerOK, ClaimOf, Settles
  <2> QED BY <1>2, <2>1, <2>2, <2>3
<1>4. CASE ~ Commit(w)
  BY <1>2, <1>4, QuietSteps
<1> QED BY <1>3, <1>4

LEMMA ProcessorStepInv == ASSUME PInv, ProcessorStep PROVE PInv'
<1>1. PICK w \in Workers : Worker(w) \/ DedupFails(w) \/ Crash(w)
  BY DEF ProcessorStep
<1>2. Inv'
  BY <1>1, WorkerInv DEF PInv
<1>3. stage' = stage /\ unsent' = unsent /\ posted' = posted /\ notes' = notes
      /\ mishaps' = mishaps
  BY DEF ProcessorStep, notifierVars
<1>4. /\ \A c \in Notifiers : session'[c] = session[c]
      /\ \A e \in Events :
           \/ row'[e] = row[e] /\ llmRows'[e] = llmRows[e]
           \/ /\ row[e].status = "new" /\ row'[e].status \in WorkerStatus
              /\ row'[e].status # "processed" => row'[e].score = row[e].score
              /\ llmRows'[e] = IF row'[e].status = "processed" THEN llmRows[e] + 1
                                                               ELSE llmRows[e]
  BY <1>1, WorkerEffect, JobsAreClients DEF PInv
<1>5. /\ \A c \in Notifiers : JobOK(c)'
      /\ \A e \in Events : Settling(e)' = Settling(e) /\ Total(e)' = Total(e)
  BY <1>3, <1>4, JobsUndisturbed
<1>6. NotifierTypeOK'
  BY <1>3 DEF PInv, NInv, NotifierTypeOK
<1>7. ASSUME NEW e \in Events PROVE History(e)'
  <2>1. /\ History(e) /\ Total(e) \in Nat /\ llmRows[e] \in Nat
        /\ mishaps["requeue"] \in Nat
        /\ posted[e].instant \in Nat /\ posted[e].digest \in Nat
    BY DEF PInv, NInv, Inv, TypeOK, ProcessorTypeOK, NotifierTypeOK, Total, MishapKinds
  <2>2. OnRecord(e)'
    BY <1>3, <1>4, <1>5, <2>1 DEF History, OnRecord, WorkerStatus
  <2>3. NotRequeued(e)'
    <3>1. mishaps["requeue"] = 0 /\ row[e].status = "new" =>
            posted[e].instant = 0 /\ posted[e].digest = 0
      BY <2>1 DEF History, NotRequeued, Total
    <3>2. posted'[e] = posted[e] /\ notes'[e] = notes[e]
      BY <1>3
    <3>3. CASE row'[e] = row[e]
      BY <1>3, <1>5, <2>1, <3>2, <3>3 DEF History, NotRequeued
    <3>4. CASE row[e].status = "new" /\ row'[e].status \in WorkerStatus
      BY <1>3, <1>5, <2>1, <3>1, <3>2, <3>4 DEF History, NotRequeued
    <3> QED BY <1>4, <3>3, <3>4
  <2>4. Billed(e)'
    BY <1>3, <1>4, <1>5, <2>1 DEF History, Billed, WorkerStatus
  <2>5. Paid(e)'
    BY <1>3, <1>4, <1>5, <2>1 DEF History, Paid, WorkerStatus
  <2> QED BY <2>2, <2>3, <2>4, <2>5 DEF History
<1> QED BY <1>2, <1>5, <1>6, <1>7 DEF PInv, NInv

LEMMA InitPInv == ASSUME PipelineInit PROVE PInv
<1>1. Inv
  BY InitInv DEF PipelineInit
<1>2. \A c \in Notifiers : Locked(c) = {}
  BY JobsAreClients DEF PipelineInit, NotifierInit, DbInit, Locked, NoRows
<1>3. NotifierTypeOK
  BY DEF PipelineInit, NotifierInit, NotifierTypeOK, Stage
<1>4. \A c \in Notifiers : JobOK(c)
  BY <1>2 DEF PipelineInit, NotifierInit, JobOK, Untouched, Posting
<1>5. ASSUME NEW e \in Events PROVE History(e)
  <2>1. /\ row[e].status = "absent" /\ row[e].score = None /\ llmRows[e] = 0
        /\ notes[e].delivered = 0 /\ notes[e].failed = 0
        /\ posted[e].instant = 0 /\ posted[e].digest = 0
        /\ mishaps["requeue"] = 0 /\ mishaps["stop"] = 0 /\ mishaps["unconfirmed"] = 0
    BY DEF PipelineInit, NotifierInit, Init, DbInit, ProcessorInit, FreshRow, MishapKinds
  <2>2. ~ Settling(e)
    BY <1>2 DEF Settling
  <2> QED
    BY <2>1, <2>2 DEF History, OnRecord, NotRequeued, Billed, Paid, Total
<1> QED BY <1>1, <1>3, <1>4, <1>5 DEF PInv, NInv

\* An event that arrives has no past.
LEMMA ArrivalInv ==
  ASSUME PInv, NEW x \in Events, Insert(x), UNCHANGED <<processorVars, notifierVars>>
  PROVE  PInv'
<1>1. Inv'
  BY InsertInv DEF PInv
<1>2. /\ stage' = stage /\ unsent' = unsent /\ posted' = posted /\ notes' = notes
      /\ mishaps' = mishaps /\ llmRows' = llmRows /\ session' = session
      /\ row[x].status = "absent" /\ row' = [row EXCEPT ![x] = FreshRow]
      /\ row \in [Events -> Row]
  BY DEF Insert, processorVars, notifierVars, PInv, Inv, TypeOK, DbTypeOK
<1>3. /\ \A c \in Notifiers : JobOK(c)'
      /\ \A e \in Events : Settling(e)' = Settling(e) /\ Total(e)' = Total(e)
  BY <1>2, JobsUndisturbed
<1>4. NotifierTypeOK'
  BY <1>2 DEF PInv, NInv, NotifierTypeOK
<1>5. ASSUME NEW e \in Events PROVE History(e)'
  <2>1. History(e) /\ Total(e) \in Nat /\ posted[e].instant \in Nat /\ posted[e].digest \in Nat
    BY DEF PInv, NInv, NotifierTypeOK, Total
  <2>2. CASE e # x
    <3>1. row'[e] = row[e] /\ posted'[e] = posted[e] /\ notes'[e] = notes[e]
          /\ llmRows'[e] = llmRows[e]
      BY <1>2, <2>2
    <3> QED
      BY <1>2, <1>3, <2>1, <3>1 DEF History, OnRecord, NotRequeued, Billed, Paid
  <2>3. CASE e = x
    <3>1. /\ row'[e].status = "new" /\ row'[e].score = None /\ posted'[e] = posted[e]
          /\ notes'[e] = notes[e] /\ llmRows'[e] = llmRows[e] /\ row[e].status = "absent"
      BY <1>2, <2>3 DEF FreshRow
    <3>2. mishaps["requeue"] = 0 => posted[e].instant = 0 /\ posted[e].digest = 0
      BY <2>1, <3>1 DEF History, NotRequeued, Total
    <3> QED
      BY <1>2, <1>3, <2>1, <3>1, <3>2 DEF History, OnRecord, NotRequeued, Billed, Paid
  <2> QED BY <2>2, <2>3
<1> QED BY <1>1, <1>3, <1>4, <1>5 DEF PInv, NInv

\* A requeue makes failed events new again and keeps their past.
LEMMA PipelineRequeueInv ==
  ASSUME PInv, RequeueFailed, Mishap("requeue"),
         UNCHANGED <<processorVars, stage, unsent, notes, posted>>
  PROVE  PInv'
<1>1. Inv'
  <2>1. faults' \in [FaultKinds -> Nat] /\ UNCHANGED <<workerVars, llmRows>>
    BY DEF PInv, Inv, TypeOK, ProcessorTypeOK, processorVars, workerVars
  <2> QED BY <2>1, RequeueInv DEF PInv
<1>2. /\ stage' = stage /\ unsent' = unsent /\ posted' = posted /\ notes' = notes
      /\ llmRows' = llmRows /\ session' = session
  BY DEF RequeueFailed, processorVars
<1>3. ASSUME NEW e \in Events
      PROVE  /\ row[e].status # "failed" => row'[e] = row[e]
             /\ row[e].status = "failed" => row'[e].status = "new" /\ row'[e].score = row[e].score
  BY DEF RequeueFailed, PInv, Inv, TypeOK, DbTypeOK, Row
<1>4. /\ \A c \in Notifiers : JobOK(c)'
      /\ \A e \in Events : Settling(e)' = Settling(e) /\ Total(e)' = Total(e)
  BY <1>2, <1>3, JobsUndisturbed
<1>5. /\ mishaps' \in [MishapKinds -> Nat] /\ mishaps'["requeue"] = mishaps["requeue"] + 1
      /\ mishaps'["stop"] = mishaps["stop"]
      /\ mishaps'["unconfirmed"] = mishaps["unconfirmed"]
      /\ mishaps["requeue"] \in Nat
  BY DEF Mishap, PInv, NInv, NotifierTypeOK, MishapKinds
<1>6. NotifierTypeOK'
  BY <1>2, <1>5 DEF PInv, NInv, NotifierTypeOK
<1>7. ASSUME NEW e \in Events PROVE History(e)'
  <2>1. /\ History(e) /\ Total(e) \in Nat /\ llmRows[e] \in Nat
        /\ posted'[e] = posted[e] /\ notes'[e] = notes[e] /\ llmRows'[e] = llmRows[e]
    BY <1>2 DEF PInv, NInv, Inv, TypeOK, ProcessorTypeOK, NotifierTypeOK, Total
  <2>2. NotRequeued(e)'
    BY <1>5 DEF NotRequeued
  <2>3. OnRecord(e)' /\ Billed(e)'
    BY <1>3, <1>4, <1>5, <2>1 DEF History, OnRecord, Billed
  <2>4. Paid(e)'
    BY <1>3, <1>4, <1>5, <2>1 DEF History, Paid
  <2> QED BY <2>2, <2>3, <2>4 DEF History
<1> QED BY <1>1, <1>4, <1>6, <1>7 DEF PInv, NInv

LEMMA PipelineClockInv ==
  ASSUME PInv, AdvanceClock(MaxNow), UNCHANGED <<processorVars, notifierVars>>
  PROVE  PInv'
<1>1. Inv'
  BY ClockInv DEF PInv
<1>2. /\ stage' = stage /\ unsent' = unsent /\ posted' = posted /\ notes' = notes
      /\ mishaps' = mishaps /\ llmRows' = llmRows /\ session' = session /\ row' = row
  BY DEF AdvanceClock, processorVars, notifierVars
<1>3. /\ \A c \in Notifiers : JobOK(c)'
      /\ \A e \in Events : Settling(e)' = Settling(e) /\ Total(e)' = Total(e)
  BY <1>2, JobsUndisturbed
<1>4. NotifierTypeOK'
  BY <1>2 DEF PInv, NInv, NotifierTypeOK
<1>5. ASSUME NEW e \in Events PROVE History(e)'
  BY <1>2, <1>3 DEF PInv, NInv, History, OnRecord, NotRequeued, Billed, Paid
<1> QED BY <1>1, <1>3, <1>4, <1>5 DEF PInv, NInv

-----------------------------------------------------------------------------
(* Every action of a job keeps the invariants.                              *)

\* The processor does not notice what a job does.
LEMMA JobKeepsInv ==
  ASSUME Inv, NEW c \in Notifiers, DbTypeOK', LocksExclude', UNCHANGED processorVars,
         \A d \in Clients \ {c} : session'[d] = session[d],
         \A e \in Events :
           \/ row'[e] = row[e]
           \/ row[e].status # "new" /\ WellMarked(row'[e]) /\ Attempts(row'[e])
  PROVE  Inv'
<1>1. UNCHANGED <<workerVars, llmRows>> /\ faults' \in [FaultKinds -> Nat]
  BY DEF processorVars, Inv, TypeOK, ProcessorTypeOK
<1>2. \A w \in Workers : session'[w] = session[w]
  BY JobsAreClients
<1> QED BY <1>1, <1>2, OutsideInv

\* A job that the step does not concern stays as it should be.
LEMMA OtherJob ==
  ASSUME PInv, NEW d \in Notifiers, session'[d] = session[d], stage'[d] = stage[d],
         unsent'[d] = unsent[d], \A e \in Locked(d) : row'[e] = row[e],
         \A e \in Events : Total(e)' \in Nat /\ Total(e)' >= Total(e)
  PROVE  JobOK(d)'
<1>1. JobOK(d) /\ Locked(d)' = Locked(d) /\ Locked(d) \subseteq Events
  BY JobsAreClients DEF Locked, PInv, NInv, Inv, TypeOK, DbTypeOK
<1>2. Untouched(d)'
  BY <1>1 DEF JobOK, Untouched
<1>3. ASSUME NEW e \in Locked(d), Total(e) >= 1 PROVE Total(e)' >= 1
  <2>1. Total(e) \in Nat /\ Total(e)' \in Nat /\ Total(e)' >= Total(e)
    BY <1>1 DEF PInv, NInv, NotifierTypeOK, Total
  <2> QED BY <1>3, <2>1
<1>4. Posting(d)'
  BY <1>1, <1>3 DEF JobOK, Posting
<1> QED BY <1>2, <1>4 DEF JobOK

\* A job claims the rows of S, all processed and on its path.
LEMMA ClaimInv ==
  ASSUME PInv, NEW c \in Notifiers, stage[c] = "idle", NEW S \in SUBSET Free(c),
         \A e \in S : row[e].status = "processed" /\ row[e].score # None
                                                  /\ OnPath(c, row[e].score),
         Lock(c, S), unsent' = [unsent EXCEPT ![c] = S], Step(c, "send"),
         UNCHANGED <<notes, posted, mishaps>>, UNCHANGED processorVars
  PROVE  PInv'
<1>1. /\ c \in Clients /\ DbTypeOK /\ LocksExclude /\ RowsOK /\ JobOK(c) /\ NotifierTypeOK
      /\ Locked(c) = {} /\ S \subseteq Events
  BY JobsAreClients DEF PInv, NInv, Inv, TypeOK, JobOK, Untouched, Free
<1>2. /\ DbTypeOK' /\ LocksExclude' /\ row' = row /\ Locked(c)' = S
      /\ \A e \in S : session'[c][e] = row[e]
      /\ \A d \in Clients \ {c} : session'[d] = session[d]
  BY <1>1, LockEffect
<1>3. Inv'
  BY <1>2, JobKeepsInv DEF PInv
<1>4. /\ stage'[c] = "send" /\ unsent'[c] = S
      /\ \A d \in Notifiers \ {c} : stage'[d] = stage[d] /\ unsent'[d] = unsent[d]
      /\ NotifierTypeOK'
  BY <1>1 DEF Step, NotifierTypeOK, Stage
<1>5. \A e \in Events : Total(e)' = Total(e) /\ Total(e) \in Nat
  BY <1>1 DEF Total, NotifierTypeOK
<1>6. JobOK(c)'
  <2>1. Untouched(c)'
    BY <1>2, <1>4 DEF Untouched
  <2>2. Posting(c)'
    BY <1>1, <1>2 DEF Posting, JobStatus, RowsOK
  <2> QED BY <2>1, <2>2 DEF JobOK
<1>7. ASSUME NEW d \in Notifiers PROVE JobOK(d)'
  BY <1>2, <1>4, <1>5, <1>6, OtherJob, JobsAreClients
<1>8. ASSUME NEW e \in Events PROVE Settling(e)' = Settling(e)
  <2>1. \A d \in Notifiers \ {c} : Locked(d)' = Locked(d) /\ session'[d] = session[d]
    BY <1>2, JobsAreClients DEF Locked
  <2>2. \A f \in S : session'[c][f].status # "sent"
    BY <1>2
  <2> QED BY <1>1, <1>2, <2>1, <2>2 DEF Settling
<1>9. ASSUME NEW e \in Events PROVE History(e)'
  <2>1. llmRows' = llmRows
    BY DEF processorVars
  <2> QED
    BY <1>2, <1>5, <1>8, <2>1 DEF PInv, NInv, History, OnRecord, NotRequeued, Billed, Paid
<1> QED BY <1>3, <1>4, <1>7, <1>9 DEF PInv, NInv

LEMMA InstantFetchInv ==
  ASSUME PInv, NEW c \in Instants, InstantFetch(c), UNCHANGED processorVars
  PROVE  PInv'
<1>1. PICK S \in SUBSET {e \in Free(c) : Pingable(row[e])} :
        Lock(c, S) /\ unsent' = [unsent EXCEPT ![c] = S]
  BY DEF InstantFetch
<1>2. S \in SUBSET Free(c) /\ c \in Notifiers
  BY <1>1 DEF Notifiers
<1>3. \A e \in S : row[e].status = "processed" /\ row[e].score # None
                                               /\ OnPath(c, row[e].score)
  BY <1>1 DEF Pingable, OnPath
<1> QED BY <1>1, <1>2, <1>3, ClaimInv DEF InstantFetch

LEMMA DigestFetchInv ==
  ASSUME PInv, NEW c \in Digests, DigestFetch(c), UNCHANGED processorVars
  PROVE  PInv'
<1> DEFINE S == {e \in Free(c) : Band(row[e])}
<1>1. Lock(c, S) /\ unsent' = [unsent EXCEPT ![c] = S]
  BY DEF DigestFetch
<1>2. S \in SUBSET Free(c) /\ c \in Notifiers
  BY DEF Notifiers
<1>3. \A e \in S : row[e].status = "processed" /\ row[e].score # None
                                               /\ OnPath(c, row[e].score)
  BY NotifiersAssumption DEF Band, OnPath
<1> HIDE DEF S
<1> QED BY <1>1, <1>2, <1>3, ClaimInv DEF DigestFetch

\* What a job writes into a row it has fetched.
LEMMA SendValue ==
  ASSUME NEW r \in Row, r.status = "processed", WellMarked(r), Attempts(r)
  PROVE  /\ Sent(r) \in Row /\ Sent(r).status = "sent" /\ Sent(r).score = r.score
         /\ WellMarked(Sent(r)) /\ Attempts(Sent(r))
         /\ SendFailed(r) \in Row /\ SendFailed(r).status \in {"processed", "failed"}
         /\ SendFailed(r).score = r.score
         /\ WellMarked(SendFailed(r)) /\ Attempts(SendFailed(r))
<1>1. r.retry \in 0 .. 2 /\ r.dup = None
  BY DEF Row, Attempts, WellMarked, MaxRetries
<1>2. Sent(r) \in Row /\ Sent(r).status = "sent" /\ Sent(r).score = r.score
      /\ WellMarked(Sent(r)) /\ Attempts(Sent(r))
  BY <1>1 DEF Sent, Row, Status, WellMarked, Attempts
<1> DEFINE v == SendFailed(r)
<1>3. /\ v = [r EXCEPT !.retry = r.retry + 1, !.status = v.status]
      /\ \/ v.status = "failed" /\ r.retry + 1 >= 3
         \/ v.status = "processed" /\ r.retry + 1 < 3
  BY <1>1 DEF SendFailed, Row, MaxRetries
<1>4. v \in Row /\ v.score = r.score /\ v.dup = None /\ v.retry = r.retry + 1
  <2>1. r.retry + 1 \in 0 .. MaxRetries /\ v.status \in Status
    BY <1>1, <1>3 DEF MaxRetries, Status
  <2> QED BY <1>1, <1>3, <2>1 DEF Row
<1>5. WellMarked(v) /\ Attempts(v)
  BY <1>1, <1>3, <1>4 DEF WellMarked, Attempts, MaxRetries
<1> QED BY <1>2, <1>3, <1>4, <1>5

\* An event a job has not sent yet is nobody's to settle.
LEMMA NotSettling ==
  ASSUME PInv, NEW c \in Notifiers, NEW e \in Locked(c), session[c][e].status # "sent"
  PROVE  ~ Settling(e)
<1>1. \A d \in Notifiers \ {c} : e \notin Locked(d)
  BY JobsAreClients DEF PInv, Inv, LocksExclude
<1> QED BY <1>1 DEF Settling

LEMMA InstantSendInv ==
  ASSUME PInv, NEW c \in Notifiers, InstantSend(c), UNCHANGED processorVars
  PROVE  PInv'
<1>1. PICK e \in unsent[c], answer \in Answer :
        /\ Answered(answer)
        /\ posted' = [posted EXCEPT ![e] = Posts(e, "instant", answer)]
        /\ Assign(c, e, IF answer.returned THEN Sent(session[c][e])
                                               ELSE SendFailed(session[c][e]))
        /\ unsent' = [unsent EXCEPT ![c] = @ \ {e}]
        /\ Step(c, IF unsent[c] = {e} THEN "commit" ELSE "send")
  BY DEF InstantSend
<1>2. c \in Instants /\ stage[c] = "send" /\ notes' = notes /\ llmRows' = llmRows
  BY DEF InstantSend, processorVars
<1>3. /\ c \in Clients /\ DbTypeOK /\ LocksExclude /\ JobOK(c) /\ NotifierTypeOK
      /\ e \in Locked(c) /\ e \in Events /\ session[c][e] \in Row
      /\ session[c][e].status = "processed" /\ session[c][e].score = row[e].score
      /\ WellMarked(session[c][e]) /\ Attempts(session[c][e])
      /\ row[e].status = "processed" /\ row[e].score # None /\ row[e].score >= InstantScore
  BY <1>2, JobsAreClients DEF PInv, NInv, Inv, TypeOK, JobOK, Untouched, Posting, OnPath, DbTypeOK
<1> DEFINE v == IF answer.returned THEN Sent(session[c][e]) ELSE SendFailed(session[c][e])
<1>4. /\ v \in Row /\ v.status \in JobStatus /\ v.score = row[e].score
      /\ WellMarked(v) /\ Attempts(v) /\ (v.status = "sent" <=> answer.returned)
  BY <1>3, SendValue DEF JobStatus
<1>5. Assign(c, e, v)
  BY <1>1
<1> HIDE DEF v
<1>6. /\ DbTypeOK' /\ LocksExclude' /\ Locked(c)' = Locked(c) /\ row' = row
      /\ session'[c] = [session[c] EXCEPT ![e] = v]
      /\ \A d \in Clients \ {c} : session'[d] = session[d]
  BY <1>3, <1>4, <1>5, AssignEffect
<1>7. session'[c][e] = v /\ \A f \in Locked(c) \ {e} : session'[c][f] = session[c][f]
  BY <1>3, <1>6 DEF Locked
<1>8. Inv'
  BY <1>6, JobKeepsInv DEF PInv
<1>9. /\ mishaps' \in [MishapKinds -> Nat]
      /\ mishaps'["stop"] = mishaps["stop"] /\ mishaps'["requeue"] = mishaps["requeue"]
      /\ answer.copies \in Nat
      /\ mishaps["unconfirmed"] \in Nat /\ mishaps'["unconfirmed"] \in Nat
      /\ answer.returned => /\ answer.copies >= 1
                                /\ answer.copies + mishaps["unconfirmed"]
                                     <= mishaps'["unconfirmed"] + 1
      /\ ~answer.returned => answer.copies + mishaps["unconfirmed"]
                                   <= mishaps'["unconfirmed"]
  BY <1>1, <1>3, AnswerEffect
<1>10. /\ posted'[e] \in [instant : Nat, digest : Nat]
       /\ posted'[e].instant = posted[e].instant + answer.copies
       /\ posted'[e].digest = posted[e].digest
       /\ \A f \in Events \ {e} : posted'[f] = posted[f]
       /\ posted' \in [Events -> [instant : Nat, digest : Nat]]
  BY <1>1, <1>3, <1>9, PostsEffect DEF NotifierTypeOK
<1>11. /\ Total(e)' = Total(e) + answer.copies
       /\ \A f \in Events \ {e} : Total(f)' = Total(f)
       /\ \A f \in Events : Total(f) \in Nat /\ Total(f)' \in Nat /\ Total(f)' >= Total(f)
  <2>1. \A f \in Events :
          /\ posted[f].instant \in Nat /\ posted[f].digest \in Nat
          /\ posted'[f].instant \in Nat /\ posted'[f].digest \in Nat
    BY <1>3, <1>10 DEF NotifierTypeOK
  <2>2. Total(e)' = Total(e) + answer.copies
    BY <1>3, <1>9, <1>10, <2>1 DEF Total
  <2>3. \A f \in Events \ {e} : Total(f)' = Total(f)
    BY <1>10 DEF Total
  <2>4. \A f \in Events : Total(f) \in Nat /\ Total(f)' \in Nat
    BY <2>1 DEF Total
  <2> QED BY <1>9, <2>2, <2>3, <2>4
<1>12. /\ unsent'[c] = unsent[c] \ {e}
       /\ stage'[c] = IF unsent[c] = {e} THEN "commit" ELSE "send"
       /\ \A d \in Notifiers \ {c} : stage'[d] = stage[d] /\ unsent'[d] = unsent[d]
       /\ NotifierTypeOK'
  BY <1>1, <1>2, <1>3, <1>9, <1>10 DEF Step, NotifierTypeOK, Stage
<1>13. JobOK(c)'
  <2>1. Untouched(c)'
    BY <1>2, <1>3, <1>6, <1>7, <1>12, NotifiersAssumption DEF JobOK, Untouched
  <2>2. ASSUME NEW f \in Locked(c)
        PROVE  /\ row[f].status = "processed" /\ row[f].score # None /\ OnPath(c, row[f].score)
               /\ session'[c][f].status \in JobStatus /\ session'[c][f].score = row[f].score
               /\ WellMarked(session'[c][f]) /\ Attempts(session'[c][f])
               /\ session'[c][f].status = "sent" => Total(f)' >= 1
    <3>1. f \in Events /\ Posting(c)
      BY <1>3 DEF DbTypeOK, JobOK
    <3>2. CASE f = e
      BY <1>4, <1>7, <1>9, <1>11, <3>1, <3>2 DEF Posting
    <3>3. CASE f # e
      BY <1>7, <1>11, <3>1, <3>3 DEF Posting
    <3> QED BY <3>2, <3>3
  <2>3. Posting(c)'
    BY <1>6, <2>2 DEF Posting
  <2> QED BY <2>1, <2>3 DEF JobOK
<1>14. ASSUME NEW d \in Notifiers PROVE JobOK(d)'
  BY <1>6, <1>11, <1>12, <1>13, OtherJob, JobsAreClients
<1>15. \A d \in Notifiers \ {c} : Locked(d)' = Locked(d) /\ session'[d] = session[d]
  BY <1>6, JobsAreClients DEF Locked
<1>16. ASSUME NEW f \in Events PROVE History(f)'
  <2>1. /\ History(f) /\ mishaps["stop"] \in Nat /\ llmRows[f] \in Nat
        /\ posted[f].instant \in Nat /\ posted[f].digest \in Nat
    BY DEF PInv, NInv, NotifierTypeOK, MishapKinds, Inv, TypeOK, ProcessorTypeOK
  <2>2. CASE f # e
    <3>1. Settling(f)' = Settling(f)
      BY <1>6, <1>7, <1>15, <2>2 DEF Settling
    <3>2. mishaps'["unconfirmed"] >= mishaps["unconfirmed"]
      BY <1>9
    <3>3. Paid(f)'
      BY <1>6, <1>9, <1>11, <2>1, <2>2, <3>1, <3>2 DEF History, Paid
    <3> QED
      BY <1>2, <1>6, <1>9, <1>10, <1>11, <2>1, <2>2, <3>3
         DEF History, OnRecord, NotRequeued, Billed
  <2>3. CASE f = e
    <3>1. ~ Settling(e)
      BY <1>3, NotSettling
    <3>2. answer.returned => Settling(e)'
      BY <1>3, <1>4, <1>6, <1>7 DEF Settling
    <3>3. Paid(e)'
      BY <1>3, <1>6, <1>9, <1>11, <2>1, <2>3, <3>1, <3>2 DEF History, Paid
    <3>4. NotRequeued(e)'
      BY <1>2, <1>3, <1>6, <1>9, <1>10, <1>11, <2>1, <2>3 DEF History, NotRequeued
    <3>5. OnRecord(e)' /\ Billed(e)'
      BY <1>2, <1>3, <1>6, <1>9, <1>11, <2>1, <2>3 DEF History, OnRecord, Billed
    <3> QED BY <2>3, <3>3, <3>4, <3>5 DEF History
  <2> QED BY <2>2, <2>3
<1> QED BY <1>8, <1>12, <1>14, <1>16 DEF PInv, NInv

\* One embed for all rows of the batch: what becomes of each of them, and of the
\* ones the digest does not name.
LEMMA DigestSendInv ==
  ASSUME PInv, NEW c \in Notifiers, DigestSend(c), UNCHANGED processorVars
  PROVE  PInv'
<1>1. PICK answer \in Answer :
        /\ Answered(answer)
        /\ posted' = [e \in Events |-> IF e \in unsent[c] THEN Posts(e, "digest", answer)
                                                          ELSE posted[e]]
        /\ IF answer.returned
           THEN /\ session' = [session EXCEPT ![c] = [e \in Locked(c) |-> Sent(session[c][e])]]
                /\ UNCHANGED <<row, keyShare, now>>
                /\ Step(c, "commit")
           ELSE Rollback(c) /\ Step(c, "idle")
  BY DEF DigestSend
<1>2. /\ c \in Digests /\ stage[c] = "send" /\ notes' = notes /\ llmRows' = llmRows
      /\ unsent' = [unsent EXCEPT ![c] = {}]
  BY DEF DigestSend, processorVars
<1>3. /\ c \in Clients /\ c \notin Instants /\ DbTypeOK /\ LocksExclude /\ JobOK(c)
      /\ NotifierTypeOK /\ unsent[c] = Locked(c) /\ Locked(c) \subseteq Events
  BY <1>2, JobsAreClients, NotifiersAssumption
     DEF PInv, NInv, Inv, TypeOK, JobOK, Untouched, DbTypeOK
<1>4. ASSUME NEW e \in Locked(c)
      PROVE  /\ session[c][e] \in Row /\ session[c][e].status = "processed"
             /\ session[c][e].score = row[e].score
             /\ WellMarked(session[c][e]) /\ Attempts(session[c][e])
             /\ row[e].status = "processed" /\ row[e].score # None
             /\ row[e].score < InstantScore /\ OnPath(c, row[e].score)
  BY <1>3 DEF JobOK, Untouched, Posting, OnPath, DbTypeOK
<1>5. /\ mishaps' \in [MishapKinds -> Nat]
      /\ mishaps'["stop"] = mishaps["stop"] /\ mishaps'["requeue"] = mishaps["requeue"]
      /\ answer.copies \in Nat
      /\ mishaps["unconfirmed"] \in Nat /\ mishaps'["unconfirmed"] \in Nat
      /\ answer.returned => /\ answer.copies >= 1
                                /\ answer.copies + mishaps["unconfirmed"]
                                     <= mishaps'["unconfirmed"] + 1
      /\ ~answer.returned => answer.copies + mishaps["unconfirmed"]
                                   <= mishaps'["unconfirmed"]
  BY <1>1, <1>3, AnswerEffect
<1>6. /\ row' = row /\ DbTypeOK' /\ LocksExclude'
      /\ \A d \in Clients \ {c} : session'[d] = session[d]
      /\ answer.returned =>
           /\ Locked(c)' = Locked(c) /\ stage' = [stage EXCEPT ![c] = "commit"]
           /\ \A e \in Locked(c) : session'[c][e] = Sent(session[c][e])
      /\ ~answer.returned => Locked(c)' = {} /\ stage' = [stage EXCEPT ![c] = "idle"]
  <2>1. CASE answer.returned
    <3>1. /\ session'[c] = [e \in Locked(c) |-> Sent(session[c][e])]
          /\ \A d \in Clients \ {c} : session'[d] = session[d]
          /\ row' = row /\ keyShare' = keyShare /\ now' = now
          /\ stage' = [stage EXCEPT ![c] = "commit"]
      BY <1>1, <1>3, <2>1 DEF DbTypeOK, Step
    <3>2. Locked(c)' = Locked(c) /\ \A d \in Clients : Locked(d)' = Locked(d)
      BY <3>1 DEF Locked
    <3>3. \A e \in Locked(c) : Sent(session[c][e]) \in Row
      BY <1>4, SendValue
    <3>4. DbTypeOK'
      <4>1. session' \in [Clients -> {session'[d] : d \in Clients}]
        BY <1>1, <1>3, <2>1 DEF DbTypeOK
      <4>2. ASSUME NEW d \in Clients
            PROVE  Locked(d)' \subseteq Events /\ session'[d] \in [Locked(d)' -> Row]
        <5>1. CASE d = c
          BY <1>3, <3>1, <3>2, <3>3, <5>1
        <5>2. CASE d # c
          BY <1>3, <3>1, <3>2, <5>2 DEF DbTypeOK
        <5> QED BY <5>1, <5>2
      <4> QED BY <1>3, <3>1, <4>1, <4>2 DEF DbTypeOK
    <3>5. LocksExclude'
      BY <1>3, <3>1, <3>2 DEF LocksExclude
    <3> QED BY <2>1, <3>1, <3>2, <3>4, <3>5
  <2>2. CASE ~answer.returned
    BY <1>1, <1>3, <2>2, RollbackEffect DEF Step
  <2> QED BY <2>1, <2>2
<1>7. Inv'
  BY <1>6, JobKeepsInv DEF PInv
<1>8. /\ posted' \in [Events -> [instant : Nat, digest : Nat]]
      /\ \A e \in Locked(c) : /\ posted'[e].digest = posted[e].digest + answer.copies
                              /\ posted'[e].instant = posted[e].instant
      /\ \A e \in Events \ Locked(c) : posted'[e] = posted[e]
  BY <1>1, <1>3, <1>5, PostsEffect DEF NotifierTypeOK
<1>9. /\ \A e \in Events :
           /\ posted[e].instant \in Nat /\ posted[e].digest \in Nat
           /\ posted'[e].instant \in Nat /\ posted'[e].digest \in Nat
           /\ Total(e) \in Nat /\ Total(e)' \in Nat
      /\ \A e \in Locked(c) : Total(e)' = Total(e) + answer.copies
      /\ \A e \in Events \ Locked(c) : Total(e)' = Total(e)
  <2>1. \A e \in Events :
          /\ posted[e].instant \in Nat /\ posted[e].digest \in Nat
          /\ posted'[e].instant \in Nat /\ posted'[e].digest \in Nat
    BY <1>3, <1>8 DEF NotifierTypeOK
  <2>2. \A e \in Locked(c) : Total(e)' = Total(e) + answer.copies
    BY <1>3, <1>5, <1>8, <2>1 DEF Total
  <2>3. \A e \in Events \ Locked(c) : Total(e)' = Total(e)
    BY <1>8 DEF Total
  <2>4. \A e \in Events : Total(e) \in Nat /\ Total(e)' \in Nat
    BY <2>1 DEF Total
  <2> QED BY <2>1, <2>2, <2>3, <2>4
<1>10. \A e \in Events : Total(e)' \in Nat /\ Total(e)' >= Total(e)
  <2>1. ASSUME NEW e \in Events PROVE Total(e)' >= Total(e)
    <3>1. Total(e)' = Total(e) \/ Total(e)' = Total(e) + answer.copies
      BY <1>9
    <3> QED BY <1>5, <1>9, <3>1
  <2> QED BY <1>9, <2>1
<1>11. /\ unsent'[c] = {} /\ stage'[c] = IF answer.returned THEN "commit" ELSE "idle"
       /\ \A d \in Notifiers \ {c} : stage'[d] = stage[d] /\ unsent'[d] = unsent[d]
       /\ NotifierTypeOK'
  BY <1>2, <1>3, <1>5, <1>6, <1>8 DEF NotifierTypeOK, Stage
<1>12. JobOK(c)'
  <2>1. Untouched(c)'
    BY <1>6, <1>11 DEF Untouched
  <2>2. CASE ~answer.returned
    BY <1>6, <2>1, <2>2 DEF JobOK, Posting
  <2>3. CASE answer.returned
    <3>1. ASSUME NEW e \in Locked(c)
          PROVE  /\ row'[e] = row[e] /\ session'[c][e].status = "sent"
                 /\ session'[c][e].score = row[e].score
                 /\ WellMarked(session'[c][e]) /\ Attempts(session'[c][e])
                 /\ Total(e)' >= 1
      <4>1. Total(e)' = Total(e) + answer.copies /\ Total(e) \in Nat
        BY <1>3, <1>9
      <4>2. Total(e)' >= 1
        BY <1>5, <2>3, <4>1
      <4> QED BY <1>4, <1>6, <2>3, <4>2, SendValue
    <3>2. Posting(c)'
      BY <1>4, <1>6, <2>3, <3>1 DEF Posting, JobStatus
    <3> QED BY <2>1, <3>2 DEF JobOK
  <2> QED BY <2>2, <2>3
<1>13. ASSUME NEW d \in Notifiers PROVE JobOK(d)'
  BY <1>6, <1>10, <1>11, <1>12, OtherJob, JobsAreClients
<1>14. \A d \in Notifiers \ {c} : Locked(d)' = Locked(d) /\ session'[d] = session[d]
  BY <1>6, JobsAreClients DEF Locked
<1>15. ASSUME NEW e \in Events PROVE History(e)'
  <2>1. History(e) /\ mishaps["stop"] \in Nat /\ llmRows[e] \in Nat
    BY DEF PInv, NInv, NotifierTypeOK, MishapKinds, Inv, TypeOK, ProcessorTypeOK
  <2>2. CASE e \notin Locked(c)
    <3>1. Settling(e)' = Settling(e)
      BY <1>6, <1>14, <2>2 DEF Settling
    <3>2. mishaps'["unconfirmed"] >= mishaps["unconfirmed"]
      BY <1>5
    <3>3. Paid(e)'
      BY <1>5, <1>6, <1>9, <2>1, <2>2, <3>1, <3>2 DEF History, Paid
    <3> QED
      BY <1>2, <1>5, <1>6, <1>8, <1>9, <2>1, <2>2, <3>3
         DEF History, OnRecord, NotRequeued, Billed
  <2>3. CASE e \in Locked(c)
    <3>1. ~ Settling(e)
      BY <1>4, <2>3, NotSettling
    <3>2. answer.returned => Settling(e)'
      BY <1>4, <1>6, <2>3, SendValue DEF Settling
    <3>3. Paid(e)'
      BY <1>4, <1>5, <1>6, <1>9, <2>1, <2>3, <3>1, <3>2 DEF History, Paid
    <3>4. NotRequeued(e)'
      BY <1>2, <1>4, <1>5, <1>6, <1>8, <1>9, <2>1, <2>3 DEF History, NotRequeued
    <3>5. OnRecord(e)' /\ Billed(e)'
      BY <1>2, <1>4, <1>5, <1>6, <1>9, <2>1, <2>3 DEF History, OnRecord, Billed
    <3> QED BY <3>3, <3>4, <3>5 DEF History
  <2> QED BY <2>2, <2>3
<1> QED BY <1>7, <1>11, <1>13, <1>15 DEF PInv, NInv

\* The commit of a job puts its rows and their notifications on record at once.
LEMMA NotifierCommitInv ==
  ASSUME PInv, NEW c \in Notifiers, NotifierCommit(c), UNCHANGED processorVars
  PROVE  PInv'
<1>1. /\ c \in Clients /\ DbTypeOK /\ LocksExclude /\ NotifierTypeOK /\ JobOK(c)
      /\ Locked(c) \subseteq Events /\ unsent[c] = {}
  BY JobsAreClients DEF PInv, NInv, Inv, TypeOK, DbTypeOK, NotifierCommit, JobOK, Untouched
<1>2. CommitRows(c) /\ unsent' = unsent /\ posted' = posted /\ mishaps' = mishaps
      /\ llmRows' = llmRows /\ stage' = [stage EXCEPT ![c] = "idle"]
  BY DEF NotifierCommit, Step, processorVars
<1>3. /\ DbTypeOK' /\ LocksExclude' /\ Locked(c)' = {}
      /\ \A d \in Clients \ {c} : session'[d] = session[d]
      /\ \A e \in Locked(c) : row'[e] = session[c][e]
      /\ \A e \in Events \ Locked(c) : row'[e] = row[e]
  BY <1>1, <1>2, CommitEffect
<1>4. /\ notes' \in [Events -> [delivered : Nat, failed : Nat]]
      /\ \A e \in Events \ Locked(c) : notes'[e] = notes[e]
      /\ \A e \in Locked(c) :
           /\ session[c][e].status = "sent" =>
                notes'[e].delivered = notes[e].delivered + 1
           /\ session[c][e].status # "sent" =>
                /\ notes'[e].delivered = notes[e].delivered
                /\ notes'[e].failed = notes[e].failed + 1
  <2> DEFINE next(e) == IF e \notin Locked(c) THEN notes[e]
                        ELSE IF session[c][e].status = "sent"
                             THEN [notes[e] EXCEPT !.delivered = @ + 1]
                             ELSE [notes[e] EXCEPT !.failed = @ + 1]
  <2>1. ASSUME NEW e \in Events
        PROVE  /\ next(e) \in [delivered : Nat, failed : Nat]
               /\ e \notin Locked(c) => next(e) = notes[e]
               /\ e \in Locked(c) /\ session[c][e].status = "sent" =>
                    next(e).delivered = notes[e].delivered + 1
               /\ e \in Locked(c) /\ session[c][e].status # "sent" =>
                    /\ next(e).delivered = notes[e].delivered
                    /\ next(e).failed = notes[e].failed + 1
    <3>1. notes[e] \in [delivered : Nat, failed : Nat]
      BY <1>1 DEF NotifierTypeOK
    <3> QED BY <3>1
  <2>2. notes' = [e \in Events |-> next(e)]
    BY DEF NotifierCommit
  <2> HIDE DEF next
  <2> QED BY <1>1, <2>1, <2>2
<1>5. ASSUME NEW e \in Locked(c)
      PROVE  /\ row[e].status = "processed" /\ row[e].score # None
             /\ row'[e].status \in JobStatus /\ row'[e].score = row[e].score
             /\ WellMarked(row'[e]) /\ Attempts(row'[e])
             /\ row'[e].status = "sent" => Total(e) >= 1
  BY <1>1, <1>3 DEF JobOK, Posting
<1>6. Inv'
  <2>1. ASSUME NEW e \in Events
        PROVE  \/ row'[e] = row[e]
               \/ row[e].status # "new" /\ WellMarked(row'[e]) /\ Attempts(row'[e])
    BY <1>3, <1>5
  <2> QED BY <1>3, <2>1, JobKeepsInv DEF PInv
<1>7. /\ stage'[c] = "idle" /\ \A d \in Notifiers \ {c} : stage'[d] = stage[d]
      /\ NotifierTypeOK'
  BY <1>1, <1>2, <1>4 DEF NotifierTypeOK, Stage
<1>8. \A e \in Events : Total(e)' = Total(e) /\ Total(e) \in Nat
  BY <1>1, <1>2 DEF Total, NotifierTypeOK
<1>9. ASSUME NEW d \in Notifiers PROVE JobOK(d)'
  <2>1. CASE d = c
    BY <1>1, <1>2, <1>3, <1>7, <2>1 DEF JobOK, Untouched, Posting
  <2>2. CASE d # c
    <3>1. \A e \in Locked(d) : e \in Events \ Locked(c)
      BY <1>1, <2>2, JobsAreClients DEF LocksExclude, DbTypeOK
    <3>2. session'[d] = session[d] /\ stage'[d] = stage[d] /\ unsent'[d] = unsent[d]
      BY <1>2, <1>3, <1>7, <2>2, JobsAreClients
    <3>3. \A e \in Locked(d) : row'[e] = row[e]
      BY <1>3, <3>1
    <3> QED BY <1>8, <3>2, <3>3, OtherJob
  <2> QED BY <2>1, <2>2
<1>10. \A d \in Notifiers \ {c} : Locked(d)' = Locked(d) /\ session'[d] = session[d]
  BY <1>3, JobsAreClients DEF Locked
<1>11. ASSUME NEW e \in Events PROVE History(e)'
  <2>1. History(e) /\ llmRows[e] \in Nat
    BY DEF PInv, NInv, Inv, TypeOK, ProcessorTypeOK
  <2>2. CASE e \notin Locked(c)
    <3>1. Settling(e)' = Settling(e)
      BY <1>3, <1>10, <2>2 DEF Settling
    <3> QED
      BY <1>2, <1>3, <1>4, <1>8, <2>1, <2>2, <3>1
         DEF History, OnRecord, NotRequeued, Billed, Paid
  <2>3. CASE e \in Locked(c)
    <3>1. notes[e].failed \in Nat /\ notes[e].delivered = 0
      BY <1>1, <1>5, <2>1, <2>3 DEF History, OnRecord, NotifierTypeOK
    <3>2. /\ row'[e].status = "sent" => notes'[e].delivered = 1
          /\ row'[e].status # "sent" => notes'[e].delivered = 0 /\ notes'[e].failed >= 1
      BY <1>3, <1>4, <2>3, <3>1
    <3>3. OnRecord(e)'
      BY <1>5, <1>8, <2>3, <3>2 DEF OnRecord, JobStatus
    <3>4. NotRequeued(e)'
      BY <1>2, <1>5, <2>1, <2>3 DEF History, NotRequeued, JobStatus
    <3>5. Billed(e)'
      BY <1>2, <1>5, <1>8, <2>1, <2>3 DEF History, Billed, JobStatus
    <3>6. Settling(e) => row'[e].status = "sent"
      BY <1>3, <2>3, NotSettling
    <3>7. Paid(e)'
      <4>1. row[e].status # "sent" /\ Paid(e) /\ Total(e)' = Total(e) /\ mishaps' = mishaps
        BY <1>2, <1>5, <1>8, <2>1, <2>3 DEF History
      <4>2. /\ mishaps["stop"] \in Nat /\ mishaps["unconfirmed"] \in Nat /\ Total(e) \in Nat
        BY <1>1, <1>8 DEF NotifierTypeOK, MishapKinds
      <4> QED BY <3>6, <4>1, <4>2 DEF Paid
    <3> QED BY <3>3, <3>4, <3>5, <3>7 DEF History
  <2> QED BY <2>2, <2>3
<1> QED BY <1>6, <1>7, <1>9, <1>11 DEF PInv, NInv

\* A stopped job leaves the rows as they were, and its embeds in the channel.
LEMMA StopInv ==
  ASSUME PInv, NEW c \in Notifiers, Stop(c), UNCHANGED processorVars
  PROVE  PInv'
<1>1. /\ c \in Clients /\ DbTypeOK /\ LocksExclude /\ NotifierTypeOK
  BY JobsAreClients DEF PInv, NInv, Inv, TypeOK
<1>2. /\ Rollback(c) /\ posted' = posted /\ notes' = notes /\ llmRows' = llmRows
      /\ unsent' = [unsent EXCEPT ![c] = {}] /\ stage' = [stage EXCEPT ![c] = "idle"]
  BY DEF Stop, Step, processorVars
<1>3. /\ DbTypeOK' /\ LocksExclude' /\ Locked(c)' = {} /\ row' = row
      /\ \A d \in Clients \ {c} : session'[d] = session[d]
  BY <1>1, <1>2, RollbackEffect
<1>4. Inv'
  BY <1>3, JobKeepsInv DEF PInv
<1>5. /\ mishaps' \in [MishapKinds -> Nat] /\ mishaps'["stop"] = mishaps["stop"] + 1
      /\ mishaps'["requeue"] = mishaps["requeue"]
      /\ mishaps'["unconfirmed"] = mishaps["unconfirmed"]
      /\ mishaps["stop"] \in Nat /\ mishaps["unconfirmed"] \in Nat
  BY <1>1 DEF Stop, Mishap, NotifierTypeOK, MishapKinds
<1>6. /\ stage'[c] = "idle" /\ unsent'[c] = {}
      /\ \A d \in Notifiers \ {c} : stage'[d] = stage[d] /\ unsent'[d] = unsent[d]
      /\ NotifierTypeOK'
  BY <1>1, <1>2, <1>5 DEF NotifierTypeOK, Stage
<1>7. \A e \in Events : Total(e)' = Total(e) /\ Total(e) \in Nat
  BY <1>1, <1>2 DEF Total, NotifierTypeOK
<1>8. ASSUME NEW d \in Notifiers PROVE JobOK(d)'
  <2>1. CASE d = c
    BY <1>3, <1>6, <2>1 DEF JobOK, Untouched, Posting
  <2>2. CASE d # c
    BY <1>3, <1>6, <1>7, <2>2, OtherJob, JobsAreClients
  <2> QED BY <2>1, <2>2
<1>9. ASSUME NEW e \in Events PROVE History(e)'
  <2>1. History(e)
    BY DEF PInv, NInv
  <2>2. Paid(e)'
    BY <1>3, <1>5, <1>7, <2>1 DEF History, Paid
  <2> QED
    BY <1>2, <1>3, <1>5, <1>7, <2>1, <2>2 DEF History, OnRecord, NotRequeued, Billed
<1> QED BY <1>4, <1>6, <1>8, <1>9 DEF PInv, NInv

LEMMA NotifierStepInv == ASSUME PInv, NotifierStep PROVE PInv'
<1>1. PICK c \in Notifiers : Job(c) \/ Stop(c)
  BY DEF NotifierStep
<1>2. UNCHANGED processorVars
  BY DEF NotifierStep
<1> QED
  BY <1>1, <1>2, InstantFetchInv, InstantSendInv, DigestFetchInv, DigestSendInv,
     NotifierCommitInv, StopInv DEF Job

LEMMA PStutterInv == ASSUME PInv, UNCHANGED pvars PROVE PInv'
<1>1. UNCHANGED vars /\ UNCHANGED notifierVars
  BY DEF pvars, vars
<1>2. Inv'
  BY <1>1, StutterInv DEF PInv
<1>3. NInv'
  <2>1. /\ stage' = stage /\ unsent' = unsent /\ posted' = posted /\ notes' = notes
        /\ mishaps' = mishaps /\ llmRows' = llmRows /\ session' = session /\ row' = row
    BY <1>1 DEF vars, dbVars, processorVars, notifierVars
  <2>2. /\ \A c \in Notifiers : JobOK(c)'
        /\ \A e \in Events : Settling(e)' = Settling(e) /\ Total(e)' = Total(e)
    BY <2>1, JobsUndisturbed
  <2>3. \A e \in Events : History(e)'
    BY <2>1, <2>2 DEF PInv, NInv, History, OnRecord, NotRequeued, Billed, Paid
  <2> QED BY <2>1, <2>2, <2>3 DEF PInv, NInv, NotifierTypeOK
<1> QED BY <1>2, <1>3 DEF PInv

LEMMA NextPInv == PInv /\ [PipelineNext]_pvars => PInv'
<1> SUFFICES ASSUME PInv, [PipelineNext]_pvars PROVE PInv'
  OBVIOUS
<1>1. CASE Surroundings
  BY <1>1, ArrivalInv, PipelineClockInv, PipelineRequeueInv DEF Surroundings
<1> QED BY <1>1, ProcessorStepInv, NotifierStepInv, PStutterInv DEF PipelineNext

\* Both services keep the invariants of either, for every instance.
THEOREM PInvHolds == PipelineSpec => []PInv
BY InitPInv, NextPInv, PTL DEF PipelineSpec

-----------------------------------------------------------------------------
(* What the invariant says.                                                 *)

\* Every variable of both services stays in its range.
THEOREM PipelineTypes == PipelineSpec => []PipelineOK
<1>1. PInv => PipelineOK
  BY DEF PInv, NInv, Inv, TypeOK, PipelineOK, NotifierOK
<1> QED BY <1>1, PInvHolds, PTL

\* No two sessions, of whatever service, hold or pin the same row.
THEOREM ClaimsExclude == PipelineSpec => []ClaimsAreExclusive
<1>1. PInv => ClaimsAreExclusive
  BY DEF PInv, Inv, LocksExclude, ClaimsAreExclusive
<1> QED BY <1>1, PInvHolds, PTL

\* What a job is about to post is still processed, and its alone.
THEOREM PostingClaimsStayFresh == PipelineSpec => []PostingClaimsAreFresh
<1>1. PInv => PostingClaimsAreFresh
  BY JobsAreClients
     DEF PInv, NInv, Inv, LocksExclude, JobOK, Posting, PostingClaimsAreFresh
<1> QED BY <1>1, PInvHolds, PTL

\* A row marked sent has been posted and has one delivered Notification.
THEOREM SentIsPosted == PipelineSpec => []SentWasPosted
<1>1. PInv => SentWasPosted
  BY DEF PInv, NInv, History, OnRecord, Total, SentWasPosted
<1> QED BY <1>1, PInvHolds, PTL

\* A second copy needs a stopped job or a lost answer, each time anew.
THEOREM RepeatsArePaid == PipelineSpec => []RepeatsNeedMishaps
<1>1. ASSUME PInv, NEW e \in Events
      PROVE  Total(e) <= 1 + mishaps["stop"] + mishaps["unconfirmed"]
  <2>1. Paid(e) /\ Total(e) \in Nat /\ mishaps["stop"] \in Nat /\ mishaps["unconfirmed"] \in Nat
    BY <1>1 DEF PInv, NInv, History, NotifierTypeOK, MishapKinds, Total
  <2> QED BY <2>1 DEF Paid
<1>2. PInv => RepeatsNeedMishaps
  BY <1>1 DEF RepeatsNeedMishaps, Total
<1> QED BY <1>2, PInvHolds, PTL

\* Nothing is pinged and in the digest as well.
THEOREM PathsExclude == PipelineSpec => []OnePathPerEvent
<1>1. ASSUME PInv, NEW e \in Events, mishaps["requeue"] = 0
      PROVE  posted[e].instant = 0 \/ posted[e].digest = 0
  <2>1. /\ posted[e].instant > 0 => row[e].score # None /\ row[e].score >= InstantScore
        /\ posted[e].digest > 0 => row[e].score # None /\ row[e].score < InstantScore
    BY <1>1 DEF PInv, NInv, History, NotRequeued
  <2>2. posted[e].instant \in Nat /\ posted[e].digest \in Nat
    BY <1>1 DEF PInv, NInv, NotifierTypeOK
  <2>3. row[e].score # None => row[e].score \in Int
    <3>1. row[e].score \in Scores \cup {None}
      BY <1>1 DEF PInv, Inv, TypeOK, DbTypeOK, Row
    <3>2. \A s \in Scores : s \in Int
      BY ScoresAssumption
    <3>3. row[e].score # None => row[e].score \in Scores
      BY <3>1
    <3> QED BY <3>2, <3>3
  <2>4. CASE row[e].score # None
    <3>1. row[e].score \in Int /\ InstantScore \in Int
      BY <2>3, <2>4, ThresholdAssumption
    <3>2. ~ (row[e].score >= InstantScore /\ row[e].score < InstantScore)
      BY <3>1
    <3> QED BY <2>1, <2>2, <3>2
  <2>5. CASE row[e].score = None
    BY <2>1, <2>2, <2>5
  <2> QED BY <2>4, <2>5
<1>2. PInv => OnePathPerEvent
  BY <1>1 DEF OnePathPerEvent
<1> QED BY <1>2, PInvHolds, PTL

\* Nothing about a duplicate reaches the channel.
THEOREM DuplicatesStaySilent == PipelineSpec => []DuplicatesAreSilent
<1>1. ASSUME PInv, NEW e \in Events, row[e].status = "duplicate", mishaps["requeue"] = 0
      PROVE  /\ posted[e].instant + posted[e].digest = 0
             /\ notes[e].delivered + notes[e].failed = 0
  BY <1>1 DEF PInv, NInv, History, NotRequeued, Total
<1>2. PInv => DuplicatesAreSilent
  BY <1>1 DEF DuplicatesAreSilent
<1> QED BY <1>2, PInvHolds, PTL

\* An event is given up after three attempts, of whichever service.
THEOREM ParkingIsExplained == PipelineSpec => []ParkedAfterFailures
<1>1. PInv => ParkedAfterFailures
  BY DEF PInv, NInv, Inv, RowsOK, Attempts, History, OnRecord, ParkedAfterFailures
<1> QED BY <1>1, PInvHolds, PTL

\* The recorded calls cover what is in the channel, and nothing twice.
THEOREM CallsAreBilled == PipelineSpec => []CallsAreAccounted
<1>1. ASSUME PInv, NEW e \in Events
      PROVE  /\ Total(e) > 0 \/ row[e].status \in {"processed", "sent"} => llmRows[e] >= 1
             /\ llmRows[e] <= 1 + mishaps["requeue"]
  <2>1. Billed(e) /\ llmRows[e] \in Nat /\ mishaps["requeue"] \in Nat
    BY <1>1 DEF PInv, NInv, History, NotifierTypeOK, MishapKinds, Inv, TypeOK, ProcessorTypeOK
  <2> QED BY <2>1 DEF Billed
<1>2. PInv => CallsAreAccounted
  BY <1>1 DEF CallsAreAccounted, Total
<1> QED BY <1>2, PInvHolds, PTL

-----------------------------------------------------------------------------
(* Both services together implement the queue.                              *)

\* The commit of a job delivers a batch of processed events.
LEMMA QueueDeliver ==
  ASSUME PInv, NEW c \in Notifiers, NotifierCommit(c), llmRows' = llmRows
  PROVE  Queue!Deliver
<1>1. c \in Clients /\ DbTypeOK /\ CommitRows(c) /\ Posting(c)
  BY JobsAreClients DEF PInv, NInv, Inv, TypeOK, NotifierCommit, JobOK
<1>2. /\ DbTypeOK'
      /\ \A e \in Locked(c) : row'[e] = session[c][e]
      /\ \A e \in Events \ Locked(c) : row'[e] = row[e]
  BY <1>1, CommitEffect
<1>3. \A e \in Events : row'[e].status # row[e].status =>
        row[e].status = "processed" /\ row'[e].status \in Queue!Delivered
  BY <1>1, <1>2 DEF Posting, JobStatus, Queue!Delivered
<1>4. [e \in Events |-> row'[e].status]
        \in [Events -> Queue!Classified \cup Queue!Delivered \cup {"absent"}]
  <2>1. \A e \in Events : row'[e].status \in Status
    BY <1>2 DEF DbTypeOK, Row
  <2> QED BY <2>1 DEF Status, Queue!Classified, Queue!Delivered
<1> QED BY <1>3, <1>4 DEF Queue!Deliver

\* Whatever else a job does stays between it and Discord.
LEMMA QuietJobs ==
  ASSUME NEW c \in Notifiers, Job(c) \/ Stop(c), ~ NotifierCommit(c) PROVE row' = row
BY DEF Job, Stop, InstantFetch, InstantSend, DigestFetch, DigestSend, Rollback, Lock, Assign

LEMMA PipelineQueueStep ==
  ASSUME PInv, [PipelineNext]_pvars
  PROVE  [Queue!Next]_<<[e \in Events |-> row[e].status], llmRows>>
<1>1. row \in [Events -> Row]
  BY DEF PInv, Inv, TypeOK, DbTypeOK
<1>2. CASE ProcessorStep
  BY <1>2, QueueCommit, QuietSteps, QueueStutter DEF ProcessorStep, Queue!Next, PInv
<1>3. CASE NotifierStep
  <2>1. llmRows' = llmRows
    BY <1>3 DEF NotifierStep, processorVars
  <2> QED BY <1>3, <2>1, QueueDeliver, QuietJobs, QueueStutter DEF NotifierStep, Queue!Next
<1>4. CASE Surroundings
  <2>1. llmRows' = llmRows
    BY <1>4 DEF Surroundings, processorVars
  <2> QED BY <1>1, <1>4, <2>1, QueueArrival, QueueRequeue, QueueStutter
             DEF Surroundings, AdvanceClock
<1>5. CASE UNCHANGED pvars
  BY <1>5, QueueStutter DEF pvars, dbVars, processorVars
<1> QED BY <1>2, <1>3, <1>4, <1>5 DEF PipelineNext

\* To the outside, the two services are one queue that settles and delivers.
THEOREM PipelineImplementsQueue == PipelineSpec => QueueSpec
<1>1. PipelineInit => Queue!Init
  BY QueueInit DEF PipelineInit
<1> QED
  BY <1>1, PInvHolds, PipelineQueueStep, PTL DEF PipelineSpec, QueueSpec, Queue!Spec

-----------------------------------------------------------------------------
(* Duplicates, with the notifier at work on what they point at.             *)

\* A job leaves the locks of all other sessions alone.
LEMMA OthersKeepLocksOfJobs ==
  ASSUME PInv, NEW c \in Notifiers, Job(c) \/ Stop(c)
  PROVE  \A d \in Clients \ {c} : session'[d] = session[d] /\ keyShare'[d] = keyShare[d]
<1>1. /\ session \in [Clients -> {session[d] : d \in Clients}]
      /\ keyShare \in [Clients -> SUBSET Events]
  BY DEF PInv, Inv, TypeOK, DbTypeOK
<1>2. CASE InstantFetch(c) \/ DigestFetch(c)
  BY <1>1, <1>2 DEF InstantFetch, DigestFetch, Lock
<1>3. CASE InstantSend(c)
  BY <1>1, <1>3 DEF InstantSend, Assign
<1>4. CASE DigestSend(c)
  BY <1>1, <1>4 DEF DigestSend, Rollback, CloseSession
<1>5. CASE NotifierCommit(c) \/ Stop(c)
  BY <1>1, <1>5 DEF NotifierCommit, CommitRows, Stop, Rollback, CloseSession
<1> QED BY <1>2, <1>3, <1>4, <1>5 DEF Job

\* A job leaves the sessions of the workers and every duplicate alone.
LEMMA JobLeadsOut ==
  ASSUME PInv, SingleInv, PInv', NotifierStep
  PROVE  SingleInv'
<1>1. PICK c \in Notifiers : Job(c) \/ Stop(c)
  BY DEF NotifierStep
<1>2. c \in Clients /\ DbTypeOK /\ DbTypeOK' /\ Posting(c)
  BY JobsAreClients DEF PInv, NInv, Inv, TypeOK, JobOK
<1>3. \A w \in Workers : session'[w] = session[w]
  BY <1>1, OthersKeepLocksOfJobs, JobsAreClients
<1>4. \A e \in Events : \/ row'[e] = row[e]
                        \/ row'[e].status # "duplicate" /\ row[e].status # "duplicate"
  <2>1. CASE NotifierCommit(c)
    <3>1. /\ \A e \in Locked(c) : row'[e] = session[c][e]
          /\ \A e \in Events \ Locked(c) : row'[e] = row[e]
      BY <1>2, <2>1, CommitEffect DEF NotifierCommit
    <3> QED BY <1>2, <3>1 DEF Posting, JobStatus
  <2>2. CASE ~ NotifierCommit(c)
    BY <1>1, <2>2, QuietJobs
  <2> QED BY <2>1, <2>2
<1> QED BY <1>2, <1>3, <1>4, OthersLeadOut DEF SingleInv, PInv, DbTypeOK

\* With one worker, whatever the notifier makes of the originals.
THEOREM OriginalsStay ==
  ASSUME \A v, w \in Workers : v = w
  PROVE  PipelineSpec => []DuplicatesLeadToOriginals
<1>1. PInv /\ PInv' /\ SingleInv /\ [PipelineNext]_pvars => SingleInv'
  <2> SUFFICES ASSUME PInv, PInv', SingleInv, [PipelineNext]_pvars PROVE SingleInv'
    OBVIOUS
  <2>1. CASE ProcessorStep
    BY <2>1, WorkerLeadsOut DEF ProcessorStep, PInv
  <2>2. CASE NotifierStep
    BY <2>2, JobLeadsOut
  <2>3. CASE Surroundings \/ UNCHANGED pvars
    BY <2>3, OutsideLeadsOut DEF Surroundings, pvars, PInv
  <2> QED BY <2>1, <2>2, <2>3 DEF PipelineNext
<1>2. PipelineInit => SingleInv
  BY InitSingleInv DEF PipelineInit
<1> QED BY <1>1, <1>2, PInvHolds, SingleInvLeadsOut, PTL DEF PipelineSpec

\* A job commits no marks, and leaves those of the workers as they are.
LEMMA JobDupInv ==
  ASSUME PInv, PInv', DupInv, NotifierStep
  PROVE  DupInv'
<1>1. PICK c \in Notifiers : Job(c) \/ Stop(c)
  BY DEF NotifierStep
<1>2. c \in Clients /\ DbTypeOK /\ RowsOK /\ Posting(c) /\ row' \in [Events -> Row]
  BY JobsAreClients DEF PInv, NInv, Inv, TypeOK, JobOK, DbTypeOK
<1>3. \A w \in Workers : session'[w] = session[w]
  BY <1>1, OthersKeepLocksOfJobs, JobsAreClients
<1>4. \A e \in Events : row'[e].dup = row[e].dup
  <2>1. CASE NotifierCommit(c)
    <3>1. /\ \A e \in Locked(c) : row'[e] = session[c][e]
          /\ \A e \in Events \ Locked(c) : row'[e] = row[e]
      BY <1>2, <2>1, CommitEffect DEF NotifierCommit
    <3>2. \A e \in Locked(c) : session[c][e].dup = None /\ row[e].dup = None
      BY <1>2 DEF Posting, JobStatus, RowsOK, WellMarked, DbTypeOK
    <3> QED BY <3>1, <3>2
  <2>2. CASE ~ NotifierCommit(c)
    BY <1>1, <2>2, QuietJobs
  <2> QED BY <2>1, <2>2
<1> QED BY <1>2, <1>3, <1>4, OutsideDupInv DEF DupInv, PInv

\* With any number of workers, and whatever the notifier sends meanwhile: no two
\* events are each marked the duplicate of the other.
THEOREM NeverMutualAcrossServices == PipelineSpec => []NoMutualDuplicates
<1>1. PInv /\ PInv' /\ DupInv /\ [PipelineNext]_pvars => DupInv'
  <2> SUFFICES ASSUME PInv, PInv', DupInv, [PipelineNext]_pvars PROVE DupInv'
    OBVIOUS
  <2>1. CASE ProcessorStep
    BY <2>1, WorkerDupInv DEF ProcessorStep, PInv
  <2>2. CASE NotifierStep
    BY <2>2, JobDupInv
  <2>3. CASE Surroundings \/ UNCHANGED pvars
    <3>1. session' = session /\ \A e \in Events : row'[e].dup = row[e].dup
      BY <2>3, SurroundingsKeepMarks DEF Surroundings, pvars, PInv
    <3>2. row' \in [Events -> Row]
      BY DEF PInv, Inv, TypeOK, DbTypeOK
    <3> QED BY <3>1, <3>2, OutsideDupInv DEF DupInv, PInv
  <2> QED BY <2>1, <2>2, <2>3 DEF PipelineNext
<1>2. PipelineInit => DupInv
  BY InitDupInv DEF PipelineInit
<1>3. DupInv => NoMutualDuplicates
  BY DEF DupInv
<1> QED BY <1>1, <1>2, <1>3, PInvHolds, PTL DEF PipelineSpec

-----------------------------------------------------------------------------
(* Waiting across the services.                                             *)

OnlyServicesLock == \A c \in Clients \ (Workers \cup Notifiers) : Locked(c) = {}

\* What the proofs about waiting need beyond PInv.
WaitInv == Flushed /\ OnlyServicesLock

LEMMA WaitInvStep == ASSUME PInv, WaitInv, [PipelineNext]_pvars PROVE WaitInv'
<1>1. CASE ProcessorStep
  <2>1. PICK w \in Workers : Worker(w) \/ DedupFails(w) \/ Crash(w)
    BY <1>1 DEF ProcessorStep
  <2>2. Flushed'
    BY <2>1, WorkerKeepsFlushed DEF PInv, WaitInv
  <2>3. \A c \in Clients \ {w} : session'[c] = session[c]
    BY <2>1, OthersKeepLocks DEF PInv
  <2> QED BY <2>2, <2>3 DEF WaitInv, OnlyServicesLock, Locked
<1>2. CASE NotifierStep
  <2>1. PICK c \in Notifiers : Job(c) \/ Stop(c)
    BY <1>2 DEF NotifierStep
  <2>2. \A d \in Clients \ {c} : session'[d] = session[d] /\ keyShare'[d] = keyShare[d]
    BY <2>1, OthersKeepLocksOfJobs
  <2>3. pc' = pc
    BY <1>2 DEF NotifierStep, processorVars, workerVars
  <2>4. Flushed'
    BY <2>2, <2>3, JobsAreClients, OutsideKeepsFlushed DEF WaitInv
  <2> QED BY <2>2, <2>4 DEF WaitInv, OnlyServicesLock, Locked
<1>3. CASE Surroundings \/ UNCHANGED pvars
  <2>1. session' = session /\ keyShare' = keyShare /\ pc' = pc
    BY <1>3 DEF Surroundings, Insert, AdvanceClock, RequeueFailed, pvars, dbVars,
                processorVars, workerVars
  <2> QED BY <2>1, OutsideKeepsFlushed DEF WaitInv, OnlyServicesLock, Locked
<1> QED BY <1>1, <1>2, <1>3 DEF PipelineNext

\* A job marks no duplicates, so its commit has nothing to wait for.
LEMMA JobsNeverWait ==
  ASSUME PInv, NEW c \in Notifiers
  PROVE  ~Waits(c)
<1>1. \A e \in Locked(c) : session[c][e].dup = None
  BY DEF PInv, NInv, JobOK, Posting, JobStatus, WellMarked
<1>2. Originals(c) = {}
  BY <1>1 DEF Originals
<1> QED BY <1>2 DEF Waits, WaitsFor

\* For any numbers of workers and jobs: whoever a blocked run waits for, one of them
\* goes on, so that the services never bring each other to a stop.
THEOREM BlockedServicesGetReleased == PipelineSpec => []BlockedServicesAreReleased
<1>1. PipelineInit => WaitInv
  BY DEF PipelineInit, Init, DbInit, ProcessorInit, WaitInv, Flushed, OnlyServicesLock,
         Locked, NoRows
<1>2. ASSUME PInv, WaitInv PROVE BlockedServicesAreReleased
  <2> SUFFICES ASSUME NEW S \in SUBSET Clients, Blocked(S)
               PROVE  \E c \in S : \/ GoesOn(c)
                                   \/ c \in Notifiers /\ stage[c] # "idle" /\ ~Waits(c)
    BY DEF BlockedServicesAreReleased
  <2>1. \A c \in Clients \ Workers : ~Waits(c)
    <3>1. \A c \in Clients : Locked(c) = {} => ~Waits(c)
      BY DEF Waits, WaitsFor, Originals
    <3> QED BY <1>2, <3>1, JobsNeverWait DEF WaitInv, OnlyServicesLock
  <2>2. PICK c \in S : Locked(c) # {} /\ (c \in Workers => GoesOn(c))
    BY <1>2, <2>1, SomebodyGoesOn DEF PInv, WaitInv
  <2>3. CASE c \in Workers
    BY <2>2, <2>3
  <2>4. CASE c \notin Workers
    <3>1. c \in Notifiers
      BY <1>2, <2>2, <2>4 DEF WaitInv, OnlyServicesLock
    <3>2. stage[c] # "idle"
      BY <1>2, <2>2, <3>1 DEF PInv, NInv, JobOK, Untouched
    <3> QED BY <1>2, <3>1, <3>2, JobsNeverWait
  <2> QED BY <2>3, <2>4
<1> QED
  BY <1>1, <1>2, WaitInvStep, PInvHolds, PTL DEF PipelineSpec

-----------------------------------------------------------------------------
(* Events only move forward.                                                *)

\* s is r, or an event whose row is s has less ahead of it.
Advanced(r, s) == s = r \/ Ahead(s) < Ahead(r)

AdvancedBy(c) == \A e \in Locked(c) : Advanced(row[e], session[c][e])

\* What a service is about to commit is an advance over what is committed.
Advances == \A c \in Workers \cup Notifiers : AdvancedBy(c)

LEMMA AheadType == ASSUME NEW r \in Row PROVE Ahead(r) \in Nat
<1>1. r.retry \in 0 .. 3
  BY DEF Row, MaxRetries
<1>2. StagesAhead(r.status) \in 0 .. 3
  BY DEF StagesAhead
<1> QED BY <1>1, <1>2 DEF Ahead, MaxRetries

LEMMA AdvancedTransitive ==
  ASSUME NEW r \in Row, NEW s \in Row, NEW v \in Row, Advanced(r, s), Ahead(v) < Ahead(s)
  PROVE  Advanced(r, v)
BY AheadType DEF Advanced

\* A classification and a duplicate mark take a new event forward,
LEMMA SettlingAdvances ==
  ASSUME NEW r \in Row, r.status = "new", Attempts(r)
  PROVE  /\ \A e \in Events : \A v \in Outcomes(e, r) : Ahead(v) < Ahead(r)
         /\ \A f \in Events : Ahead([r EXCEPT !.status = "duplicate", !.dup = f]) < Ahead(r)
<1>1. r.retry \in 0 .. 2 /\ Ahead(r) = 11 - r.retry
  BY DEF Row, Attempts, MaxRetries, Ahead, StagesAhead
<1>2. /\ Fail(r).retry = r.retry + 1
      /\ Fail(r).status = IF r.retry + 1 >= 3 THEN "failed" ELSE "new"
  BY DEF Fail, Row, MaxRetries
<1>3. Ahead(Fail(r)) < Ahead(r)
  BY <1>1, <1>2 DEF Ahead, StagesAhead, MaxRetries
<1>4. \A s \in Scores : Ahead(Succeed(r, s)) < Ahead(r)
  <2> TAKE s \in Scores
  <2>1. Succeed(r, s).status = "processed" /\ Succeed(r, s).retry = r.retry
    BY DEF Succeed, Row
  <2> QED BY <1>1, <2>1 DEF Ahead, StagesAhead, MaxRetries
<1>5. Ahead(Skip(r)) < Ahead(r)
  <2>1. Skip(r).status = "skipped" /\ Skip(r).retry = r.retry
    BY DEF Skip, Row
  <2> QED BY <1>1, <2>1 DEF Ahead, StagesAhead, MaxRetries
<1>6. ASSUME NEW f \in Events
      PROVE  Ahead([r EXCEPT !.status = "duplicate", !.dup = f]) < Ahead(r)
  <2> DEFINE v == [r EXCEPT !.status = "duplicate", !.dup = f]
  <2>1. v.status = "duplicate" /\ v.retry = r.retry
    BY DEF Row
  <2> HIDE DEF v
  <2>2. Ahead(v) < Ahead(r)
    BY <1>1, <2>1 DEF Ahead, StagesAhead, MaxRetries
  <2> QED BY <2>2 DEF v
<1> QED BY <1>3, <1>4, <1>5, <1>6 DEF Outcomes

\* and so does an attempt to send a processed one.
LEMMA SendingAdvances ==
  ASSUME NEW r \in Row, r.status = "processed", Attempts(r)
  PROVE  Ahead(Sent(r)) < Ahead(r) /\ Ahead(SendFailed(r)) < Ahead(r)
<1>1. r.retry \in 0 .. 2 /\ Ahead(r) = 7 - r.retry
  BY DEF Row, Attempts, MaxRetries, Ahead, StagesAhead
<1>2. Ahead(Sent(r)) < Ahead(r)
  <2>1. Sent(r).status = "sent" /\ Sent(r).retry = r.retry
    BY DEF Sent, Row
  <2> QED BY <1>1, <2>1 DEF Ahead, StagesAhead, MaxRetries
<1>3. /\ SendFailed(r).retry = r.retry + 1
      /\ SendFailed(r).status = IF r.retry + 1 >= 3 THEN "failed" ELSE "processed"
  BY DEF SendFailed, Row, MaxRetries
<1>4. Ahead(SendFailed(r)) < Ahead(r)
  BY <1>1, <1>3 DEF Ahead, StagesAhead, MaxRetries
<1> QED BY <1>2, <1>4

\* An assignment that takes one row forward.
LEMMA AssignAdvances ==
  ASSUME PInv, Advances, NEW c \in Workers \cup Notifiers, NEW e \in Locked(c), NEW v \in Row,
         Assign(c, e, v), Ahead(v) < Ahead(session[c][e])
  PROVE  AdvancedBy(c)'
<1>1. /\ c \in Clients /\ DbTypeOK /\ e \in Events
      /\ session[c][e] \in Row /\ row[e] \in Row
  BY JobsAreClients DEF PInv, Inv, TypeOK, DbTypeOK
<1>2. /\ Locked(c)' = Locked(c) /\ row' = row
      /\ session'[c] = [session[c] EXCEPT ![e] = v]
  BY <1>1, AssignEffect
<1>3. session'[c][e] = v /\ \A f \in Locked(c) \ {e} : session'[c][f] = session[c][f]
  BY <1>2 DEF Locked
<1>4. Advanced(row[e], v)
  BY <1>1, AdvancedTransitive DEF Advances, AdvancedBy
<1> QED BY <1>2, <1>3, <1>4 DEF Advances, AdvancedBy, Advanced

LEMMA WorkerAdvances ==
  ASSUME PInv, Advances, NEW w \in Workers, Worker(w) \/ DedupFails(w) \/ Crash(w)
  PROVE  AdvancedBy(w)'
<1>1. w \in Clients /\ DbTypeOK /\ LocksExclude /\ Inv /\ AdvancedBy(w)
  BY WorkersAssumption DEF PInv, Inv, TypeOK, Advances
<1>2. CASE Fetch(w)
  <2>1. PICK S \in SUBSET Free(w) : Lock(w, S)
    BY <1>2 DEF Fetch
  <2> QED BY <1>1, <2>1, LockEffect DEF AdvancedBy, Advanced
<1>3. CASE Autoflush(w) \/ NoDuplicate(w) \/ ClassifyOpen(w)
  <2>1. session' = session /\ row' = row
    BY <1>3 DEF Autoflush, FlushRows, NoDuplicate, ClassifyOpen, dbVars
  <2> QED BY <1>1, <2>1 DEF AdvancedBy, Locked, Advanced
<1>4. CASE MarkDuplicate(w)
  <2> DEFINE e == Current(w)
  <2>1. PICK f \in Duplicates(w, e) :
          Assign(w, e, [session[w][e] EXCEPT !.status = "duplicate", !.dup = f])
    BY <1>4 DEF MarkDuplicate
  <2>2. /\ e \in Locked(w) /\ session[w][e] \in Row /\ session[w][e].status = "new"
        /\ Attempts(session[w][e])
    BY <1>1, <1>4, CurrentHeld DEF MarkDuplicate, Inv, WorkerOK, Pending
  <2>3. f \in Events
    BY DEF Duplicates
  <2> DEFINE v == [session[w][e] EXCEPT !.status = "duplicate", !.dup = f]
  <2>4. v \in Row /\ Ahead(v) < Ahead(session[w][e])
    BY <2>2, <2>3, SettlingAdvances DEF Row, Status
  <2> HIDE DEF e, v
  <2>5. Assign(w, e, v)
    BY <2>1 DEF v
  <2> QED BY <2>2, <2>4, <2>5, AssignAdvances
<1>5. CASE Classify(w)
  <2> DEFINE e == Current(w)
  <2>1. PICK v \in Outcomes(e, session[w][e]) : Assign(w, e, v)
    BY <1>5 DEF Classify
  <2>2. /\ e \in Locked(w) /\ e \in Events /\ session[w][e] \in Row
        /\ session[w][e].status = "new"
        /\ WellMarked(session[w][e]) /\ Attempts(session[w][e])
    BY <1>1, <1>5, CurrentHeld DEF Classify, Inv, WorkerOK, Pending, WellMarked
  <2>3. v \in Row /\ Ahead(v) < Ahead(session[w][e])
    BY <2>1, <2>2, OutcomeOK, SettlingAdvances
  <2> HIDE DEF e
  <2> QED BY <2>1, <2>2, <2>3, AssignAdvances
<1>6. CASE Commit(w)
  BY <1>1, <1>6, CommitEffect DEF Commit, AdvancedBy
<1>7. CASE EndAborted(w) \/ DeadlockVictim(w) \/ Crash(w) \/ DedupFails(w)
  <2>1. Rollback(w)
    BY <1>7 DEF EndAborted, DeadlockVictim, Crash, EndRun, DedupFails
  <2> QED BY <1>1, <2>1, RollbackEffect DEF AdvancedBy
<1> QED BY <1>2, <1>3, <1>4, <1>5, <1>6, <1>7 DEF Worker

LEMMA JobAdvances ==
  ASSUME PInv, Advances, NEW c \in Notifiers, Job(c) \/ Stop(c)
  PROVE  AdvancedBy(c)'
<1>1. c \in Clients /\ DbTypeOK /\ LocksExclude /\ JobOK(c) /\ AdvancedBy(c)
  BY JobsAreClients DEF PInv, NInv, Inv, TypeOK, Advances
<1>2. CASE InstantFetch(c) \/ DigestFetch(c)
  <2>1. PICK S \in SUBSET Free(c) : Lock(c, S)
    BY <1>2 DEF InstantFetch, DigestFetch
  <2> QED BY <1>1, <2>1, LockEffect DEF AdvancedBy, Advanced
<1>3. ASSUME NEW e \in unsent[c]
      PROVE  /\ e \in Locked(c) /\ session[c][e] \in Row
             /\ session[c][e].status = "processed"
             /\ WellMarked(session[c][e]) /\ Attempts(session[c][e])
  BY <1>1 DEF JobOK, Untouched, Posting, DbTypeOK
<1>4. CASE InstantSend(c)
  <2>1. PICK e \in unsent[c] :
          \E v \in {Sent(session[c][e]), SendFailed(session[c][e])} : Assign(c, e, v)
    BY <1>4 DEF InstantSend
  <2> PICK v \in {Sent(session[c][e]), SendFailed(session[c][e])} : Assign(c, e, v)
    BY <2>1
  <2>2. v \in Row /\ Ahead(v) < Ahead(session[c][e])
    BY <1>3, <2>1, SendValue, SendingAdvances
  <2> QED BY <1>3, <2>1, <2>2, AssignAdvances
<1>5. CASE DigestSend(c)
  <2>1. CASE Rollback(c)
    BY <1>1, <2>1, RollbackEffect DEF AdvancedBy
  <2>2. CASE session' = [session EXCEPT ![c] = [e \in Locked(c) |-> Sent(session[c][e])]]
             /\ row' = row
    <3>1. session'[c] = [e \in Locked(c) |-> Sent(session[c][e])]
      BY <1>1, <2>2 DEF DbTypeOK
    <3>2. Locked(c)' = Locked(c) /\ unsent[c] = Locked(c)
      BY <1>1, <1>5, <3>1 DEF Locked, DigestSend, JobOK, Untouched
    <3>3. ASSUME NEW e \in Locked(c) PROVE Advanced(row[e], Sent(session[c][e]))
      <4>1. /\ session[c][e] \in Row /\ row[e] \in Row /\ Sent(session[c][e]) \in Row
            /\ Ahead(Sent(session[c][e])) < Ahead(session[c][e])
        BY <1>1, <1>3, <3>2, SendValue, SendingAdvances DEF DbTypeOK
      <4> QED BY <1>1, <4>1, AdvancedTransitive DEF AdvancedBy
    <3> QED BY <2>2, <3>1, <3>2, <3>3 DEF AdvancedBy, Advanced
  <2> QED BY <1>5, <2>1, <2>2 DEF DigestSend
<1>6. CASE NotifierCommit(c)
  BY <1>1, <1>6, CommitEffect DEF NotifierCommit, AdvancedBy
<1>7. CASE Stop(c)
  BY <1>1, <1>7, RollbackEffect DEF Stop, AdvancedBy
<1> QED BY <1>2, <1>4, <1>5, <1>6, <1>7 DEF Job

\* The step of c, in which only rows held by c change, and only to what it held.
LEMMA OneServiceAdvances ==
  ASSUME PInv, Advances, NEW c \in Workers \cup Notifiers, AdvancedBy(c)',
         \A d \in Clients \ {c} : session'[d] = session[d],
         \A e \in Events : row'[e] = row[e] \/ (e \in Locked(c) /\ row'[e] = session[c][e])
  PROVE  /\ Advances'
         /\ \A e \in Events : row'[e] # row[e] => Ahead(row'[e]) < Ahead(row[e])
<1>1. ASSUME NEW d \in Workers \cup Notifiers, d # c PROVE AdvancedBy(d)'
  <2>1. d \in Clients /\ c \in Clients /\ Locked(d)' = Locked(d) /\ session'[d] = session[d]
    BY <1>1, JobsAreClients DEF Locked
  <2>2. \A e \in Locked(d) : e \in Events /\ row'[e] = row[e]
    BY <1>1, <2>1 DEF PInv, Inv, TypeOK, DbTypeOK, LocksExclude
  <2> QED BY <2>1, <2>2 DEF Advances, AdvancedBy, Advanced
<1>2. Advances'
  BY <1>1 DEF Advances
<1>3. \A e \in Events : row'[e] # row[e] => Ahead(row'[e]) < Ahead(row[e])
  BY DEF Advances, AdvancedBy, Advanced
<1> QED BY <1>2, <1>3

LEMMA ServicesAdvance ==
  ASSUME PInv, Advances, ProcessorStep \/ NotifierStep
  PROVE  /\ Advances'
         /\ \A e \in Events : row'[e] # row[e] => Ahead(row'[e]) < Ahead(row[e])
<1>1. DbTypeOK
  BY DEF PInv, Inv, TypeOK
<1>2. CASE ProcessorStep
  <2>1. PICK w \in Workers : Worker(w) \/ DedupFails(w) \/ Crash(w)
    BY <1>2 DEF ProcessorStep
  <2>2. \A e \in Events : row'[e] = row[e] \/ (e \in Locked(w) /\ row'[e] = session[w][e])
    BY <1>1, <2>1, QuietSteps, CommitEffect, WorkersAssumption DEF Commit
  <2> QED BY <2>1, <2>2, WorkerAdvances, WorkerEffect, OneServiceAdvances DEF PInv
<1>3. CASE NotifierStep
  <2>1. PICK c \in Notifiers : Job(c) \/ Stop(c)
    BY <1>3 DEF NotifierStep
  <2>2. \A e \in Events : row'[e] = row[e] \/ (e \in Locked(c) /\ row'[e] = session[c][e])
    BY <1>1, <2>1, QuietJobs, CommitEffect, JobsAreClients DEF NotifierCommit
  <2> QED BY <2>1, <2>2, JobAdvances, OthersKeepLocksOfJobs, OneServiceAdvances
<1> QED BY <1>2, <1>3

\* Arrivals and requeues concern no row anybody holds.
LEMMA SurroundingsAdvance ==
  ASSUME PInv, Advances, Surroundings \/ UNCHANGED pvars
  PROVE  /\ Advances'
         /\ mishaps'["requeue"] = mishaps["requeue"] =>
              \A e \in Events : row'[e] # row[e] => Ahead(row'[e]) < Ahead(row[e])
<1>1. session' = session /\ row \in [Events -> Row]
  BY DEF Surroundings, Insert, AdvanceClock, RequeueFailed, pvars, dbVars, PInv, Inv, TypeOK,
         DbTypeOK
<1>2. ASSUME NEW e \in Events, row'[e] # row[e]
      PROVE  /\ row[e].status \in {"absent", "failed"}
             /\ mishaps'["requeue"] = mishaps["requeue"] => Ahead(row'[e]) < Ahead(row[e])
  <2>1. CASE \E f \in Events : Insert(f)
    <3>1. row[e].status = "absent" /\ row'[e] = FreshRow
      BY <1>1, <1>2, <2>1 DEF Insert
    <3>2. row[e].retry \in 0 .. 3
      BY <1>1 DEF Row, MaxRetries
    <3>3. Ahead(FreshRow) < Ahead(row[e])
      BY <3>1, <3>2 DEF Ahead, StagesAhead, FreshRow, MaxRetries
    <3> QED BY <3>1, <3>3
  <2>2. CASE RequeueFailed /\ Mishap("requeue")
    <3>1. row[e].status = "failed"
      BY <1>1, <1>2, <2>2 DEF RequeueFailed
    <3>2. mishaps["requeue"] \in Nat /\ mishaps'["requeue"] = mishaps["requeue"] + 1
      BY <2>2 DEF Mishap, PInv, NInv, NotifierTypeOK, MishapKinds
    <3> QED BY <3>1, <3>2
  <2> QED BY <1>2, <2>1, <2>2 DEF Surroundings, AdvanceClock, pvars, dbVars
<1>3. \A c \in Workers \cup Notifiers : \A e \in Locked(c) : row'[e] = row[e]
  <2>1. \A c \in Workers : \A e \in Locked(c) : e \in Events /\ row[e].status = "new"
    BY JobsAreClients DEF PInv, Inv, TypeOK, DbTypeOK, WorkerOK, ClaimOf
  <2>2. \A c \in Notifiers : \A e \in Locked(c) : e \in Events /\ row[e].status = "processed"
    BY JobsAreClients DEF PInv, NInv, Inv, TypeOK, DbTypeOK, JobOK, Posting
  <2> QED BY <1>2, <2>1, <2>2
<1>4. Advances'
  BY <1>1, <1>3 DEF Advances, AdvancedBy, Advanced, Locked
<1> QED BY <1>2, <1>4

\* For any number of services, failures and repeated answers: what is committed about
\* an event takes it forward, unless an operator requeues it.
THEOREM EventsOnlyMoveForward == PipelineSpec => EventsMoveForward
<1>1. PipelineInit => Advances
  BY JobsAreClients DEF PipelineInit, Init, DbInit, Advances, AdvancedBy, Locked, NoRows
<1>2. PInv /\ Advances /\ [PipelineNext]_pvars =>
        /\ Advances'
        /\ [mishaps'["requeue"] = mishaps["requeue"] =>
              \A e \in Events : row'[e] # row[e] => Ahead(row'[e]) < Ahead(row[e])]_pvars
  BY ServicesAdvance, SurroundingsAdvance DEF PipelineNext
<1> QED BY <1>1, <1>2, PInvHolds, PTL DEF PipelineSpec, EventsMoveForward
=============================================================================
