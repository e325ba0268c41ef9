------------------------------- MODULE Pipeline -------------------------------
(***************************************************************************)
(* The services together: pollers insert events, processor workers and     *)
(* notifier jobs take them through raw_events.  They share nothing but the *)
(* committed rows and the row locks of the open transactions.              *)
(***************************************************************************)
EXTENDS Processor, Notifier

ASSUME ServicesAssumption == Workers \cap Notifiers = {}

pvars == <<dbVars, processorVars, notifierVars>>

PipelineInit == Init /\ NotifierInit

ProcessorStep ==
  /\ \E w \in Workers : Worker(w) \/ DedupFails(w) \/ Crash(w)
  /\ UNCHANGED notifierVars

NotifierStep ==
  /\ \E c \in Notifiers : Job(c) \/ Stop(c)
  /\ UNCHANGED processorVars

\* What a poller commits, time, and the operator's requeue.
Surroundings ==
  \/ /\ (\E e \in Events : Insert(e)) \/ AdvanceClock(MaxNow)
     /\ UNCHANGED <<processorVars, notifierVars>>
  \/ /\ RequeueFailed /\ Mishap("requeue")
     /\ UNCHANGED <<processorVars, stage, unsent, notes, posted>>

PipelineNext == ProcessorStep \/ NotifierStep \/ Surroundings

PipelineSpec == PipelineInit /\ [][PipelineNext]_pvars

\* The fairness of both services: their interval jobs, and the locks Postgres
\* grants to the session that waits.
PipelineFairness ==
  /\ \A w \in Workers :
       /\ WF_pvars(Worker(w) /\ UNCHANGED notifierVars)
       /\ SF_pvars(Autoflush(w) /\ UNCHANGED notifierVars)
       /\ SF_pvars(Commit(w) /\ UNCHANGED notifierVars)
  /\ \A c \in Notifiers : WF_pvars(Job(c) /\ UNCHANGED processorVars)

PipelineFairSpec == PipelineSpec /\ PipelineFairness

-----------------------------------------------------------------------------
(* Properties                                                               *)

PipelineOK == TypeOK /\ NotifierOK

\* No row is in two hands: what a service has claimed for its stage nobody else
\* holds, nor pins with a foreign key, whichever service that is.
ClaimsAreExclusive ==
  \A c, d \in Clients :
    c # d => Locked(c) \cap (Locked(d) \cup keyShare[d]) = {}

\* Whoever a blocked run waits for, among the processor's runs and the notifier's,
\* is one that goes on: a job never waits for rows while it posts, and its claims
\* end with it (notifier/worker.py:42, digest.py:37), so that neither service can
\* bring the other to a stop.
BlockedServicesAreReleased ==
  \A S \in SUBSET Clients :
    Blocked(S) => \E c \in S : GoesOn(c) \/ (c \in Notifiers /\ stage[c] # "idle" /\ ~Waits(c))

\* "keine Notification, kein Digest-Eintrag" (dedup-digest-design.md:31): nothing
\* about a duplicate is in the channel or on record, unless it got there before an
\* operator requeued it.
DuplicatesAreSilent ==
  \A e \in Events :
    row[e].status = "duplicate" /\ mishaps["requeue"] = 0 =>
      /\ posted[e].instant + posted[e].digest = 0
      /\ notes[e].delivered + notes[e].failed = 0

\* The recorded calls are what the README sums up as the cost: one for each time
\* an event was classified, so at least one for every embed in the channel, and
\* a second one only for an event that was requeued.
CallsAreAccounted ==
  \A e \in Events :
    /\ posted[e].instant + posted[e].digest > 0 \/ row[e].status \in {"processed", "sent"}
         => llmRows[e] >= 1
    /\ llmRows[e] <= 1 + mishaps["requeue"]

\* What an event has ahead of it: stages of the queue, and attempts within one.
StagesAhead(s) ==
  CASE s = "absent" -> 3 [] s = "new" -> 2 [] s = "processed" -> 1 [] OTHER -> 0

Ahead(r) == 4 * StagesAhead(r.status) + (MaxRetries - r.retry)

\* Whatever is committed about an event, by whichever service and after whatever
\* failures, brings it closer to its end: it can be classified, pinged and put off
\* only so often.  Nothing but a requeue takes an event back.
EventsMoveForward ==
  [][mishaps'["requeue"] = mishaps["requeue"] =>
       \A e \in Events : row'[e] # row[e] => Ahead(row'[e]) < Ahead(row[e])]_pvars

\* An event is off the queue for good, or waits below the threshold of both jobs.
Ended(e) ==
  \/ row[e].status \in {"sent", "failed", "skipped", "duplicate"}
  \/ row[e].status = "processed" /\ row[e].score < MinScore

\* From the pollers to the channel: every event that arrives comes to its end
\* and stays there, whatever fails on the way, once failures stop.
EventsComeToAnEnd == \A e \in Events : row[e].status = "new" ~> []Ended(e)
=============================================================================
