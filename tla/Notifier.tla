------------------------------ MODULE Notifier ------------------------------
(***************************************************************************)
(* The notifier service: NotifierWorker pings events of a high score one   *)
(* by one (notifier/worker.py), DigestJob sends those of the band below in *)
(* one embed a day (notifier/digest.py).  Each run is one transaction that *)
(* is committed after everything has been posted to Discord.               *)
(***************************************************************************)
EXTENDS RawEvents, Discord

CONSTANTS
  Instants,       \* concurrent NotifierWorker.run_once calls
  Digests,        \* concurrent DigestJob.run_once calls
  InstantBatch,   \* batch_size of NotifierWorker
  MinScore,       \* threshold min_relevance_score
  InstantScore    \* threshold instant_score

Notifiers == Instants \cup Digests

ASSUME NotifiersAssumption == Notifiers \subseteq Clients /\ Instants \cap Digests = {}
ASSUME InstantBatchAssumption == InstantBatch \in Nat \ {0}
ASSUME ThresholdAssumption == MinScore \in Nat /\ InstantScore \in Nat

VARIABLES
  stage,     \* stage[c]: where the job awaits
  unsent,    \* unsent[c]: the events of its batch it has not posted yet
  notes,     \* notes[e]: committed Notification rows, by their column delivered
  posted     \* posted[e]: the embeds about e which reached the Discord channel

notifierVars == <<stage, unsent, notes, posted, mishaps>>
nvars == <<dbVars, notifierVars>>

Stage == {"idle", "send", "commit"}

NotifierTypeOK ==
  /\ stage \in [Notifiers -> Stage]
  /\ unsent \in [Notifiers -> SUBSET Events]
  /\ notes \in [Events -> [delivered : Nat, failed : Nat]]
  /\ posted \in [Events -> [instant : Nat, digest : Nat]]
  /\ mishaps \in [MishapKinds -> Nat]

NotifierInit ==
  /\ DbInit
  /\ stage = [c \in Notifiers |-> "idle"]
  /\ unsent = [c \in Notifiers |-> {}]
  /\ notes = [e \in Events |-> [delivered |-> 0, failed |-> 0]]
  /\ posted = [e \in Events |-> [instant |-> 0, digest |-> 0]]
  /\ mishaps = [k \in MishapKinds |-> 0]

Step(c, label) == stage' = [stage EXCEPT ![c] = label]

\* The copies of an answer are in the channel.
Posts(e, path, answer) == [posted[e] EXCEPT ![path] = @ + answer.copies]

-----------------------------------------------------------------------------
(* notifier/worker.py                                                       *)

\* ORDER BY relevance_score DESC.
ByScore == [e \in Events |-> IF row[e].score = None THEN 0 ELSE 0 - row[e].score]

\* (Mutant: the threshold itself is left out.)
PingableAbove(r) == r.status = "processed" /\ r.score # None /\ r.score > InstantScore

Pingable(r) == r.status = "processed" /\ r.score # None /\ r.score >= InstantScore

InstantFetch(c) ==
  /\ stage[c] = "idle"
  /\ LET avail == {e \in Free(c) : Pingable(row[e])}
     IN \E S \in (SUBSET avail) \ {{}} :
          /\ IsFirst(S, avail, InstantBatch, ByScore)
          /\ Lock(c, S)
          /\ unsent' = [unsent EXCEPT ![c] = S]
  /\ Step(c, "send")
  /\ UNCHANGED <<notes, posted, mishaps>>

Sent(r) == [r EXCEPT !.status = "sent"]

\* (Mutant: the limit missed by one.)
SendFailedOneTooMany(r) ==
  [r EXCEPT !.retry = @ + 1,
            !.status = IF r.retry + 1 > MaxRetries THEN "failed" ELSE r.status]

\* (Mutant: the event goes back to the start of the queue.)
SendFailedToNew(r) ==
  [r EXCEPT !.retry = @ + 1,
            !.status = IF r.retry + 1 >= MaxRetries THEN "failed" ELSE "new"]

SendFailed(r) ==
  [r EXCEPT !.retry = @ + 1,
            !.status = IF r.retry + 1 >= MaxRetries THEN "failed" ELSE r.status]

\* One iteration: the best event left is posted.  (Mutant: the answer of Discord
\* is not looked at.)
InstantSendUnchecked(c) ==
  /\ c \in Instants /\ stage[c] = "send"
  /\ \E e \in unsent[c], answer \in Answer :
       /\ \A f \in unsent[c] : ByScore[e] <= ByScore[f]
       /\ Answered(answer)
       /\ posted' = [posted EXCEPT ![e] = Posts(e, "instant", answer)]
       /\ Assign(c, e, Sent(session[c][e]))
       /\ unsent' = [unsent EXCEPT ![c] = @ \ {e}]
       /\ Step(c, IF unsent[c] = {e} THEN "commit" ELSE "send")
  /\ UNCHANGED notes

InstantSend(c) ==
  /\ c \in Instants /\ stage[c] = "send"
  /\ \E e \in unsent[c], answer \in Answer :
       /\ \A f \in unsent[c] : ByScore[e] <= ByScore[f]
       /\ Answered(answer)
       /\ posted' = [posted EXCEPT ![e] = Posts(e, "instant", answer)]
       /\ Assign(c, e, IF answer.returned THEN Sent(session[c][e])
                                              ELSE SendFailed(session[c][e]))
       /\ unsent' = [unsent EXCEPT ![c] = @ \ {e}]
       /\ Step(c, IF unsent[c] = {e} THEN "commit" ELSE "send")
  /\ UNCHANGED notes

-----------------------------------------------------------------------------
(* notifier/digest.py                                                       *)

\* (Mutants: the status is not looked at; the band has no upper end.)
BandOfAnyStatus(r) ==
  r.status # "absent" /\ r.score # None /\ r.score >= MinScore /\ r.score < InstantScore
BandUnlimited(r) == r.status = "processed" /\ r.score # None /\ r.score >= MinScore

Band(r) ==
  r.status = "processed" /\ r.score # None /\ r.score >= MinScore /\ r.score < InstantScore

DigestFetch(c) ==
  /\ stage[c] = "idle"
  /\ LET picked == {e \in Free(c) : Band(row[e])}
     IN /\ picked # {}
        /\ Lock(c, picked)
        /\ unsent' = [unsent EXCEPT ![c] = picked]
  /\ Step(c, "send")
  /\ UNCHANGED <<notes, posted, mishaps>>

\* One embed for the whole batch: all rows are marked, or the run returns and
\* leaves them as they are.
DigestSend(c) ==
  /\ c \in Digests /\ stage[c] = "send"
  /\ \E answer \in Answer :
       /\ Answered(answer)
       /\ posted' = [e \in Events |-> IF e \in unsent[c] THEN Posts(e, "digest", answer)
                                                         ELSE posted[e]]
       /\ IF answer.returned
          THEN /\ session' = [session EXCEPT ![c] = [e \in Locked(c) |-> Sent(session[c][e])]]
               /\ UNCHANGED <<row, keyShare, now>>
               /\ Step(c, "commit")
          ELSE Rollback(c) /\ Step(c, "idle")
  /\ unsent' = [unsent EXCEPT ![c] = {}]
  /\ UNCHANGED notes

-----------------------------------------------------------------------------

\* The Notification rows of a run are committed with the events.
NotifierCommit(c) ==
  /\ stage[c] = "commit"
  /\ CommitRows(c)
  /\ notes' = [e \in Events |->
       IF e \notin Locked(c) THEN notes[e]
       ELSE IF session[c][e].status = "sent"
            THEN [notes[e] EXCEPT !.delivered = @ + 1]
            ELSE [notes[e] EXCEPT !.failed = @ + 1]]
  /\ Step(c, "idle")
  /\ UNCHANGED <<unsent, posted, mishaps>>

\* The process stops, its shutdown cancels the job, or the commit fails.  What
\* has been posted stays posted.
\* (Mutant: a session that outlives its job.)
StopUnclosed(c) ==
  /\ stage[c] # "idle"
  /\ Mishap("stop")
  /\ UNCHANGED dbVars
  /\ unsent' = [unsent EXCEPT ![c] = {}]
  /\ Step(c, "idle")
  /\ UNCHANGED <<notes, posted>>

Stop(c) ==
  /\ stage[c] # "idle"
  /\ Mishap("stop")
  /\ Rollback(c)
  /\ unsent' = [unsent EXCEPT ![c] = {}]
  /\ Step(c, "idle")
  /\ UNCHANGED <<notes, posted>>

Job(c) ==
  \/ c \in Instants /\ InstantFetch(c)
  \/ InstantSend(c)
  \/ c \in Digests /\ DigestFetch(c)
  \/ DigestSend(c)
  \/ NotifierCommit(c)

-----------------------------------------------------------------------------
(* The notifier by itself.  The processor is reduced to its effect on an    *)
(* event it classifies: a score, and some of the three attempts used up.    *)

Classified(e) ==
  /\ row[e].status \in {"absent", "new"}
  /\ \E s \in Scores, n \in 0 .. MaxRetries - 1 :
       row' = [row EXCEPT ![e] = [@ EXCEPT !.status = "processed", !.score = s, !.retry = n]]
  /\ UNCHANGED <<session, keyShare, now>>

NotifierNext ==
  \/ \E c \in Notifiers : Job(c) \/ Stop(c)
  \/ \E e \in Events : Classified(e) /\ UNCHANGED notifierVars
  \/ RequeueFailed /\ Mishap("requeue") /\ UNCHANGED <<stage, unsent, notes, posted>>

NotifierSpec == NotifierInit /\ [][NotifierNext]_nvars

-----------------------------------------------------------------------------
(* Properties                                                               *)

NotifierOK == DbTypeOK /\ NotifierTypeOK

\* Rows a job is about to post are still processed for everybody else and held
\* by no other job ("don't fight over the same events", worker.py:20).
PostingClaimsAreFresh ==
  \A c \in Notifiers :
    /\ \A e \in Locked(c) : row[e].status = "processed"
    /\ \A d \in Notifiers \ {c} : Locked(c) \cap Locked(d) = {}

\* At least once: what is marked sent has reached the channel and is on record.
SentWasPosted ==
  \A e \in Events :
    row[e].status = "sent" =>
      /\ posted[e].instant + posted[e].digest >= 1
      /\ notes[e].delivered = 1

\* At most once but for mishaps: every repeated embed is paid for by a run that
\* was stopped or an answer that got lost, and a requeue by itself repeats none.
RepeatsNeedMishaps ==
  \A e \in Events :
    posted[e].instant + posted[e].digest <= 1 + mishaps["stop"] + mishaps["unconfirmed"]

\* dedup-digest-design.md:60: an event pinged at once is not in the digest too,
\* even after failures and restarts of either job.
OnePathPerEvent ==
  \A e \in Events :
    mishaps["requeue"] = 0 => posted[e].instant = 0 \/ posted[e].digest = 0

\* An event is parked when its attempts are used up, and no event is retried for
\* ever; one that had been classified has a failed send on record.
ParkedAfterFailures ==
  \A e \in Events :
    /\ row[e].status = "failed" => row[e].retry = MaxRetries
    /\ row[e].status = "failed" /\ row[e].score # None => notes[e].failed >= 1
    /\ row[e].status = "processed" => row[e].retry < MaxRetries

\* worker.py:24-25: after three failures of the notifier the event is parked.
ParkedAfterThreeFailures ==
  \A e \in Events : row[e].status = "failed" => notes[e].failed >= MaxRetries
=============================================================================
