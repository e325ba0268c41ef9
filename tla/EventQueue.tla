------------------------------ MODULE EventQueue ------------------------------
(***************************************************************************)
(* What raw_events promises as a queue, whoever works it and whatever      *)
(* fails: every event goes through its life cycle one stage at a time, a   *)
(* batch of events moves all at once, and an event is processed exactly    *)
(* when one LlmCall is recorded for it.  No worker, lock, transaction or   *)
(* crash appears here.                                                     *)
(***************************************************************************)
EXTENDS Naturals

CONSTANT Events

VARIABLES
  st,      \* st[e]: the status of the event
  calls    \* calls[e]: how many LlmCall rows the event has

Classified == {"new", "processed", "skipped", "duplicate", "failed"}
Delivered == {"processed", "sent", "failed"}

Init ==
  /\ st = [e \in Events |-> "absent"]
  /\ calls = [e \in Events |-> 0]

Arrive(e) ==
  /\ st[e] = "absent"
  /\ st' = [st EXCEPT ![e] = "new"]
  /\ UNCHANGED calls

\* A batch of new events is settled; the ones left new are to be retried.
Classify ==
  /\ \A e \in Events : st'[e] # st[e] => st[e] = "new" /\ st'[e] \in Classified
  /\ st' \in [Events -> Classified \cup Delivered \cup {"absent"}]
  /\ calls' = [e \in Events |-> IF st[e] = "new" /\ st'[e] = "processed"
                                THEN calls[e] + 1 ELSE calls[e]]

\* A batch of processed events is delivered or given up.
Deliver ==
  /\ \A e \in Events : st'[e] # st[e] => st[e] = "processed" /\ st'[e] \in Delivered
  /\ st' \in [Events -> Classified \cup Delivered \cup {"absent"}]
  /\ UNCHANGED calls

Requeue ==
  /\ st' = [e \in Events |-> IF st[e] = "failed" THEN "new" ELSE st[e]]
  /\ UNCHANGED calls

Next == (\E e \in Events : Arrive(e)) \/ Classify \/ Deliver \/ Requeue

Spec == Init /\ [][Next]_<<st, calls>>
=============================================================================
