------------------------------- MODULE Polling -------------------------------
(***************************************************************************)
(* What the two pollers share.  A run is one transaction: it reads a list, *)
(* looks for every entry in raw_events, adds the ones it does not find and *)
(* commits all of them with its cursor.  SQLAlchemy flushes the added rows *)
(* before each of its SELECTs; the table has a unique constraint on the    *)
(* columns source and external_id.                                         *)
(***************************************************************************)
EXTENDS Integers, Sequences, FiniteSets

CONSTANTS
  Entries,      \* what the source will list: filings, feed entries
  ExternalId,   \* ExternalId[x]: URL of a filing; id, guid or link of an entry
  Refused,      \* entries whose row Postgres refuses (a ticker of 17 characters)
  None,
  FaultKinds,
  MaxFaults     \* how often each kind of fault may happen

ASSUME RefusedAssumption == Refused \subseteq Entries
ASSUME MaxFaultsAssumption == MaxFaults \in [FaultKinds -> Nat]

VARIABLES
  published,   \* entries that are out
  stored,      \* external_id of the committed rows with this poller's source
  cursor,      \* its rows of polling_state
  added,       \* the entries its session has added
  faults       \* faults[k]: faults of kind k so far

pollVars == <<published, stored, cursor, added, faults>>

PollingTypeOK ==
  /\ published \subseteq Entries
  /\ stored \subseteq {ExternalId[x] : x \in published}
  /\ added \subseteq published
  /\ faults \in [FaultKinds -> Nat]

Fault(k) == faults[k] < MaxFaults[k] /\ faults' = [faults EXCEPT ![k] = @ + 1]

\* The next flush, before a SELECT or in commit(), raises.
FlushFails ==
  \/ added \cap Refused # {}
  \/ \E x \in added : ExternalId[x] \in stored
  \/ \E x, y \in added : x # y /\ ExternalId[x] = ExternalId[y]

\* Whether the SELECT for an existing row finds one, after that flush.
\* (Mutants: a session that does not flush before it reads; no look at the table.)
ExistingWithoutAutoflush(x) == ExternalId[x] \in stored
ExistingInSession(x) == ExternalId[x] \in {ExternalId[y] : y \in added}

Existing(x) == ExternalId[x] \in stored \cup {ExternalId[y] : y \in added}

StoreNew(x) ==
  /\ ~FlushFails
  /\ added' = IF Existing(x) THEN added ELSE added \cup {x}

CommitAdded ==
  /\ ~FlushFails
  /\ stored' = stored \cup {ExternalId[x] : x \in added}

-----------------------------------------------------------------------------

\* What a session adds is new: no run ever meets the unique constraint, even
\* when one list or two feeds carry an entry twice ("idempotent",
\* sec_poller/pipeline.py:38-40 and rss_poller/pipeline.py:24-25).
AddedRowsAreNew ==
  \A x, y \in added :
    ExternalId[x] \notin stored /\ (x # y => ExternalId[x] # ExternalId[y])
=============================================================================
