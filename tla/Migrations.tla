------------------------------ MODULE Migrations ------------------------------
(***************************************************************************)
(* Containers that run "alembic upgrade head" before their service         *)
(* (docker-compose.yml, alembic/env.py): one connection each, an advisory  *)
(* lock around the upgrade, and the transactions SQLAlchemy and Alembic    *)
(* begin on that connection.                                               *)
(***************************************************************************)
EXTENDS Integers, TLAPS

CONSTANT Containers

\* What each revision creates, and what the services map (common/models.py).
Creates == <<{"raw_events", "llm_calls", "notifications", "polling_state"},
             {"raw_events.duplicate_of"},
             {"form4_clusters"}>>

Head == 3

Mapped == {"raw_events", "raw_events.duplicate_of", "llm_calls", "notifications",
           "polling_state", "form4_clusters"}

VARIABLES
  version,  \* the revision committed in alembic_version
  holders,  \* the connections with the advisory lock
  step,     \* step[c]: what the container runs next
  tx,       \* tx[c]: who began the transaction of its connection
  view      \* view[c]: the revision in that transaction

vars == <<version, holders, step, tx, view>>

Steps == {"down", "lock", "configure", "upgrade", "unlock", "close", "serving"}

TypeOK ==
  /\ version \in 0 .. Head /\ holders \subseteq Containers
  /\ step \in [Containers -> Steps]
  /\ tx \in [Containers -> {"none", "autobegin", "block"}]
  /\ view \in [Containers -> 0 .. Head]

\* An empty database (the volume pgdata is new).
Init ==
  /\ version = 0 /\ holders = {}
  /\ step = [c \in Containers |-> "down"]
  /\ tx = [c \in Containers |-> "none"]
  /\ view = [c \in Containers |-> 0]

Goto(c, s) == step' = [step EXCEPT ![c] = s]

-----------------------------------------------------------------------------

\* "restart: unless-stopped", or the first start.
Start(c) ==
  /\ step[c] = "down"
  /\ Goto(c, "lock")
  /\ UNCHANGED <<version, holders, tx, view>>

\* SELECT pg_advisory_lock: the first statement of the connection begins a
\* transaction by itself; the lock belongs to the session.
TakeLock(c) ==
  /\ step[c] = "lock" /\ holders = {}
  /\ holders' = {c}
  /\ tx' = [tx EXCEPT ![c] = "autobegin"]
  /\ Goto(c, "configure")
  /\ UNCHANGED <<version, view>>

\* context.configure looks whether the connection is in a transaction, and
\* context.begin_transaction begins one only if it is not; the revision is read.
Configure(c) ==
  /\ step[c] = "configure"
  /\ tx' = [tx EXCEPT ![c] = IF @ = "none" THEN "block" ELSE @]
  /\ view' = [view EXCEPT ![c] = version]
  /\ Goto(c, "upgrade")
  /\ UNCHANGED <<version, holders>>

\* One revision.  It waits for an uncommitted one that creates the same objects,
\* of a connection which has given the lock back and is not closed yet.
Upgrade(c) ==
  /\ step[c] = "upgrade" /\ view[c] < Head
  /\ \A d \in Containers \ {c} : tx[d] # "none" => view[d] <= version
  /\ view' = [view EXCEPT ![c] = @ + 1]
  /\ UNCHANGED <<version, holders, step, tx>>

\* The end of "with context.begin_transaction()": Alembic commits a transaction of
\* its own, and leaves one it has found to its owner.
EndBlock(c) ==
  /\ step[c] = "upgrade" /\ view[c] = Head
  /\ IF tx[c] = "block"
     THEN version' = Head /\ tx' = [tx EXCEPT ![c] = "none"]
     ELSE UNCHANGED <<version, tx>>
  /\ Goto(c, "unlock")
  /\ UNCHANGED <<holders, view>>

Unlock(c) ==
  /\ step[c] = "unlock"
  /\ holders' = holders \ {c}
  /\ tx' = [tx EXCEPT ![c] = IF @ = "none" THEN "autobegin" ELSE @]
  /\ Goto(c, "close")
  /\ UNCHANGED <<version, view>>

\* "async with connectable.connect()" rolls back what is not committed.
Rollback(c) ==
  /\ tx' = [tx EXCEPT ![c] = "none"]
  /\ view' = [view EXCEPT ![c] = version]

\* The command has ended with exit code 0, and the service starts.
Close(c) ==
  /\ step[c] = "close"
  /\ Rollback(c)
  /\ Goto(c, "serving")
  /\ UNCHANGED <<version, holders>>

\* The container is stopped or killed, or a statement fails: the server rolls the
\* session back and frees its lock.
Stop(c) ==
  /\ step[c] # "down"
  /\ Rollback(c)
  /\ holders' = holders \ {c}
  /\ Goto(c, "down")
  /\ UNCHANGED version

Next ==
  \E c \in Containers :
    \/ Start(c) \/ TakeLock(c) \/ Configure(c) \/ Upgrade(c) \/ EndBlock(c)
    \/ Unlock(c) \/ Close(c) \/ Stop(c)

Spec == Init /\ [][Next]_vars

-----------------------------------------------------------------------------
(* Properties                                                               *)

Schema == UNION {Creates[r] : r \in 1 .. version}

\* 2026-07-05-arguscore-design.md:253: a processor that has started finds the
\* schema "alembic upgrade head" has made.
ServicesFindTheirTables ==
  \A c \in Containers : step[c] = "serving" => Mapped \subseteq Schema

\* env.py:28-29: two upgrades do not run at the same time.
UpgradesAreSerialized ==
  \A c, d \in Containers :
    step[c] \in {"configure", "upgrade"} /\ step[d] \in {"configure", "upgrade"} => c = d

\* No statement of an upgrade ever reaches the database: the transaction that
\* TakeLock has begun is nobody's to commit.
NothingIsCommitted == version = 0

-----------------------------------------------------------------------------
(* Proofs                                                                   *)

\* From the lock to the unlock, the container holds the lock and is in the
\* transaction which the lock's own statement began.
Locking ==
  \A c \in Containers :
    /\ step[c] \in {"configure", "upgrade", "unlock"} => holders = {c}
    /\ step[c] \in {"configure", "upgrade"} => tx[c] = "autobegin"

IInv == TypeOK /\ Locking /\ NothingIsCommitted

LEMMA NextIInv ==
  ASSUME IInv, [Next]_vars
  PROVE  IInv'
<1> USE DEF IInv, TypeOK, Locking, NothingIsCommitted, Steps, Head, Goto
<1>1. ASSUME NEW c \in Containers, Start(c) PROVE IInv'
  BY <1>1 DEF Start
<1>2. ASSUME NEW c \in Containers, TakeLock(c) PROVE IInv'
  BY <1>2 DEF TakeLock
<1>3. ASSUME NEW c \in Containers, Configure(c) PROVE IInv'
  BY <1>3 DEF Configure
<1>4. ASSUME NEW c \in Containers, Upgrade(c) PROVE IInv'
  BY <1>4 DEF Upgrade
<1>5. ASSUME NEW c \in Containers, EndBlock(c) PROVE IInv'
  BY <1>5 DEF EndBlock
<1>6. ASSUME NEW c \in Containers, Unlock(c) PROVE IInv'
  BY <1>6 DEF Unlock
<1>7. ASSUME NEW c \in Containers, Close(c) PROVE IInv'
  BY <1>7 DEF Close, Rollback
<1>8. ASSUME NEW c \in Containers, Stop(c) PROVE IInv'
  BY <1>8 DEF Stop, Rollback
<1>9. CASE UNCHANGED vars
  BY <1>9 DEF vars
<1> QED
  BY <1>1, <1>2, <1>3, <1>4, <1>5, <1>6, <1>7, <1>8, <1>9 DEF Next

LEMMA InitIInv == Init => IInv
BY DEF Init, IInv, TypeOK, Locking, NothingIsCommitted, Steps, Head

\* Containers and revisions stay within their types: no revision is applied twice.
THEOREM TypeCorrect == Spec => []TypeOK
<1>1. IInv => TypeOK
  BY DEF IInv
<1> QED
  BY <1>1, InitIInv, NextIInv, PTL DEF Spec

\* env.py:28-29, for any number of containers: two upgrades never overlap, however
\* often containers are stopped.
THEOREM LockSerializes == Spec => []UpgradesAreSerialized
<1>1. IInv => UpgradesAreSerialized
  BY DEF IInv, Locking, UpgradesAreSerialized
<1> QED
  BY <1>1, InitIInv, NextIInv, PTL DEF Spec

\* However often the containers start, their upgrades leave no trace.
THEOREM UpgradesAreRolledBack == Spec => []NothingIsCommitted
<1>1. IInv => NothingIsCommitted
  BY DEF IInv
<1> QED
  BY <1>1, InitIInv, NextIInv, PTL DEF Spec
=============================================================================
