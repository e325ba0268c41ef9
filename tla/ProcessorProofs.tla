--------------------------- MODULE ProcessorProofs ---------------------------
(***************************************************************************)
(* Theorems about the processor, for any number of workers, events, scores *)
(* and faults, any similarity of titles and any batch size.  The first     *)
(* lemmas are about the database and hold for every service.               *)
(***************************************************************************)
EXTENDS Processor, FiniteSetTheorems, WellFoundedInduction, TLAPS

-----------------------------------------------------------------------------
(* What each database operation does to the locks and the rows, stated once *)
(* for every client.                                                        *)

\* Only an event marked a duplicate has a duplicate_of.
WellMarked(r) == r.dup # None => r.status = "duplicate"

\* FOR UPDATE locks exclude each other and key-share locks (Postgres).
LocksExclude ==
  \A c, d \in Clients : c # d => Locked(c) \cap (Locked(d) \cup keyShare[d]) = {}

\* The SELECT ... FOR UPDATE of c on rows free for it: c holds exactly those,
\* with their committed values, and the locks still exclude each other.
LEMMA LockEffect ==
  ASSUME DbTypeOK, LocksExclude, NEW c \in Clients, NEW S \in SUBSET Free(c), Lock(c, S)
  PROVE  /\ DbTypeOK' /\ LocksExclude'
         /\ Locked(c)' = S
         /\ \A e \in S : session'[c][e] = row[e]
         /\ \A d \in Clients \ {c} : session'[d] = session[d]
         /\ row' = row
<1>1. session'[c] = [e \in S |-> row[e]] /\ \A d \in Clients \ {c} : session'[d] = session[d]
  BY DEF Lock, DbTypeOK
<1>2. Locked(c)' = S /\ (\A d \in Clients \ {c} : Locked(d)' = Locked(d))
  BY <1>1 DEF Locked
<1>3. S \subseteq Events /\ row' = row /\ keyShare' = keyShare /\ now' = now
  BY DEF Free, Lock
<1>4. DbTypeOK'
  <2>1. session' \in [Clients -> {session'[d] : d \in Clients}]
    BY DEF Lock, DbTypeOK
  <2>2. ASSUME NEW d \in Clients
        PROVE  Locked(d)' \subseteq Events /\ session'[d] \in [Locked(d)' -> Row]
    BY <1>1, <1>2, <1>3 DEF DbTypeOK
  <2> QED BY <1>3, <2>1, <2>2 DEF DbTypeOK
<1>5. LocksExclude'
  BY <1>2, <1>3 DEF LocksExclude, Free
<1> QED BY <1>1, <1>2, <1>3, <1>4, <1>5

\* An assignment changes one row of one session and no lock.
LEMMA AssignEffect ==
  ASSUME DbTypeOK, NEW c \in Clients, NEW e \in Locked(c), NEW v \in Row, Assign(c, e, v)
  PROVE  /\ DbTypeOK' /\ (LocksExclude => LocksExclude')
         /\ Locked(c)' = Locked(c)
         /\ session'[c] = [session[c] EXCEPT ![e] = v]
         /\ \A d \in Clients \ {c} : session'[d] = session[d]
         /\ row' = row
<1>1. session'[c] = [session[c] EXCEPT ![e] = v]
      /\ \A d \in Clients \ {c} : session'[d] = session[d]
  BY DEF Assign, DbTypeOK
<1>2. \A d \in Clients : Locked(d)' = Locked(d)
  BY <1>1 DEF Locked, DbTypeOK
<1>3. row' = row /\ keyShare' = keyShare /\ now' = now
  BY DEF Assign
<1>4. DbTypeOK'
  <2>1. session' \in [Clients -> {session'[d] : d \in Clients}]
    BY DEF Assign, DbTypeOK
  <2>2. ASSUME NEW d \in Clients
        PROVE  Locked(d)' \subseteq Events /\ session'[d] \in [Locked(d)' -> Row]
    BY <1>1, <1>2 DEF DbTypeOK
  <2> QED BY <1>3, <2>1, <2>2 DEF DbTypeOK
<1>5. LocksExclude => LocksExclude'
  BY <1>2, <1>3 DEF LocksExclude
<1> QED BY <1>1, <1>2, <1>3, <1>4, <1>5

\* A flush that need not wait takes key-share locks on rows nobody else holds.
LEMMA FlushEffect ==
  ASSUME DbTypeOK, LocksExclude, NEW c \in Clients, FlushRows(c)
  PROVE  DbTypeOK' /\ LocksExclude' /\ row' = row /\ session' = session
<1>1. \A d \in Clients \ {c} : Originals(c) \cap Locked(d) = {}
  BY DEF FlushRows, WaitsFor
<1>2. Originals(c) \subseteq Events
  BY DEF Originals, DbTypeOK, Row
<1>3. /\ row' = row /\ session' = session /\ now' = now
      /\ keyShare'[c] = keyShare[c] \cup Originals(c)
      /\ \A d \in Clients \ {c} : keyShare'[d] = keyShare[d]
      /\ keyShare' \in [Clients -> SUBSET Events]
  BY <1>2 DEF FlushRows, DbTypeOK
<1>4. \A d \in Clients : Locked(d)' = Locked(d)
  BY <1>3 DEF Locked
<1>5. LocksExclude'
  BY <1>1, <1>3, <1>4 DEF LocksExclude
<1>6. DbTypeOK'
  BY <1>3, <1>4 DEF DbTypeOK
<1> QED BY <1>3, <1>5, <1>6

\* A closed session holds nothing.
LEMMA CloseEffect ==
  ASSUME DbTypeOK, NEW c \in Clients, CloseSession(c), row' \in [Events -> Row]
  PROVE  /\ DbTypeOK' /\ (LocksExclude => LocksExclude')
         /\ Locked(c)' = {}
         /\ \A d \in Clients \ {c} : session'[d] = session[d]
<1>1. session'[c] = NoRows /\ \A d \in Clients \ {c} : session'[d] = session[d]
  BY DEF CloseSession, DbTypeOK
<1>2. Locked(c)' = {} /\ \A d \in Clients \ {c} : Locked(d)' = Locked(d)
  BY <1>1 DEF Locked, NoRows
<1>3. /\ keyShare' \in [Clients -> SUBSET Events] /\ now' = now
      /\ keyShare'[c] = {} /\ \A d \in Clients \ {c} : keyShare'[d] = keyShare[d]
  BY DEF CloseSession, DbTypeOK
<1>4. DbTypeOK'
  <2>1. session' \in [Clients -> {session'[d] : d \in Clients}]
    BY DEF CloseSession, DbTypeOK
  <2>2. ASSUME NEW d \in Clients
        PROVE  Locked(d)' \subseteq Events /\ session'[d] \in [Locked(d)' -> Row]
    BY <1>1, <1>2 DEF DbTypeOK, NoRows
  <2> QED BY <1>3, <2>1, <2>2 DEF DbTypeOK
<1>5. LocksExclude => LocksExclude'
  BY <1>2, <1>3 DEF LocksExclude
<1> QED BY <1>1, <1>2, <1>4, <1>5

\* A rollback leaves the table as it is.
LEMMA RollbackEffect ==
  ASSUME DbTypeOK, NEW c \in Clients, Rollback(c)
  PROVE  /\ DbTypeOK' /\ (LocksExclude => LocksExclude')
         /\ Locked(c)' = {}
         /\ \A d \in Clients \ {c} : session'[d] = session[d]
         /\ row' = row
<1>1. row' = row /\ CloseSession(c) /\ row' \in [Events -> Row]
  BY DEF Rollback, DbTypeOK
<1> QED BY <1>1, CloseEffect

\* A commit publishes exactly the rows the session holds, and points at no row
\* another session holds.
LEMMA CommitEffect ==
  ASSUME DbTypeOK, NEW c \in Clients, CommitRows(c)
  PROVE  /\ DbTypeOK' /\ (LocksExclude => LocksExclude')
         /\ Locked(c)' = {}
         /\ \A d \in Clients \ {c} : session'[d] = session[d]
         /\ \A e \in Locked(c) : row'[e] = session[c][e]
         /\ \A e \in Events \ Locked(c) : row'[e] = row[e]
         /\ \A d \in Clients \ {c} : Originals(c) \cap Locked(d) = {}
<1>1. CloseSession(c) /\ row' = Visible(c)
      /\ \A d \in Clients \ {c} : Originals(c) \cap Locked(d) = {}
  BY DEF CommitRows, WaitsFor
<1>2. /\ row' \in [Events -> Row]
      /\ \A e \in Locked(c) : row'[e] = session[c][e]
      /\ \A e \in Events \ Locked(c) : row'[e] = row[e]
  BY <1>1 DEF Visible, DbTypeOK
<1> QED BY <1>1, <1>2, CloseEffect

-----------------------------------------------------------------------------
(* The inductive invariant.                                                 *)

\* The retry count of a row agrees with its status.
Attempts(r) ==
  /\ r.status = "failed" => r.retry = MaxRetries
  /\ r.status \in {"new", "processed", "skipped"} => r.retry < MaxRetries

RowsOK == \A e \in Events : WellMarked(row[e]) /\ Attempts(row[e])

\* What a session writes into its rows.
WorkerStatus == {"new", "processed", "skipped", "duplicate", "failed"}

Settles(w) ==
  \A e \in Locked(w) :
    /\ session[w][e].status \in WorkerStatus
    /\ WellMarked(session[w][e]) /\ Attempts(session[w][e])
    /\ session[w][e].status # "processed" => session[w][e].score = row[e].score

\* The events the loop has still to settle are held, and as they were fetched.
Pending(w) ==
  /\ pc[w] \in {"idle", "open", "aborted"} => Locked(w) = {}
  /\ pc[w] \in {"flush", "query", "classify"} =>
       /\ todo[w] # {} /\ todo[w] \subseteq Locked(w)
       /\ \A e \in todo[w] : session[w][e].status = "new"

ClaimOf(w) == \A e \in Locked(w) : row[e].status = "new"

WorkerOK(w) == Settles(w) /\ Pending(w) /\ ClaimOf(w)

Inv == /\ TypeOK /\ LocksExclude
       /\ \A w \in Workers : WorkerOK(w)
       /\ RowsOK

-----------------------------------------------------------------------------

\* The batch is ordered, so a loop with something left has a current event.
LEMMA CurrentInTodo ==
  ASSUME TypeOK, NEW w \in Workers, todo[w] # {}
  PROVE  Current(w) \in todo[w]
<1> DEFINE T == {FetchedAt[e] : e \in todo[w]}
<1>1. todo[w] \subseteq Events
  BY DEF TypeOK, ProcessorTypeOK
<1>2. T \subseteq Nat /\ T # {}
  BY <1>1, FetchedAtAssumption
<1>3. PICK x \in T : \A y \in T : ~ (<<y, x>> \in OpToRel(<, Nat))
  <2> HIDE DEF T
  <2> QED BY <1>2, NatLessThanWellFounded, WFMin
<1>4. \A y \in T : x <= y
  <2> HIDE DEF T
  <2>1. ASSUME NEW y \in T, y < x PROVE <<y, x>> \in OpToRel(<, Nat)
    <3>1. x \in Nat /\ y \in Nat /\ <<y, x>> \in Nat \X Nat
      BY <1>2
    <3>2. <<y, x>>[1] < <<y, x>>[2]
      BY <2>1
    <3> QED BY <3>1, <3>2 DEF OpToRel
  <2>2. \A y \in T : ~ (y < x)
    BY <1>3, <2>1
  <2> QED BY <1>2, <2>2
<1>5. PICK e \in todo[w] : FetchedAt[e] = x
  BY <1>3
<1>6. \A f \in todo[w] : FetchedAt[e] <= FetchedAt[f]
  BY <1>4, <1>5
<1> QED BY <1>6 DEF Current

\* Every way a classification ends is a row the worker may write.
LEMMA OutcomeOK ==
  ASSUME NEW e \in Events, NEW r \in Row, r.status = "new", WellMarked(r), Attempts(r),
         NEW v \in Outcomes(e, r)
  PROVE  /\ v \in Row /\ WellMarked(v) /\ Attempts(v) /\ v.dup = r.dup
         /\ v.status \in WorkerStatus \ {"duplicate"}
         /\ v.status # "processed" => v.score = r.score
<1>1. v = Fail(r) \/ v = Skip(r) \/ \E s \in Scores : v = Succeed(r, s)
  BY DEF Outcomes
<1>2. r.retry \in 0 .. 2
  BY DEF Row, Attempts, MaxRetries
<1>3. CASE v = Fail(r)
  <2>1. /\ v = [r EXCEPT !.retry = r.retry + 1, !.status = v.status]
        /\ \/ v.status = "failed" /\ r.retry + 1 >= 3
           \/ v.status = "new" /\ r.retry + 1 < 3
    BY <1>2, <1>3 DEF Fail, Row, MaxRetries
  <2>2. v \in Row /\ v.dup = r.dup /\ v.score = r.score /\ v.retry = r.retry + 1
    <3>1. r.retry + 1 \in 0 .. MaxRetries /\ v.status \in Status
      BY <1>2, <2>1 DEF MaxRetries, Status
    <3> QED BY <2>1, <3>1 DEF Row
  <2>3. WellMarked(v) /\ Attempts(v)
    BY <1>2, <2>1, <2>2 DEF WellMarked, Attempts, MaxRetries
  <2> QED BY <2>1, <2>2, <2>3 DEF WorkerStatus
<1>4. CASE v = Skip(r)
  BY <1>2, <1>4 DEF Skip, Row, Status, WellMarked, Attempts, MaxRetries, WorkerStatus
<1>5. ASSUME NEW s \in Scores, v = Succeed(r, s)
      PROVE  /\ v \in Row /\ WellMarked(v) /\ Attempts(v) /\ v.dup = r.dup
             /\ v.status \in WorkerStatus \ {"duplicate"} /\ v.status = "processed"
  BY <1>2, <1>5 DEF Succeed, Row, Status, WellMarked, Attempts, MaxRetries, WorkerStatus
<1> QED BY <1>1, <1>3, <1>4, <1>5

\* A worker that the step does not concern, nor its rows, stays as it should be.
LEMMA OtherWorker ==
  ASSUME Inv, NEW v \in Workers, session'[v] = session[v],
         pc'[v] = pc[v], todo'[v] = todo[v], \A e \in Locked(v) : row'[e] = row[e]
  PROVE  WorkerOK(v)'
BY DEF Inv, WorkerOK, Settles, Pending, ClaimOf, Locked

LEMMA InitInv == Init => Inv
<1> SUFFICES ASSUME Init PROVE Inv
  OBVIOUS
<1> USE DEF Init, DbInit, ProcessorInit
<1>1. \A c \in Clients : Locked(c) = {} /\ keyShare[c] = {}
  BY DEF Locked, NoRows
<1>2. DbTypeOK
  <2>1. FreshRow \in Row /\ [FreshRow EXCEPT !.status = "absent"] \in Row
    BY DEF FreshRow, Row, Status, MaxRetries
  <2>2. \A c \in Clients : session[c] \in [Locked(c) -> Row]
    BY <1>1, <2>1 DEF NoRows, Locked
  <2> QED BY <1>1, <2>1, <2>2 DEF DbTypeOK
<1>3. ProcessorTypeOK
  BY DEF ProcessorTypeOK, Pc, FaultKinds
<1>4. LocksExclude
  BY <1>1 DEF LocksExclude
<1>5. \A w \in Workers : WorkerOK(w)
  BY <1>1, WorkersAssumption DEF WorkerOK, Settles, Pending, ClaimOf
<1>6. RowsOK
  BY DEF RowsOK, WellMarked, Attempts, FreshRow
<1> QED BY <1>2, <1>3, <1>4, <1>5, <1>6 DEF Inv, TypeOK

-----------------------------------------------------------------------------
(* Every action keeps the invariant.                                        *)

\* A step of w that commits nothing: what is left to show is about w alone.
LEMMA LocalStep ==
  ASSUME Inv, NEW w \in Workers, DbTypeOK', LocksExclude',
         \A c \in Clients \ {w} : session'[c] = session[c],
         row' = row, llmRows' = llmRows, faults' \in [FaultKinds -> Nat],
         NEW label \in Pc, Goto(w, label),
         NEW rest \in SUBSET Events, todo' = [todo EXCEPT ![w] = rest],
         WorkerOK(w)'
  PROVE  Inv'
<1>1. ProcessorTypeOK'
  BY DEF Inv, TypeOK, ProcessorTypeOK, Goto
<1>2. ASSUME NEW v \in Workers PROVE WorkerOK(v)'
  <2>1. CASE v = w
    BY <2>1
  <2>2. CASE v # w
    <3>1. session'[v] = session[v]
      BY <2>2, WorkersAssumption
    <3>2. pc'[v] = pc[v] /\ todo'[v] = todo[v]
      BY <2>2 DEF Goto, Inv, TypeOK, ProcessorTypeOK
    <3> QED BY <3>1, <3>2, OtherWorker
  <2> QED BY <2>1, <2>2
<1>3. RowsOK'
  BY DEF Inv, RowsOK
<1> QED BY <1>1, <1>2, <1>3 DEF Inv, TypeOK

LEMMA FetchInv == ASSUME Inv, NEW w \in Workers, Fetch(w) PROVE Inv'
<1> DEFINE avail == {e \in Free(w) : row[e].status = "new"}
<1>1. PICK S \in (SUBSET avail) \ {{}} : Lock(w, S) /\ todo' = [todo EXCEPT ![w] = S]
  BY DEF Fetch
<1>2. S \in SUBSET Free(w) /\ S # {} /\ S \in SUBSET Events
  <2>1. Free(w) \subseteq Events
    BY DEF Free
  <2> QED BY <1>1, <2>1
<1>3. w \in Clients /\ DbTypeOK /\ LocksExclude /\ ProcessorTypeOK
  BY WorkersAssumption DEF Inv, TypeOK
<1>4. /\ DbTypeOK' /\ LocksExclude' /\ row' = row
      /\ Locked(w)' = S /\ \A e \in S : session'[w][e] = row[e]
      /\ \A d \in Clients \ {w} : session'[d] = session[d]
  BY <1>1, <1>2, <1>3, LockEffect
<1>5. Goto(w, "flush") /\ llmRows' = llmRows /\ faults' = faults
  BY DEF Fetch
<1>6. pc'[w] = "flush" /\ todo'[w] = S
  BY <1>1, <1>3, <1>5 DEF Goto, ProcessorTypeOK
<1>7. \A e \in S : row[e].status = "new" /\ WellMarked(row[e]) /\ Attempts(row[e])
  BY <1>2 DEF Inv, RowsOK
<1>8. WorkerOK(w)'
  BY <1>2, <1>4, <1>6, <1>7 DEF WorkerOK, Settles, Pending, ClaimOf, WorkerStatus
<1> QED
  BY <1>1, <1>2, <1>3, <1>4, <1>5, <1>8, LocalStep DEF Pc, ProcessorTypeOK

LEMMA AutoflushInv == ASSUME Inv, NEW w \in Workers, Autoflush(w) PROVE Inv'
<1>1. w \in Clients /\ DbTypeOK /\ LocksExclude /\ ProcessorTypeOK
  BY WorkersAssumption DEF Inv, TypeOK
<1>2. DbTypeOK' /\ LocksExclude' /\ row' = row /\ session' = session
  BY <1>1, FlushEffect DEF Autoflush
<1>3. Goto(w, "query") /\ todo' = todo /\ llmRows' = llmRows /\ faults' = faults
      /\ pc[w] = "flush" /\ pc'[w] = "query"
  BY <1>1 DEF Autoflush, Goto, ProcessorTypeOK
<1>4. WorkerOK(w)'
  BY <1>2, <1>3 DEF Inv, WorkerOK, Settles, Pending, ClaimOf, Locked
<1>5. todo' = [todo EXCEPT ![w] = todo[w]] /\ todo[w] \in SUBSET Events
  BY <1>1, <1>3 DEF ProcessorTypeOK
<1> QED
  BY <1>1, <1>2, <1>3, <1>4, <1>5, LocalStep DEF Pc, ProcessorTypeOK

LEMMA NoDuplicateInv == ASSUME Inv, NEW w \in Workers, NoDuplicate(w) PROVE Inv'
<1>1. DbTypeOK /\ LocksExclude /\ ProcessorTypeOK
  BY DEF Inv, TypeOK
<1>2. /\ row' = row /\ session' = session /\ keyShare' = keyShare /\ now' = now
      /\ Goto(w, "classify") /\ todo' = todo /\ llmRows' = llmRows /\ faults' = faults
      /\ pc[w] = "query" /\ pc'[w] = "classify"
  BY <1>1 DEF NoDuplicate, dbVars, Goto, ProcessorTypeOK
<1>3. DbTypeOK' /\ LocksExclude'
  BY <1>1, <1>2 DEF DbTypeOK, LocksExclude, Locked
<1>4. WorkerOK(w)'
  BY <1>2 DEF Inv, WorkerOK, Settles, Pending, ClaimOf, Locked
<1>5. todo' = [todo EXCEPT ![w] = todo[w]] /\ todo[w] \in SUBSET Events
  BY <1>1, <1>2 DEF ProcessorTypeOK
<1> QED
  BY <1>1, <1>2, <1>3, <1>4, <1>5, LocalStep DEF Pc, ProcessorTypeOK

\* One iteration of the loop: the current event gets its value and leaves todo.
LEMMA IterationInv ==
  ASSUME Inv, NEW w \in Workers, pc[w] \in {"query", "classify"},
         NEW e \in todo[w], NEW v \in Row, v.status \in WorkerStatus,
         WellMarked(v), Attempts(v), Assign(w, e, v), NextIteration(w, e),
         v.status # "processed" => v.score = session[w][e].score
  PROVE  Inv'
<1>1. w \in Clients /\ DbTypeOK /\ LocksExclude /\ ProcessorTypeOK
  BY WorkersAssumption DEF Inv, TypeOK
<1>2. /\ todo[w] \subseteq Locked(w) /\ Settles(w) /\ ClaimOf(w)
      /\ \A f \in todo[w] : session[w][f].status = "new"
  BY DEF Inv, WorkerOK, Pending
<1>3. /\ DbTypeOK' /\ LocksExclude' /\ row' = row /\ Locked(w)' = Locked(w)
      /\ session'[w] = [session[w] EXCEPT ![e] = v]
      /\ \A d \in Clients \ {w} : session'[d] = session[d]
  BY <1>1, <1>2, AssignEffect
<1>4. session'[w][e] = v /\ \A f \in Locked(w) \ {e} : session'[w][f] = session[w][f]
  BY <1>1, <1>2, <1>3 DEF Locked
<1> DEFINE rest == todo[w] \ {e}
           label == IF rest = {} THEN "commit" ELSE "flush"
<1>5. /\ todo' = [todo EXCEPT ![w] = rest] /\ Goto(w, label)
      /\ llmRows' = llmRows /\ faults' = faults
  BY DEF NextIteration
<1>6. todo'[w] = rest /\ pc'[w] = label /\ rest \in SUBSET Events /\ label \in Pc
  BY <1>1, <1>5 DEF Goto, ProcessorTypeOK, Pc
<1>7. Settles(w)'
  <2>1. v.status # "processed" => v.score = row[e].score
    BY <1>2 DEF Settles
  <2> QED BY <1>2, <1>3, <1>4, <2>1 DEF Settles
<1>8. Pending(w)'
  BY <1>2, <1>3, <1>4, <1>6 DEF Pending
<1>9. ClaimOf(w)'
  BY <1>2, <1>3 DEF ClaimOf
<1>10. faults' \in [FaultKinds -> Nat] /\ WorkerOK(w)'
  BY <1>1, <1>5, <1>7, <1>8, <1>9 DEF WorkerOK, ProcessorTypeOK
<1> HIDE DEF rest, label
<1> QED
  BY <1>3, <1>5, <1>6, <1>10, LocalStep

\* The current event is one the worker holds and has not touched.
LEMMA CurrentHeld ==
  ASSUME Inv, NEW w \in Workers, pc[w] \in {"query", "classify"}
  PROVE  /\ Current(w) \in todo[w] /\ Current(w) \in Locked(w) /\ Current(w) \in Events
         /\ session[w][Current(w)] \in Row /\ session[w][Current(w)].status = "new"
         /\ session[w][Current(w)].dup = None /\ Attempts(session[w][Current(w)])
<1>1. todo[w] # {} /\ todo[w] \subseteq Locked(w) /\ Settles(w)
      /\ \A e \in todo[w] : session[w][e].status = "new"
  BY DEF Inv, WorkerOK, Pending
<1>2. Current(w) \in todo[w]
  BY <1>1, CurrentInTodo DEF Inv
<1>3. Locked(w) \subseteq Events /\ session[w] \in [Locked(w) -> Row]
  BY WorkersAssumption DEF Inv, TypeOK, DbTypeOK
<1> QED BY <1>1, <1>2, <1>3 DEF Settles, WellMarked

LEMMA MarkDuplicateInv == ASSUME Inv, NEW w \in Workers, MarkDuplicate(w) PROVE Inv'
<1> DEFINE e == Current(w)
<1>1. PICK c \in Duplicates(w, e) :
        Assign(w, e, [session[w][e] EXCEPT !.status = "duplicate", !.dup = c])
  BY DEF MarkDuplicate
<1>2. pc[w] = "query" /\ NextIteration(w, e)
  BY DEF MarkDuplicate
<1>3. e \in todo[w] /\ session[w][e] \in Row
  BY <1>2, CurrentHeld
<1>4. c \in Events
  BY DEF Duplicates
<1> DEFINE v == [session[w][e] EXCEPT !.status = "duplicate", !.dup = c]
<1>5. /\ v \in Row /\ v.status \in WorkerStatus /\ WellMarked(v) /\ Attempts(v)
      /\ v.score = session[w][e].score
  BY <1>3, <1>4 DEF Row, Status, WorkerStatus, WellMarked, Attempts
<1> HIDE DEF v, e
<1>6. Assign(w, e, v)
  BY <1>1 DEF v
<1> QED BY <1>2, <1>3, <1>5, <1>6, IterationInv

LEMMA ClassifyInv == ASSUME Inv, NEW w \in Workers, Classify(w) PROVE Inv'
<1> DEFINE e == Current(w)
<1>1. PICK v \in Outcomes(e, session[w][e]) : Assign(w, e, v)
  BY DEF Classify
<1>2. pc[w] = "classify" /\ NextIteration(w, e)
  BY DEF Classify
<1>3. /\ e \in todo[w] /\ e \in Events /\ session[w][e] \in Row
      /\ session[w][e].status = "new"
      /\ WellMarked(session[w][e]) /\ Attempts(session[w][e])
  BY <1>2, CurrentHeld DEF WellMarked
<1>4. /\ v \in Row /\ WellMarked(v) /\ Attempts(v) /\ v.status \in WorkerStatus
      /\ v.status # "processed" => v.score = session[w][e].score
  BY <1>1, <1>3, OutcomeOK
<1> HIDE DEF e
<1> QED BY <1>1, <1>2, <1>3, <1>4, IterationInv

LEMMA CommitInv == ASSUME Inv, NEW w \in Workers, Commit(w) PROVE Inv'
<1>1. w \in Clients /\ DbTypeOK /\ LocksExclude /\ ProcessorTypeOK
  BY WorkersAssumption DEF Inv, TypeOK
<1>2. CommitRows(w) /\ Goto(w, "idle") /\ todo' = todo /\ faults' = faults
  BY DEF Commit
<1>3. /\ DbTypeOK' /\ LocksExclude' /\ Locked(w)' = {}
      /\ \A d \in Clients \ {w} : session'[d] = session[d]
      /\ \A e \in Locked(w) : row'[e] = session[w][e]
      /\ \A e \in Events \ Locked(w) : row'[e] = row[e]
  BY <1>1, <1>2, CommitEffect
<1>4. /\ Settles(w) /\ ClaimOf(w) /\ RowsOK
  BY DEF Inv, WorkerOK
<1>5. RowsOK'
  BY <1>3, <1>4 DEF Settles, RowsOK
<1>6. ProcessorTypeOK'
  <2>1. llmRows' \in [Events -> Nat]
    BY <1>1 DEF Commit, ProcessorTypeOK
  <2> QED BY <1>1, <1>2, <2>1 DEF ProcessorTypeOK, Goto, Pc
<1>7. ASSUME NEW v \in Workers PROVE WorkerOK(v)'
  <2>1. CASE v = w
    <3>1. pc'[w] = "idle"
      BY <1>1, <1>2 DEF Goto, ProcessorTypeOK
    <3> QED BY <1>3, <2>1, <3>1 DEF WorkerOK, Settles, Pending, ClaimOf
  <2>2. CASE v # w
    <3>1. session'[v] = session[v]
      BY <1>3, <2>2, WorkersAssumption
    <3>2. pc'[v] = pc[v] /\ todo'[v] = todo[v]
      BY <1>1, <1>2, <2>2 DEF Goto, ProcessorTypeOK
    <3>3. \A e \in Locked(v) : e \in Events \ Locked(w)
      BY <1>1, <2>2, WorkersAssumption DEF LocksExclude, DbTypeOK
    <3> QED BY <1>3, <3>1, <3>2, <3>3, OtherWorker
  <2> QED BY <2>1, <2>2
<1> QED BY <1>3, <1>5, <1>6, <1>7 DEF Inv, TypeOK

\* A run that is given up, or whose transaction is lost, leaves nothing behind.
LEMMA RollbackInv ==
  ASSUME Inv, NEW w \in Workers, Rollback(w), llmRows' = llmRows,
         faults' \in [FaultKinds -> Nat],
         NEW label \in {"idle", "open"}, Goto(w, label),
         NEW rest \in SUBSET Events, todo' = [todo EXCEPT ![w] = rest]
  PROVE  Inv'
<1>1. w \in Clients /\ DbTypeOK /\ LocksExclude /\ ProcessorTypeOK
  BY WorkersAssumption DEF Inv, TypeOK
<1>2. /\ DbTypeOK' /\ LocksExclude' /\ Locked(w)' = {} /\ row' = row
      /\ \A d \in Clients \ {w} : session'[d] = session[d]
  BY <1>1, RollbackEffect
<1>3. pc'[w] = label /\ label \in Pc
  BY <1>1 DEF Goto, ProcessorTypeOK, Pc
<1>4. WorkerOK(w)'
  BY <1>2, <1>3 DEF WorkerOK, Settles, Pending, ClaimOf
<1> QED BY <1>2, <1>3, <1>4, LocalStep

LEMMA FaultType == ASSUME Inv, NEW k \in FaultKinds, Fault(k)
                   PROVE  faults' \in [FaultKinds -> Nat]
BY DEF Inv, TypeOK, ProcessorTypeOK, Fault

LEMMA EndRunInv ==
  ASSUME Inv, NEW w \in Workers, EndRun(w), faults' \in [FaultKinds -> Nat]
  PROVE  Inv'
BY RollbackInv DEF EndRun

LEMMA DedupFailsInv == ASSUME Inv, NEW w \in Workers, DedupFails(w) PROVE Inv'
<1>1. todo' = [todo EXCEPT ![w] = todo[w]] /\ todo[w] \in SUBSET Events
  BY DEF DedupFails, Inv, TypeOK, ProcessorTypeOK
<1>2. Rollback(w) /\ llmRows' = llmRows /\ Goto(w, "open") /\ Fault("dbError")
  BY DEF DedupFails
<1>3. faults' \in [FaultKinds -> Nat]
  BY <1>2, FaultType DEF FaultKinds
<1> QED BY <1>1, <1>2, <1>3, RollbackInv

LEMMA ClassifyOpenInv == ASSUME Inv, NEW w \in Workers, ClassifyOpen(w) PROVE Inv'
<1>1. DbTypeOK /\ LocksExclude /\ ProcessorTypeOK
  BY DEF Inv, TypeOK
<1>2. /\ row' = row /\ session' = session /\ keyShare' = keyShare /\ now' = now
      /\ Goto(w, "aborted") /\ todo' = todo /\ llmRows' = llmRows /\ faults' = faults
      /\ pc[w] = "open" /\ pc'[w] = "aborted"
  BY <1>1 DEF ClassifyOpen, dbVars, Goto, ProcessorTypeOK
<1>3. DbTypeOK' /\ LocksExclude'
  BY <1>1, <1>2 DEF DbTypeOK, LocksExclude, Locked
<1>4. WorkerOK(w)'
  BY <1>2 DEF Inv, WorkerOK, Settles, Pending, ClaimOf, Locked
<1>5. todo' = [todo EXCEPT ![w] = todo[w]] /\ todo[w] \in SUBSET Events
  BY <1>1, <1>2 DEF ProcessorTypeOK
<1> QED
  BY <1>1, <1>2, <1>3, <1>4, <1>5, LocalStep DEF Pc, ProcessorTypeOK

\* What goes on outside the workers changes no row that is new, and so none of
\* theirs: another service's transaction, an arrival, a requeue, the clock.
LEMMA OutsideInv ==
  ASSUME Inv, DbTypeOK', LocksExclude', \A w \in Workers : session'[w] = session[w],
         UNCHANGED <<workerVars, llmRows>>, faults' \in [FaultKinds -> Nat],
         \A e \in Events :
           \/ row'[e] = row[e]
           \/ row[e].status # "new" /\ WellMarked(row'[e]) /\ Attempts(row'[e])
  PROVE  Inv'
<1>1. TypeOK'
  BY DEF Inv, TypeOK, ProcessorTypeOK, workerVars
<1>2. ASSUME NEW v \in Workers PROVE WorkerOK(v)'
  <2>1. Locked(v) \subseteq Events /\ \A e \in Locked(v) : row[e].status = "new"
    BY WorkersAssumption DEF Inv, WorkerOK, ClaimOf, TypeOK, DbTypeOK
  <2>2. \A e \in Locked(v) : row'[e] = row[e]
    BY <2>1
  <2> QED BY <2>2, OtherWorker DEF workerVars
<1>3. RowsOK'
  BY DEF Inv, RowsOK
<1> QED BY <1>1, <1>2, <1>3 DEF Inv

\* The same for a step that leaves all sessions alone.
LEMMA RowsInv ==
  ASSUME Inv, session' = session, keyShare' = keyShare, now' \in Nat,
         UNCHANGED <<workerVars, llmRows>>, faults' \in [FaultKinds -> Nat],
         row' \in [Events -> Row],
         \A e \in Events :
           \/ row'[e] = row[e]
           \/ row[e].status # "new" /\ WellMarked(row'[e]) /\ Attempts(row'[e])
  PROVE  Inv'
<1>1. DbTypeOK' /\ LocksExclude'
  BY DEF Inv, TypeOK, DbTypeOK, LocksExclude, Locked
<1> QED BY <1>1, OutsideInv

LEMMA InsertInv ==
  ASSUME Inv, NEW e \in Events, Insert(e), UNCHANGED processorVars PROVE Inv'
<1>1. /\ FreshRow \in Row /\ FreshRow.status = "new"
      /\ WellMarked(FreshRow) /\ Attempts(FreshRow)
  BY DEF FreshRow, Row, Status, WellMarked, Attempts, MaxRetries
<1>2. row \in [Events -> Row] /\ now \in Nat /\ faults \in [FaultKinds -> Nat]
  BY DEF Inv, TypeOK, DbTypeOK, ProcessorTypeOK
<1>3. /\ row' \in [Events -> Row] /\ row'[e] = FreshRow
      /\ \A f \in Events \ {e} : row'[f] = row[f]
  BY <1>1, <1>2 DEF Insert
<1>4. /\ row[e].status = "absent" /\ session' = session /\ keyShare' = keyShare /\ now' = now
      /\ UNCHANGED <<workerVars, llmRows>> /\ faults' = faults
  BY DEF Insert, processorVars
<1> QED BY <1>1, <1>2, <1>3, <1>4, RowsInv

LEMMA RequeueInv ==
  ASSUME Inv, RequeueFailed, faults' \in [FaultKinds -> Nat], UNCHANGED <<workerVars, llmRows>>
  PROVE  Inv'
<1>1. row \in [Events -> Row] /\ now \in Nat
  BY DEF Inv, TypeOK, DbTypeOK
<1>2. ASSUME NEW e \in Events, row[e].status = "failed"
      PROVE  LET r == [row[e] EXCEPT !.status = "new", !.retry = 0]
             IN r \in Row /\ r.status = "new" /\ WellMarked(r) /\ Attempts(r)
  <2>1. row[e] \in Row /\ row[e].dup = None
    BY <1>1, <1>2 DEF Inv, RowsOK, WellMarked
  <2>2. [row[e] EXCEPT !.status = "new", !.retry = 0] \in Row
    <3>1. 0 \in 0 .. MaxRetries /\ "new" \in Status
      BY DEF MaxRetries, Status
    <3> QED BY <2>1, <3>1 DEF Row
  <2> QED BY <2>1, <2>2 DEF Row, WellMarked, Attempts, MaxRetries
<1>3. /\ row' \in [Events -> Row]
      /\ \A e \in Events : row'[e] = IF row[e].status = "failed"
                                     THEN [row[e] EXCEPT !.status = "new", !.retry = 0]
                                     ELSE row[e]
  BY <1>1, <1>2 DEF RequeueFailed
<1>4. session' = session /\ keyShare' = keyShare /\ now' = now
  BY DEF RequeueFailed
<1> QED BY <1>1, <1>2, <1>3, <1>4, RowsInv

LEMMA ClockInv == ASSUME Inv, AdvanceClock(MaxNow), UNCHANGED processorVars PROVE Inv'
<1>1. row' = row /\ session' = session /\ keyShare' = keyShare /\ now' = now + 1
  BY DEF AdvanceClock
<1>2. row \in [Events -> Row] /\ now \in Nat /\ faults \in [FaultKinds -> Nat]
  BY DEF Inv, TypeOK, DbTypeOK, ProcessorTypeOK
<1>3. UNCHANGED <<workerVars, llmRows>> /\ faults' = faults
  BY DEF processorVars
<1> QED BY <1>1, <1>2, <1>3, RowsInv

LEMMA StutterInv == ASSUME Inv, UNCHANGED vars PROVE Inv'
BY DEF Inv, TypeOK, DbTypeOK, ProcessorTypeOK, LocksExclude, WorkerOK, Settles, Pending,
       ClaimOf, RowsOK, Locked, vars, dbVars, processorVars, workerVars

\* Whatever a worker does, of itself or to its misfortune.
LEMMA WorkerInv ==
  ASSUME Inv, NEW w \in Workers, Worker(w) \/ DedupFails(w) \/ Crash(w)
  PROVE  Inv'
<1>1. CASE Worker(w)
  <2>1. faults' \in [FaultKinds -> Nat] \/ ~ (EndAborted(w) \/ DeadlockVictim(w))
    BY DEF EndAborted, DeadlockVictim, Inv, TypeOK, ProcessorTypeOK
  <2>2. CASE EndAborted(w) \/ DeadlockVictim(w)
    BY <2>1, <2>2, EndRunInv DEF EndAborted, DeadlockVictim
  <2> QED
    BY <1>1, <2>2, FetchInv, AutoflushInv, MarkDuplicateInv, NoDuplicateInv, ClassifyInv,
       CommitInv, ClassifyOpenInv DEF Worker
<1>2. CASE Crash(w)
  BY <1>2, EndRunInv, FaultType DEF Crash, FaultKinds
<1>3. CASE DedupFails(w)
  BY <1>3, DedupFailsInv
<1> QED BY <1>1, <1>2, <1>3

LEMMA NextInv == Inv /\ [Next]_vars => Inv'
<1> SUFFICES ASSUME Inv, [Next]_vars PROVE Inv'
  OBVIOUS
<1>1. ASSUME RequeueFailed, Fault("requeue"), UNCHANGED <<workerVars, llmRows>> PROVE Inv'
  BY <1>1, RequeueInv, FaultType DEF FaultKinds
<1>2. CASE Environment
  BY <1>1, <1>2, InsertInv, ClockInv DEF Environment
<1>3. CASE UNCHANGED vars
  BY <1>3, StutterInv
<1> QED BY <1>2, <1>3, WorkerInv DEF Next

\* The invariant holds, for every instance.
THEOREM InvHolds == Spec => []Inv
BY InitInv, NextInv, PTL DEF Spec

\* Every variable stays in its range, retry_count in particular.
THEOREM TypeCorrect == Spec => []TypeOK
<1>1. Inv => TypeOK
  BY DEF Inv
<1> QED BY <1>1, InvHolds, PTL

\* Rows under FOR UPDATE SKIP LOCKED are still new when their worker commits.
THEOREM ClaimsStayFresh == Spec => []ClaimsAreFresh
<1>1. Inv => ClaimsAreFresh
  BY WorkersAssumption DEF Inv, WorkerOK, ClaimOf, ClaimsAreFresh, LocksExclude
<1> QED BY <1>1, InvHolds, PTL

-----------------------------------------------------------------------------
(* The processor implements the queue: a commit settles a batch of new      *)
(* events, everything else is invisible.                                    *)

LEMMA QueueInit == Init => Queue!Init
BY DEF Init, DbInit, ProcessorInit, Queue!Init, FreshRow

\* What no session has committed, no other service sees.
LEMMA QueueStutter ==
  ASSUME row' = row, llmRows' = llmRows
  PROVE  UNCHANGED <<[e \in Events |-> row[e].status], llmRows>>
OBVIOUS

LEMMA QueueCommit == ASSUME Inv, NEW w \in Workers, Commit(w) PROVE Queue!Classify
<1>1. w \in Clients /\ DbTypeOK /\ ProcessorTypeOK
  BY WorkersAssumption DEF Inv, TypeOK
<1>2. CommitRows(w)
  BY DEF Commit
<1>3. /\ DbTypeOK'
      /\ \A e \in Locked(w) : row'[e] = session[w][e]
      /\ \A e \in Events \ Locked(w) : row'[e] = row[e]
  BY <1>1, <1>2, CommitEffect
<1>4. \A e \in Locked(w) : row[e].status = "new" /\ session[w][e].status \in WorkerStatus
  BY DEF Inv, WorkerOK, ClaimOf, Settles
<1>5. \A e \in Events : row'[e].status # row[e].status =>
        row[e].status = "new" /\ row'[e].status \in Queue!Classified
  BY <1>3, <1>4 DEF WorkerStatus, Queue!Classified
<1>6. [e \in Events |-> row'[e].status]
        \in [Events -> Queue!Classified \cup Queue!Delivered \cup {"absent"}]
  <2>1. \A e \in Events : row'[e].status \in Status
    BY <1>3 DEF DbTypeOK, Row
  <2> QED BY <2>1 DEF Status, Queue!Classified, Queue!Delivered
<1>7. llmRows' = [e \in Events |->
        IF row[e].status = "new" /\ row'[e].status = "processed"
        THEN llmRows[e] + 1 ELSE llmRows[e]]
  <2>1. \A e \in Events : e \in Locked(w) /\ session[w][e].status = "processed"
          <=> row[e].status = "new" /\ row'[e].status = "processed"
    BY <1>3, <1>4
  <2> QED BY <2>1 DEF Commit
<1> QED BY <1>5, <1>6, <1>7 DEF Queue!Classify

\* Only the commit of a run changes what others see.
LEMMA QuietSteps ==
  ASSUME NEW w \in Workers, Worker(w) \/ DedupFails(w) \/ Crash(w), ~ Commit(w)
  PROVE  row' = row /\ llmRows' = llmRows
BY DEF Worker, Fetch, Autoflush, MarkDuplicate, NoDuplicate, Classify, ClassifyOpen,
   EndAborted, DeadlockVictim, DedupFails, Crash, EndRun, Rollback, Lock, FlushRows, Assign,
   NextIteration, dbVars

LEMMA QueueArrival ==
  ASSUME row \in [Events -> Row], NEW e \in Events, Insert(e), llmRows' = llmRows
  PROVE  Queue!Next
<1>1. row[e].status = "absent" /\ row' = [row EXCEPT ![e] = FreshRow] /\ FreshRow.status = "new"
  BY DEF Insert, FreshRow
<1>2. [f \in Events |-> row'[f].status] = [[f \in Events |-> row[f].status] EXCEPT ![e] = "new"]
  BY <1>1
<1>3. Queue!Arrive(e)
  BY <1>1, <1>2 DEF Queue!Arrive
<1> QED BY <1>3 DEF Queue!Next

LEMMA QueueRequeue ==
  ASSUME row \in [Events -> Row], RequeueFailed, llmRows' = llmRows
  PROVE  Queue!Next
<1>1. \A e \in Events : row'[e].status = IF row[e].status = "failed" THEN "new"
                                         ELSE row[e].status
  BY DEF RequeueFailed, Row
<1>2. Queue!Requeue
  BY <1>1 DEF Queue!Requeue
<1> QED BY <1>2 DEF Queue!Next

LEMMA QueueStep ==
  ASSUME Inv, [Next]_vars
  PROVE  [Queue!Next]_<<[e \in Events |-> row[e].status], llmRows>>
<1>1. ASSUME NEW w \in Workers, Commit(w) PROVE Queue!Next
  BY <1>1, QueueCommit DEF Queue!Next
<1>2. row \in [Events -> Row]
  BY DEF Inv, TypeOK, DbTypeOK
<1>3. ASSUME Environment
      PROVE  Queue!Next \/ (row' = row /\ llmRows' = llmRows)
  BY <1>2, <1>3, QueueArrival, QueueRequeue DEF Environment, AdvanceClock, processorVars
<1>4. CASE UNCHANGED vars
  BY <1>4, QueueStutter DEF vars, dbVars, processorVars
<1> QED BY <1>1, <1>3, <1>4, QuietSteps, QueueStutter DEF Next

\* Workers, locks, crashes and lost transactions are invisible to the queue: an
\* event moves one stage at a time, and is processed when its LlmCall is there.
THEOREM ProcessorImplementsQueue == Spec => QueueSpec
BY InvHolds, QueueInit, QueueStep, PTL DEF Spec, QueueSpec, Queue!Spec
-----------------------------------------------------------------------------
(* The recorded calls, while nothing else touches processed events.         *)

CallsOK == \A e \in Events : llmRows[e] = IF row[e].status = "processed" THEN 1 ELSE 0

LEMMA CallsStep == ASSUME Inv, CallsOK, [Next]_vars PROVE CallsOK'
<1>1. ASSUME NEW w \in Workers, Commit(w) PROVE CallsOK'
  <2>1. DbTypeOK /\ w \in Clients /\ CommitRows(w)
    BY <1>1, WorkersAssumption DEF Inv, TypeOK, Commit
  <2>2. /\ \A e \in Locked(w) : row'[e] = session[w][e] /\ row[e].status = "new"
        /\ \A e \in Events \ Locked(w) : row'[e] = row[e]
    BY <2>1, CommitEffect DEF Inv, WorkerOK, ClaimOf
  <2>3. \A e \in Events : llmRows'[e] =
          IF e \in Locked(w) /\ session[w][e].status = "processed"
          THEN llmRows[e] + 1 ELSE llmRows[e]
    BY <1>1 DEF Commit
  <2> QED BY <2>2, <2>3 DEF CallsOK
<1>2. ASSUME NEW e \in Events, Insert(e), UNCHANGED processorVars PROVE CallsOK'
  <2>1. /\ row[e].status = "absent" /\ llmRows' = llmRows
        /\ row'[e].status = "new" /\ \A f \in Events \ {e} : row'[f] = row[f]
    BY <1>2 DEF Insert, processorVars, Inv, TypeOK, DbTypeOK, FreshRow
  <2> QED BY <2>1 DEF CallsOK
<1>3. ASSUME RequeueFailed, UNCHANGED <<workerVars, llmRows>> PROVE CallsOK'
  <2>1. \A e \in Events : row'[e].status = IF row[e].status = "failed" THEN "new"
                                           ELSE row[e].status
    BY <1>3 DEF RequeueFailed, Row, Inv, TypeOK, DbTypeOK
  <2> QED BY <1>3, <2>1 DEF CallsOK
<1>4. ASSUME row' = row, llmRows' = llmRows PROVE CallsOK'
  BY <1>4 DEF CallsOK
<1>5. CASE UNCHANGED vars
  BY <1>4, <1>5 DEF vars, dbVars, processorVars
<1>6. CASE Environment
  BY <1>2, <1>3, <1>4, <1>6 DEF Environment, AdvanceClock, processorVars
<1> QED BY <1>1, <1>4, <1>5, <1>6, QuietSteps DEF Next

\* Retry counts and LlmCall rows agree with the status of every event.
THEOREM AttemptsAccounted == Spec => []AttemptsAreAccounted
<1>1. Init => CallsOK
  BY DEF Init, DbInit, ProcessorInit, CallsOK, FreshRow
<1>2. Inv /\ CallsOK => AttemptsAreAccounted
  BY DEF Inv, RowsOK, CallsOK, Attempts, AttemptsAreAccounted
<1> QED BY <1>1, <1>2, CallsStep, InvHolds, PTL DEF Spec

-----------------------------------------------------------------------------
(* Waiting and deadlock, for any number of workers and any batches.         *)

\* Sessions that all wait, and for nobody but each other, have a member Postgres
\* finds in a deadlock: the smallest set of this kind is one, since a member none
\* of the others waits for could be left out.
LEMMA WaitersDeadlock ==
  ASSUME NEW S \in SUBSET Clients, S # {}, \A c \in S : Waits(c),
         \A c \in S, d \in Clients : WaitsFor(c, d) => d \in S
  PROVE  \E c \in S : Deadlocked(c)
<1> DEFINE Closed(T) == \A c \in T, d \in Clients : WaitsFor(c, d) => d \in T
           Sets == {T \in SUBSET Clients : T # {} /\ T \subseteq S /\ Closed(T)}
<1>1. PICK M \in Sets : \A T \in Sets : <<T, M>> \notin StrictSubsetOrdering(Clients)
  <2>1. S \in Sets
    OBVIOUS
  <2>2. Sets \subseteq SUBSET Clients /\ Sets # {}
    BY <2>1
  <2>3. IsWellFoundedOn(StrictSubsetOrdering(Clients), SUBSET Clients)
    BY ClientsAssumption, FS_StrictSubsetOrderingWellFounded, FS_FiniteSubsetsOfFinite
  <2> HIDE DEF Sets
  <2> QED BY <2>2, <2>3, WFMin
<1>2. M \subseteq S /\ M # {} /\ Closed(M)
  OBVIOUS
<1>3. \A c \in M : \E d \in M : WaitsFor(c, d)
  BY <1>2 DEF Waits
<1>4. ASSUME NEW d \in M PROVE \E c \in M : WaitsFor(c, d)
  <2> SUFFICES ASSUME \A c \in M : ~WaitsFor(c, d) PROVE FALSE
    OBVIOUS
  <2> DEFINE T == M \ {d}
  <2>1. T # {}
    BY <1>3
  <2>2. Closed(T)
    BY <1>2
  <2>3. T \in Sets
    BY <1>2, <2>1, <2>2
  <2>4. <<T, M>> \in StrictSubsetOrdering(Clients)
    BY DEF StrictSubsetOrdering
  <2> QED BY <1>1, <2>3, <2>4
<1>5. \A c \in M : Deadlocked(c)
  BY <1>2, <1>3, <1>4 DEF Deadlocked
<1> QED BY <1>2, <1>5

\* In the middle of an iteration nothing is left to flush: the originals of the
\* rows a worker has marked are pinned already.
Flushed == \A w \in Workers : pc[w] \in {"query", "classify"} => Originals(w) \subseteq keyShare[w]

\* A worker that waits is at a flush or at its commit: what it has pinned nobody
\* holds, and without a transaction it has marked nothing.
LEMMA WaitingAtFlush ==
  ASSUME Inv, Flushed, NEW w \in Workers, Waits(w)
  PROVE  pc[w] \in {"flush", "commit"}
<1>1. PICK d \in Clients : WaitsFor(w, d)
  BY DEF Waits
<1>2. PICK e \in Originals(w) : e \in Locked(d)
  BY <1>1 DEF WaitsFor
<1>3. w \in Clients /\ d # w /\ w # d
  BY <1>1, WorkersAssumption DEF WaitsFor
<1>4. e \notin keyShare[w]
  BY <1>2, <1>3 DEF Inv, LocksExclude
<1>5. pc[w] \notin {"query", "classify"}
  BY <1>2, <1>4 DEF Flushed
<1>6. Locked(w) # {}
  BY <1>2 DEF Originals
<1> QED BY <1>5, <1>6 DEF Inv, WorkerOK, Pending, TypeOK, ProcessorTypeOK, Pc

\* Among those a blocked run waits for is one that goes on, as long as nobody but
\* workers waits.
LEMMA SomebodyGoesOn ==
  ASSUME Inv, Flushed, \A c \in Clients \ Workers : ~Waits(c),
         NEW S \in SUBSET Clients, Blocked(S)
  PROVE  \E c \in S : Locked(c) # {} /\ (c \in Workers => GoesOn(c))
<1> SUFFICES ASSUME \A c \in S : Locked(c) # {} => c \in Workers /\ ~GoesOn(c)
             PROVE  FALSE
  OBVIOUS
<1> DEFINE W == {c \in S : Waits(c)}
<1>1. \A c \in W, d \in Clients : WaitsFor(c, d) => d \in W
  <2> SUFFICES ASSUME NEW c \in W, NEW d \in Clients, WaitsFor(c, d)
               PROVE  d \in S /\ Waits(d)
    OBVIOUS
  <2>1. Locked(d) # {} /\ d \in S
    BY DEF WaitsFor, Blocked
  <2>2. d \in Workers /\ pc[d] # "idle"
    BY <2>1 DEF Inv, WorkerOK, Pending
  <2> QED BY <2>1, <2>2 DEF GoesOn
<1>2. PICK c \in W : Deadlocked(c)
  <2>1. W \in SUBSET Clients /\ W # {} /\ \A c \in W : Waits(c)
    BY DEF Blocked
  <2> HIDE DEF W
  <2> QED BY <1>1, <2>1, WaitersDeadlock
<1>3. c \in Workers /\ Locked(c) # {}
  BY DEF Waits, WaitsFor, Originals
<1>4. pc[c] \in {"flush", "commit"}
  BY <1>3, WaitingAtFlush
<1> QED BY <1>2, <1>3, <1>4 DEF GoesOn

\* A step of a worker leaves the locks of all other sessions alone.
LEMMA OthersKeepLocks ==
  ASSUME Inv, NEW w \in Workers, Worker(w) \/ DedupFails(w) \/ Crash(w)
  PROVE  /\ \A c \in Clients \ {w} : session'[c] = session[c] /\ keyShare'[c] = keyShare[c]
         /\ \A v \in Workers \ {w} : pc'[v] = pc[v]
<1> USE DEF Goto
<1>1. /\ session \in [Clients -> {session[c] : c \in Clients}]
      /\ keyShare \in [Clients -> SUBSET Events] /\ pc \in [Workers -> Pc]
  BY DEF Inv, TypeOK, DbTypeOK, ProcessorTypeOK
<1>2. CASE Fetch(w)
  BY <1>1, <1>2 DEF Fetch, Lock
<1>3. CASE Autoflush(w)
  BY <1>1, <1>3 DEF Autoflush, FlushRows
<1>4. CASE MarkDuplicate(w)
  BY <1>1, <1>4 DEF MarkDuplicate, NextIteration, Assign
<1>5. CASE NoDuplicate(w)
  BY <1>1, <1>5 DEF NoDuplicate, dbVars
<1>6. CASE Classify(w)
  BY <1>1, <1>6 DEF Classify, NextIteration, Assign
<1>7. CASE Commit(w)
  BY <1>1, <1>7 DEF Commit, CommitRows, CloseSession
<1>8. CASE ClassifyOpen(w)
  BY <1>1, <1>8 DEF ClassifyOpen, dbVars
<1>9. CASE EndAborted(w) \/ DeadlockVictim(w) \/ Crash(w)
  BY <1>1, <1>9 DEF EndAborted, DeadlockVictim, Crash, EndRun, Rollback, CloseSession
<1>10. CASE DedupFails(w)
  BY <1>1, <1>10 DEF DedupFails, Rollback, CloseSession
<1> QED
  BY <1>2, <1>3, <1>4, <1>5, <1>6, <1>7, <1>8, <1>9, <1>10 DEF Worker

\* A worker reaches the duplicate check through a flush, and the LLM from there.
LEMMA FlushedBefore ==
  ASSUME Inv, Flushed, NEW w \in Workers, Worker(w) \/ DedupFails(w) \/ Crash(w),
         pc'[w] \in {"query", "classify"}
  PROVE  Originals(w)' \subseteq keyShare'[w]
<1>1. w \in Clients /\ keyShare \in [Clients -> SUBSET Events] /\ pc \in [Workers -> Pc]
  BY WorkersAssumption DEF Inv, TypeOK, DbTypeOK, ProcessorTypeOK
<1>2. Autoflush(w) \/ NoDuplicate(w)
  BY <1>1 DEF Worker, DedupFails, Crash, Fetch, MarkDuplicate, NextIteration, Classify,
              Commit, ClassifyOpen, EndAborted, DeadlockVictim, EndRun, Goto
<1>3. CASE Autoflush(w)
  <2>1. session' = session /\ keyShare'[w] = keyShare[w] \cup Originals(w)
    BY <1>1, <1>3 DEF Autoflush, FlushRows
  <2> QED BY <2>1 DEF Originals, Locked
<1>4. CASE NoDuplicate(w)
  <2>1. session' = session /\ keyShare' = keyShare /\ pc[w] = "query"
    BY <1>4 DEF NoDuplicate, dbVars
  <2> QED BY <2>1 DEF Originals, Locked, Flushed
<1> QED BY <1>2, <1>3, <1>4

LEMMA WorkerKeepsFlushed ==
  ASSUME Inv, Flushed, NEW w \in Workers, Worker(w) \/ DedupFails(w) \/ Crash(w)
  PROVE  Flushed'
<1> SUFFICES ASSUME NEW v \in Workers, pc'[v] \in {"query", "classify"}
             PROVE  Originals(v)' \subseteq keyShare'[v]
  BY DEF Flushed
<1>1. CASE v = w
  BY <1>1, FlushedBefore
<1>2. CASE v # w
  <2>1. session'[v] = session[v] /\ keyShare'[v] = keyShare[v] /\ pc'[v] = pc[v]
    BY <1>2, OthersKeepLocks, WorkersAssumption
  <2> QED BY <2>1 DEF Flushed, Originals, Locked
<1> QED BY <1>1, <1>2

LEMMA OutsideKeepsFlushed ==
  ASSUME Flushed, pc' = pc,
         \A w \in Workers : session'[w] = session[w] /\ keyShare'[w] = keyShare[w]
  PROVE  Flushed'
BY DEF Flushed, Originals, Locked

LEMMA FlushedStep == ASSUME Inv, Flushed, [Next]_vars PROVE Flushed'
<1>1. CASE Environment \/ UNCHANGED vars
  <2>1. session' = session /\ keyShare' = keyShare /\ pc' = pc
    BY <1>1 DEF Environment, Insert, AdvanceClock, RequeueFailed, vars, dbVars,
                processorVars, workerVars
  <2> QED BY <2>1, OutsideKeepsFlushed
<1> QED BY <1>1, WorkerKeepsFlushed DEF Next

\* Nobody but the workers holds rows.
OnlyWorkersLock == \A c \in Clients \ Workers : Locked(c) = {}

LEMMA OnlyWorkersLockStep == ASSUME Inv, OnlyWorkersLock, [Next]_vars PROVE OnlyWorkersLock'
<1>1. ASSUME NEW w \in Workers, Worker(w) \/ DedupFails(w) \/ Crash(w) PROVE OnlyWorkersLock'
  BY <1>1, OthersKeepLocks DEF OnlyWorkersLock, Locked
<1>2. CASE Environment \/ UNCHANGED vars
  BY <1>2 DEF Environment, Insert, AdvanceClock, RequeueFailed, vars, dbVars,
              OnlyWorkersLock, Locked
<1> QED BY <1>1, <1>2 DEF Next

\* However many workers contend for the rows, whoever a blocked run waits for, some
\* run among them goes on or is the one Postgres aborts: SKIP LOCKED, the foreign
\* key and sessions that are always closed leave no other way to stand still.
THEOREM BlockedRunsGetReleased == Spec => []BlockedRunsAreReleased
<1>1. Init => Flushed /\ OnlyWorkersLock
  BY DEF Init, DbInit, ProcessorInit, Flushed, OnlyWorkersLock, Locked, NoRows
<1>2. ASSUME Inv, Flushed, OnlyWorkersLock PROVE BlockedRunsAreReleased
  <2>1. \A c \in Clients \ Workers : ~Waits(c)
    BY <1>2 DEF OnlyWorkersLock, Waits, WaitsFor, Originals
  <2> QED BY <1>2, <2>1, SomebodyGoesOn DEF OnlyWorkersLock, BlockedRunsAreReleased
<1> QED
  BY <1>1, <1>2, FlushedStep, OnlyWorkersLockStep, InvHolds, PTL DEF Spec
=============================================================================
