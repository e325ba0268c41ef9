--------------------------- MODULE DuplicateProofs ---------------------------
(***************************************************************************)
(* What the duplicate check guarantees about the references duplicate_of:  *)
(* no two events mark each other with any number of workers; with a single *)
(* one the references always lead to an event that is no duplicate.        *)
(***************************************************************************)
EXTENDS ProcessorProofs

-----------------------------------------------------------------------------
(* No mutual duplicates.  The invariant is about uncommitted marks: a mark  *)
(* is never answered by one its session can see.  It survives the commit of *)
(* another session because that session would have to wait for the row.     *)

Unanswered(w) ==
  \A e \in Locked(w) : LET c == session[w][e].dup
                       IN c # None => Visible(w)[c].dup # e

DupInv == Inv /\ NoMutualDuplicates /\ \A w \in Workers : Unanswered(w)

LEMMA UnansweredOf ==
  ASSUME Inv, NEW w \in Workers
  PROVE  Unanswered(w) <=>
           \A e, c \in Events : e \in Locked(w) /\ session[w][e].dup = c =>
             /\ c \in Locked(w) => session[w][c].dup # e
             /\ c \notin Locked(w) => row[c].dup # e
<1>1. Locked(w) \subseteq Events /\ session[w] \in [Locked(w) -> Row]
  BY WorkersAssumption DEF Inv, TypeOK, DbTypeOK
<1>2. \A e \in Locked(w) : session[w][e].dup \in Events \cup {None}
  BY <1>1 DEF Row
<1>3. \A c \in Events : Visible(w)[c] = IF c \in Locked(w) THEN session[w][c] ELSE row[c]
  BY DEF Visible
<1>4. None \notin Events
  BY NoneAssumption
<1> QED BY <1>1, <1>2, <1>3, <1>4 DEF Unanswered

\* A step that writes neither this session nor the table keeps its marks unanswered.
LEMMA UnansweredFrame ==
  ASSUME Inv, NEW v \in Workers, Unanswered(v), session'[v] = session[v], row' = row
  PROVE  Unanswered(v)'
BY DEF Unanswered, Visible, Locked

LEMMA EmptyUnanswered ==
  ASSUME NEW w \in Workers, Locked(w)' = {}
  PROVE  Unanswered(w)'
BY DEF Unanswered

\* The mark of a row which is no duplicate itself: nothing points back at it,
\* neither what the session sees nor another mark of the session.
LEMMA MarkUnanswered ==
  ASSUME DupInv, Inv', NEW w \in Workers, MarkDuplicate(w)
  PROVE  Unanswered(w)'
<1> DEFINE e == Current(w)
<1>1. PICK c \in Duplicates(w, e) :
        Assign(w, e, [session[w][e] EXCEPT !.status = "duplicate", !.dup = c])
  BY DEF MarkDuplicate
<1> DEFINE m == [session[w][e] EXCEPT !.status = "duplicate", !.dup = c]
<1>2. /\ e \in Locked(w) /\ e \in Events /\ session[w][e] \in Row
      /\ session[w][e].dup = None /\ session[w][e].status = "new"
  BY CurrentHeld DEF MarkDuplicate, DupInv
<1>3. c \in Events /\ c # e /\ Visible(w)[c].status \in {"new", "processed", "sent"}
  BY DEF Duplicates
<1>4. m \in Row /\ m.dup = c
  BY <1>2, <1>3 DEF Row, Status
<1>5. w \in Clients /\ DbTypeOK /\ Locked(w) \subseteq Events
      /\ session[w] \in [Locked(w) -> Row]
  BY WorkersAssumption DEF DupInv, Inv, TypeOK, DbTypeOK
<1> HIDE DEF e, m
<1>6. /\ session'[w] = [session[w] EXCEPT ![e] = m]
      /\ Locked(w)' = Locked(w) /\ row' = row
  BY <1>1, <1>2, <1>4, <1>5, AssignEffect DEF m
<1>7. /\ c \in Locked(w) => session[w][c].dup = None
      /\ c \notin Locked(w) => row[c].dup = None
  <2>1. CASE c \in Locked(w)
    <3>1. WellMarked(session[w][c]) /\ session[w][c].status # "duplicate"
      BY <1>3, <2>1 DEF DupInv, Inv, WorkerOK, Settles, Visible
    <3> QED BY <2>1, <3>1 DEF WellMarked
  <2>2. CASE c \notin Locked(w)
    <3>1. WellMarked(row[c]) /\ row[c].status # "duplicate"
      BY <1>3, <2>2 DEF DupInv, Inv, RowsOK, Visible
    <3> QED BY <2>2, <3>1 DEF WellMarked
  <2> QED BY <2>1, <2>2
<1>8. ASSUME NEW f \in Events, NEW d \in Events, f \in Locked(w)', session'[w][f].dup = d
      PROVE  /\ d \in Locked(w)' => session'[w][d].dup # f
             /\ d \notin Locked(w)' => row'[d].dup # f
  <2>1. /\ session'[w][e] = m
        /\ \A g \in Locked(w) \ {e} : session'[w][g] = session[w][g]
    BY <1>2, <1>5, <1>6
  <2>2. None \notin Events
    BY NoneAssumption
  <2>3. CASE f = e
    <3>1. d = c
      BY <1>4, <1>8, <2>1, <2>3
    <3> QED BY <1>3, <1>6, <1>7, <2>1, <2>2, <2>3, <3>1
  <2>4. CASE f # e
    <3>1. session[w][f].dup = d /\ f \in Locked(w)
      BY <1>6, <1>8, <2>1, <2>4
    <3>2. /\ d \in Locked(w) => session[w][d].dup # f
          /\ d \notin Locked(w) => row[d].dup # f
      BY <3>1, UnansweredOf DEF DupInv
    <3>3. CASE d = e
      \* f is already marked a duplicate, so e is not marked a duplicate of f.
      <4>1. f # c
        BY <1>7, <2>2, <3>1
      <4> QED BY <1>2, <1>4, <1>6, <2>1, <3>3, <4>1
    <3>4. CASE d # e
      BY <1>6, <2>1, <3>2, <3>4
    <3> QED BY <3>3, <3>4
  <2> QED BY <2>3, <2>4
<1>9. Unanswered(w)' <=>
           \A f, d \in Events : f \in Locked(w)' /\ session'[w][f].dup = d =>
             /\ d \in Locked(w)' => session'[w][d].dup # f
             /\ d \notin Locked(w)' => row'[d].dup # f
  <2>1. Locked(w)' \subseteq Events /\ session'[w] \in [Locked(w)' -> Row]
    BY <1>5 DEF Inv, TypeOK, DbTypeOK
  <2>2. \A f \in Locked(w)' : session'[w][f].dup \in Events \cup {None}
    BY <2>1 DEF Row
  <2>3. \A d \in Events : Visible(w)'[d] = IF d \in Locked(w)' THEN session'[w][d] ELSE row'[d]
    BY DEF Visible
  <2> QED BY <2>1, <2>2, <2>3, NoneAssumption DEF Unanswered
<1> QED BY <1>8, <1>9

\* Freshly fetched rows carry no mark.
LEMMA FetchUnanswered ==
  ASSUME Inv, NEW w \in Workers, Fetch(w)
  PROVE  Unanswered(w)'
<1> DEFINE avail == {e \in Free(w) : row[e].status = "new"}
<1>1. PICK S \in (SUBSET avail) \ {{}} : Lock(w, S)
  BY DEF Fetch
<1>2. S \in SUBSET Free(w) /\ \A e \in S : e \in Events /\ row[e].status = "new"
  BY <1>1 DEF Free
<1>3. Locked(w)' = S /\ \A e \in S : session'[w][e] = row[e]
  BY <1>1, <1>2, LockEffect, WorkersAssumption DEF Inv, TypeOK
<1>4. \A e \in S : row[e].dup = None
  BY <1>2 DEF Inv, RowsOK, WellMarked
<1> QED BY <1>3, <1>4 DEF Unanswered

\* A classification marks nothing.
LEMMA ClassifyUnanswered ==
  ASSUME DupInv, Inv', NEW w \in Workers, Classify(w)
  PROVE  Unanswered(w)'
<1> DEFINE e == Current(w)
<1>1. PICK v \in Outcomes(e, session[w][e]) : Assign(w, e, v)
  BY DEF Classify
<1>2. /\ e \in Locked(w) /\ e \in Events /\ session[w][e] \in Row
      /\ session[w][e].status = "new" /\ session[w][e].dup = None
      /\ WellMarked(session[w][e]) /\ Attempts(session[w][e])
  BY CurrentHeld DEF Classify, DupInv, WellMarked
<1>3. v \in Row /\ v.dup = None
  BY <1>1, <1>2, OutcomeOK
<1>4. w \in Clients /\ DbTypeOK /\ session[w] \in [Locked(w) -> Row] /\ Locked(w) \subseteq Events
  BY WorkersAssumption DEF DupInv, Inv, TypeOK, DbTypeOK
<1> HIDE DEF e
<1>5. /\ session'[w] = [session[w] EXCEPT ![e] = v]
      /\ Locked(w)' = Locked(w) /\ row' = row
  BY <1>1, <1>2, <1>3, <1>4, AssignEffect
<1>6. ASSUME NEW f \in Locked(w)', session'[w][f].dup # None
      PROVE  Visible(w)'[session'[w][f].dup].dup # f
  <2> DEFINE d == session'[w][f].dup
  <2>1. f # e /\ session'[w][f] = session[w][f]
    BY <1>2, <1>3, <1>4, <1>5, <1>6
  <2>2. d \in Events /\ Visible(w)[d].dup # f
    BY <1>4, <1>5, <1>6, <2>1 DEF DupInv, Unanswered, Row
  <2>3. CASE d = e
    BY <1>2, <1>3, <1>4, <1>5, <1>6, <2>1, <2>2, <2>3, NoneAssumption DEF Visible
  <2>4. CASE d # e
    BY <1>4, <1>5, <2>2, <2>4 DEF Visible
  <2> QED BY <2>3, <2>4
<1> QED BY <1>6 DEF Unanswered

\* A session that commits a mark had to wait until nobody held the row it points
\* at: so it answers no uncommitted mark of another session.
LEMMA CommitUnanswered ==
  ASSUME DupInv, NEW w \in Workers, Commit(w), NEW v \in Workers
  PROVE  Unanswered(v)'
<1>1. w \in Clients /\ v \in Clients /\ DbTypeOK /\ LocksExclude
  BY WorkersAssumption DEF DupInv, Inv, TypeOK
<1>2. /\ Locked(w)' = {}
      /\ \A d \in Clients \ {w} : session'[d] = session[d]
      /\ \A e \in Locked(w) : row'[e] = session[w][e]
      /\ \A e \in Events \ Locked(w) : row'[e] = row[e]
      /\ \A d \in Clients \ {w} : Originals(w) \cap Locked(d) = {}
  BY <1>1, CommitEffect DEF Commit
<1>3. CASE v = w
  BY <1>2, <1>3, EmptyUnanswered
<1>4. CASE v # w
  <2>1. session'[v] = session[v] /\ Locked(v)' = Locked(v)
    BY <1>1, <1>2, <1>4 DEF Locked
  <2>2. ASSUME NEW e \in Locked(v), session[v][e].dup # None
        PROVE  Visible(v)'[session[v][e].dup].dup # e
    <3> DEFINE c == session[v][e].dup
    <3>1. c \in Events /\ e \in Events /\ Visible(v)[c].dup # e
      BY <1>1, <2>2 DEF DupInv, Unanswered, DbTypeOK, Row
    <3>2. CASE c \in Locked(v)
      BY <2>1, <3>1, <3>2 DEF Visible
    <3>3. CASE c \notin Locked(v) /\ c \notin Locked(w)
      BY <1>2, <2>1, <3>1, <3>3 DEF Visible
    <3>4. CASE c \notin Locked(v) /\ c \in Locked(w)
      <4>1. Visible(v)'[c] = session[w][c]
        BY <1>2, <2>1, <3>1, <3>4 DEF Visible
      <4>2. e \notin Locked(w)
        BY <1>1, <1>4 DEF LocksExclude
      <4>3. session[w][c].dup # e
        BY <1>1, <1>2, <1>4, <3>1, <3>4, <4>2, NoneAssumption DEF Originals
      <4> QED BY <4>1, <4>3
    <3> QED BY <3>2, <3>3, <3>4
  <2> QED BY <2>1, <2>2 DEF Unanswered
<1> QED BY <1>3, <1>4

LEMMA CommitNoMutual ==
  ASSUME DupInv, NEW w \in Workers, Commit(w)
  PROVE  NoMutualDuplicates'
<1>1. w \in Clients /\ DbTypeOK
  BY WorkersAssumption DEF DupInv, Inv, TypeOK
<1>2. /\ \A e \in Locked(w) : row'[e] = session[w][e]
      /\ \A e \in Events \ Locked(w) : row'[e] = row[e]
      /\ \A e \in Events : row'[e] = Visible(w)[e]
  BY <1>1, CommitEffect DEF Commit, CommitRows
<1>3. NoMutualDuplicates /\ \A e \in Locked(w) :
        session[w][e].dup # None => Visible(w)[session[w][e].dup].dup # e
  BY DEF DupInv, Unanswered
<1>4. ASSUME NEW e \in Events, NEW f \in Events, row'[e].dup = f, row'[f].dup = e
      PROVE  FALSE
  <2>1. e # None /\ f # None
    BY NoneAssumption
  <2>2. CASE e \in Locked(w)
    <3>1. session[w][e].dup = f
      BY <1>2, <1>4, <2>2
    <3> QED BY <1>2, <1>3, <1>4, <2>1, <2>2, <3>1
  <2>3. CASE f \in Locked(w)
    <3>1. session[w][f].dup = e
      BY <1>2, <1>4, <2>3
    <3> QED BY <1>2, <1>3, <1>4, <2>1, <2>3, <3>1
  <2>4. CASE e \notin Locked(w) /\ f \notin Locked(w)
    BY <1>2, <1>3, <1>4, <2>4 DEF NoMutualDuplicates
  <2> QED BY <2>2, <2>3, <2>4
<1> QED BY <1>4 DEF NoMutualDuplicates

LEMMA InitDupInv == Init => DupInv
<1> SUFFICES ASSUME Init PROVE DupInv
  OBVIOUS
<1>1. Inv
  BY InitInv
<1>2. NoMutualDuplicates
  BY NoneAssumption DEF Init, DbInit, FreshRow, NoMutualDuplicates
<1>3. \A w \in Workers : Unanswered(w)
  BY WorkersAssumption DEF Init, DbInit, NoRows, Locked, Unanswered
<1> QED BY <1>1, <1>2, <1>3 DEF DupInv

\* An arrival or a requeue marks nothing, and touches no held row.
LEMMA OutsideDupInv ==
  ASSUME DupInv, \A w \in Workers : session'[w] = session[w],
         row' \in [Events -> Row], \A e \in Events : row'[e].dup = row[e].dup
  PROVE  NoMutualDuplicates' /\ \A w \in Workers : Unanswered(w)'
<1>1. NoMutualDuplicates'
  BY DEF DupInv, NoMutualDuplicates
<1>2. ASSUME NEW w \in Workers PROVE Unanswered(w)'
  <2>1. Locked(w)' = Locked(w) /\ Locked(w) \subseteq Events
        /\ session[w] \in [Locked(w) -> Row]
    BY WorkersAssumption DEF DupInv, Inv, TypeOK, DbTypeOK, Locked
  <2>2. \A c \in Events : Visible(w)'[c].dup = Visible(w)[c].dup
    BY <2>1 DEF Visible
  <2>3. \A e \in Locked(w) : session[w][e].dup # None => session[w][e].dup \in Events
    BY <2>1 DEF Row
  <2>4. Unanswered(w)
    BY DEF DupInv
  <2> QED BY <2>1, <2>2, <2>3, <2>4 DEF Unanswered
<1> QED BY <1>1, <1>2

\* What a worker commits marks no pair, and its own marks stay unanswered.
LEMMA WorkerDupInv ==
  ASSUME DupInv, Inv', NEW w \in Workers, Worker(w) \/ DedupFails(w) \/ Crash(w)
  PROVE  DupInv'
<1> USE DEF DupInv
<1>1. CASE Commit(w)
  BY <1>1, CommitNoMutual, CommitUnanswered
<1>2. CASE ~ Commit(w)
  <2>1. row' = row
    BY <1>2 DEF Worker, Fetch, Autoflush, MarkDuplicate, NoDuplicate, Classify,
       ClassifyOpen, EndAborted, DeadlockVictim, DedupFails, Crash, EndRun, Rollback, Lock,
       FlushRows, Assign, dbVars
  <2>2. NoMutualDuplicates'
    BY <2>1 DEF DupInv, NoMutualDuplicates
  <2>3. \A v \in Workers \ {w} : session'[v] = session[v]
    <3>1. DbTypeOK /\ Workers \subseteq Clients
      BY WorkersAssumption DEF DupInv, Inv, TypeOK
    <3> QED
      BY <1>2, <3>1 DEF Worker, Fetch, Autoflush, MarkDuplicate, NoDuplicate, Classify,
         ClassifyOpen, EndAborted, DeadlockVictim, DedupFails, Crash, EndRun, Rollback, Lock,
         FlushRows, Assign, CloseSession, dbVars, DbTypeOK
  <2>4. ASSUME NEW v \in Workers, v # w PROVE Unanswered(v)'
    BY <2>1, <2>3, <2>4, UnansweredFrame DEF DupInv
  <2>5. Unanswered(w)'
    <3>1. CASE Fetch(w)
      BY <3>1, FetchUnanswered
    <3>2. CASE MarkDuplicate(w)
      BY <3>2, MarkUnanswered
    <3>3. CASE Classify(w)
      BY <3>3, ClassifyUnanswered
    <3>4. CASE Autoflush(w) \/ NoDuplicate(w) \/ ClassifyOpen(w)
      <4>1. session' = session
        BY <3>4 DEF Autoflush, FlushRows, NoDuplicate, ClassifyOpen, dbVars
      <4> QED BY <2>1, <4>1, UnansweredFrame DEF DupInv
    <3>5. CASE EndAborted(w) \/ DeadlockVictim(w) \/ DedupFails(w) \/ Crash(w)
      <4>1. Rollback(w) /\ w \in Clients /\ DbTypeOK
        BY <3>5, WorkersAssumption DEF EndAborted, DeadlockVictim, DedupFails, Crash, EndRun,
           DupInv, Inv, TypeOK
      <4> QED BY <4>1, RollbackEffect, EmptyUnanswered
    <3> QED BY <1>2, <3>1, <3>2, <3>3, <3>4, <3>5 DEF Worker
  <2> QED BY <2>2, <2>4, <2>5
<1> QED BY <1>1, <1>2

\* Arrivals and requeues mark nothing.
LEMMA SurroundingsKeepMarks ==
  ASSUME Inv, Inv',
         (\E e \in Events : Insert(e)) \/ RequeueFailed \/ AdvanceClock(MaxNow) \/ UNCHANGED dbVars
  PROVE  session' = session /\ \A e \in Events : row'[e].dup = row[e].dup
<1>1. row \in [Events -> Row] /\ row' \in [Events -> Row]
  BY DEF Inv, TypeOK, DbTypeOK
<1>2. CASE \E x \in Events : Insert(x)
  <2>1. PICK x \in Events : Insert(x)
    BY <1>2
  <2>2. row[x].dup = None
    BY <2>1 DEF Inv, RowsOK, WellMarked, Insert
  <2> QED BY <1>1, <2>1, <2>2 DEF Insert, FreshRow
<1>3. CASE RequeueFailed
  <2>1. \A e \in Events : row[e] \in Row
    BY <1>1
  <2> QED BY <1>3, <2>1 DEF RequeueFailed, Row
<1>4. CASE AdvanceClock(MaxNow) \/ UNCHANGED dbVars
  BY <1>4 DEF AdvanceClock, dbVars
<1> QED BY <1>2, <1>3, <1>4

LEMMA DupNext == DupInv /\ [Next]_vars => DupInv'
<1> SUFFICES ASSUME DupInv, [Next]_vars PROVE DupInv'
  OBVIOUS
<1>1. Inv /\ Inv'
  BY NextInv DEF DupInv
<1>2. CASE Environment \/ UNCHANGED vars
  <2>1. row' \in [Events -> Row]
    BY <1>1 DEF Inv, TypeOK, DbTypeOK
  <2>2. session' = session /\ \A e \in Events : row'[e].dup = row[e].dup
    BY <1>1, <1>2, SurroundingsKeepMarks DEF Environment, vars
  <2> QED BY <1>1, <2>1, <2>2, OutsideDupInv DEF DupInv
<1> QED BY <1>1, <1>2, WorkerDupInv DEF Next

\* With any number of workers, no two events are each the duplicate of the other.
THEOREM NeverMutual == Spec => []NoMutualDuplicates
<1>1. Init => DupInv
  BY InitDupInv
<1>2. DupInv /\ [Next]_vars => DupInv'
  BY DupNext
<1>3. DupInv => NoMutualDuplicates
  BY DEF DupInv
<1> QED BY <1>1, <1>2, <1>3, PTL DEF Spec

-----------------------------------------------------------------------------
(* A single worker.  What its session sees is the table that its commit     *)
(* will leave, so that its marks never close a circle.                      *)

Marked(r) == {e \in Events : r[e].status = "duplicate"}

LeadsOut(r) == \A S \in SUBSET Marked(r) : S # {} => \E e \in S : r[e].dup \notin S

SingleInv == Inv /\ LeadsOut(row) /\ \A w \in Workers : LeadsOut(Visible(w))

LEMMA SameMarks ==
  ASSUME NEW r, NEW s, LeadsOut(r), Marked(s) = Marked(r),
         \A e \in Marked(r) : s[e].dup = r[e].dup
  PROVE  LeadsOut(s)
BY DEF LeadsOut

\* Marking a row the duplicate of another one that is none opens no circle.
LEMMA OneMoreMark ==
  ASSUME NEW r, NEW s, LeadsOut(r), NEW e \in Events, NEW c \in Events,
         c # e, c \notin Marked(r), Marked(s) \subseteq Marked(r) \cup {e}, s[e].dup = c,
         \A f \in Marked(r) \ {e} : s[f].dup = r[f].dup
  PROVE  LeadsOut(s)
<1> SUFFICES ASSUME NEW S \in SUBSET Marked(s), S # {}
             PROVE  \E f \in S : s[f].dup \notin S
  BY DEF LeadsOut
<1>1. c \notin S
  OBVIOUS
<1>2. CASE e \in S
  BY <1>1, <1>2
<1>3. CASE e \notin S
  <2>1. S \in SUBSET Marked(r)
    BY <1>3
  <2>2. PICK f \in S : r[f].dup \notin S
    BY <2>1 DEF LeadsOut
  <2> QED BY <1>3, <2>1, <2>2
<1> QED BY <1>2, <1>3

\* Of a step that commits nothing only the session's view is left to check.
LEMMA ViewLeadsOut ==
  ASSUME SingleInv, NEW w \in Workers, Worker(w) \/ DedupFails(w) \/ Crash(w), ~ Commit(w)
  PROVE  row' = row /\ LeadsOut(Visible(w)')
<1>1. row' = row
  BY DEF Worker, Fetch, Autoflush, MarkDuplicate, NoDuplicate, Classify,
     ClassifyOpen, EndAborted, DeadlockVictim, DedupFails, Crash, EndRun, Rollback, Lock,
     FlushRows, Assign, dbVars
<1>2. w \in Clients /\ DbTypeOK /\ LocksExclude /\ Inv
  BY WorkersAssumption DEF SingleInv, Inv, TypeOK
<1>3. Locked(w) \subseteq Events /\ session[w] \in [Locked(w) -> Row]
      /\ row \in [Events -> Row]
  BY <1>2 DEF DbTypeOK
<1>4. CASE Fetch(w)
  <2> DEFINE avail == {e \in Free(w) : row[e].status = "new"}
  <2>1. PICK S \in (SUBSET avail) \ {{}} : Lock(w, S)
    BY <1>4 DEF Fetch
  <2>2. S \in SUBSET Free(w) /\ S \subseteq Events
    BY <2>1 DEF Free
  <2>3. Locked(w)' = S /\ \A e \in S : session'[w][e] = row[e]
    BY <1>2, <2>1, <2>2, LockEffect
  <2>4. Visible(w)' = row
    BY <1>1, <1>3, <2>2, <2>3 DEF Visible
  <2> QED BY <1>1, <2>4 DEF SingleInv
<1>5. CASE MarkDuplicate(w)
  <2> DEFINE e == Current(w)
  <2>1. PICK c \in Duplicates(w, e) :
          Assign(w, e, [session[w][e] EXCEPT !.status = "duplicate", !.dup = c])
    BY <1>5 DEF MarkDuplicate
  <2> DEFINE m == [session[w][e] EXCEPT !.status = "duplicate", !.dup = c]
  <2>2. e \in Locked(w) /\ e \in Events /\ session[w][e] \in Row
    BY <1>2, <1>5, CurrentHeld DEF MarkDuplicate
  <2>3. c \in Events /\ c # e /\ c \notin Marked(Visible(w))
    BY DEF Duplicates, Marked
  <2>4. m \in Row /\ m.dup = c
    BY <2>2, <2>3 DEF Row, Status
  <2> HIDE DEF e, m
  <2>5. session'[w] = [session[w] EXCEPT ![e] = m] /\ Locked(w)' = Locked(w)
    BY <1>2, <2>1, <2>2, <2>4, AssignEffect DEF m
  <2>6. /\ Visible(w)'[e] = m
        /\ \A f \in Events \ {e} : Visible(w)'[f] = Visible(w)[f]
    BY <1>1, <1>3, <2>2, <2>5 DEF Visible
  <2>7. /\ Marked(Visible(w)') \subseteq Marked(Visible(w)) \cup {e}
        /\ \A f \in Marked(Visible(w)) \ {e} : Visible(w)'[f].dup = Visible(w)[f].dup
    BY <2>6 DEF Marked
  <2> QED BY <1>1, <2>2, <2>3, <2>4, <2>6, <2>7, OneMoreMark DEF SingleInv
<1>6. CASE Classify(w)
  <2> DEFINE e == Current(w)
  <2>1. PICK v \in Outcomes(e, session[w][e]) : Assign(w, e, v)
    BY <1>6 DEF Classify
  <2>2. /\ e \in Locked(w) /\ e \in Events /\ session[w][e] \in Row
        /\ session[w][e].status = "new"
        /\ WellMarked(session[w][e]) /\ Attempts(session[w][e])
    BY <1>2, <1>6, CurrentHeld DEF Classify, WellMarked
  <2>3. v \in Row /\ v.status # "duplicate"
    BY <2>1, <2>2, OutcomeOK
  <2> HIDE DEF e
  <2>4. session'[w] = [session[w] EXCEPT ![e] = v] /\ Locked(w)' = Locked(w)
    BY <1>2, <2>1, <2>2, <2>3, AssignEffect
  <2>5. /\ Visible(w)'[e] = v /\ Visible(w)[e].status = "new"
        /\ \A f \in Events \ {e} : Visible(w)'[f] = Visible(w)[f]
    BY <1>1, <1>3, <2>2, <2>4 DEF Visible
  <2>6. /\ Marked(Visible(w)') = Marked(Visible(w))
        /\ \A f \in Marked(Visible(w)) : Visible(w)'[f].dup = Visible(w)[f].dup
    BY <2>3, <2>5 DEF Marked
  <2> QED BY <1>1, <2>6, SameMarks DEF SingleInv
<1>7. CASE Autoflush(w) \/ NoDuplicate(w) \/ ClassifyOpen(w)
  <2>1. session' = session
    BY <1>7 DEF Autoflush, FlushRows, NoDuplicate, ClassifyOpen, dbVars
  <2>2. Visible(w)' = Visible(w)
    BY <1>1, <2>1 DEF Visible, Locked
  <2> QED BY <1>1, <2>2 DEF SingleInv
<1>8. CASE EndAborted(w) \/ DeadlockVictim(w) \/ DedupFails(w) \/ Crash(w)
  <2>1. Rollback(w)
    BY <1>8 DEF EndAborted, DeadlockVictim, DedupFails, Crash, EndRun
  <2>2. Locked(w)' = {}
    BY <1>2, <2>1, RollbackEffect
  <2>3. Visible(w)' = row
    BY <1>1, <1>3, <2>2 DEF Visible
  <2> QED BY <1>1, <2>3 DEF SingleInv
<1> QED BY <1>1, <1>4, <1>5, <1>6, <1>7, <1>8 DEF Worker

\* Whatever happens to rows that are no duplicates, the marks still lead out.
LEMMA OthersLeadOut ==
  ASSUME SingleInv, row' \in [Events -> Row], \A w \in Workers : session'[w] = session[w],
         \A e \in Events : \/ row'[e] = row[e]
                           \/ row'[e].status # "duplicate" /\ row[e].status # "duplicate"
  PROVE  LeadsOut(row)' /\ \A w \in Workers : LeadsOut(Visible(w))'
<1>1. row \in [Events -> Row]
  BY DEF SingleInv, Inv, TypeOK, DbTypeOK
<1>2. Marked(row') = Marked(row) /\ \A e \in Marked(row) : row'[e].dup = row[e].dup
  BY DEF Marked
<1>3. LeadsOut(row')
  BY <1>2, SameMarks DEF SingleInv
<1>4. ASSUME NEW w \in Workers PROVE LeadsOut(Visible(w)')
  <2>1. Locked(w)' = Locked(w) /\ session'[w] = session[w]
    BY DEF Locked
  <2>2. \A e \in Events :
          \/ Visible(w)'[e] = Visible(w)[e]
          \/ Visible(w)'[e].status # "duplicate" /\ Visible(w)[e].status # "duplicate"
    BY <1>1, <2>1 DEF Visible
  <2>3. /\ Marked(Visible(w)') = Marked(Visible(w))
        /\ \A e \in Marked(Visible(w)) : Visible(w)'[e].dup = Visible(w)[e].dup
    BY <2>2 DEF Marked
  <2> QED BY <2>3, SameMarks DEF SingleInv
<1> QED BY <1>3, <1>4

\* Arrivals and requeues change neither the marks nor what they point at.
LEMMA OutsideLeadsOut ==
  ASSUME SingleInv, Inv',
         (\E e \in Events : Insert(e)) \/ RequeueFailed \/ AdvanceClock(MaxNow) \/ UNCHANGED dbVars
  PROVE  SingleInv'
<1>1. row \in [Events -> Row] /\ row' \in [Events -> Row]
  BY DEF SingleInv, Inv, TypeOK, DbTypeOK
<1>2. session' = session
  BY DEF Insert, AdvanceClock, RequeueFailed, dbVars
<1>3. \A e \in Events : \/ row'[e] = row[e]
                        \/ row'[e].status # "duplicate" /\ row[e].status # "duplicate"
  <2>1. CASE \E x \in Events : Insert(x)
    BY <1>1, <2>1 DEF Insert, FreshRow
  <2>2. CASE RequeueFailed
    <3>1. \A e \in Events : row[e] \in Row
      BY <1>1
    <3> QED BY <2>2, <3>1 DEF RequeueFailed, Row
  <2>3. CASE AdvanceClock(MaxNow) \/ UNCHANGED dbVars
    BY <2>3 DEF AdvanceClock, dbVars
  <2> QED BY <2>1, <2>2, <2>3
<1> QED BY <1>1, <1>2, <1>3, OthersLeadOut DEF SingleInv

\* The only worker publishes what its session sees.
LEMMA WorkerLeadsOut ==
  ASSUME \A v, w \in Workers : v = w, SingleInv, Inv', NEW w \in Workers,
         Worker(w) \/ DedupFails(w) \/ Crash(w)
  PROVE  SingleInv'
<1>1. CASE ~ Commit(w)
  BY <1>1, ViewLeadsOut DEF SingleInv
<1>2. CASE Commit(w)
  <2>1. row' = Visible(w) /\ Locked(w)' = {} /\ row' \in [Events -> Row]
    BY <1>2, CommitEffect, WorkersAssumption
    DEF Commit, CommitRows, SingleInv, Inv, TypeOK, DbTypeOK
  <2>2. Visible(w)' = row'
    BY <2>1 DEF Visible
  <2> QED BY <2>1, <2>2 DEF SingleInv
<1> QED BY <1>1, <1>2

LEMMA InitSingleInv == Init => SingleInv
<1> SUFFICES ASSUME Init PROVE SingleInv
  OBVIOUS
<1>1. Marked(row) = {}
  BY DEF Init, DbInit, FreshRow, Marked
<1>2. \A w \in Workers : Marked(Visible(w)) = {}
  BY WorkersAssumption DEF Init, DbInit, FreshRow, Marked, Visible, Locked, NoRows
<1> QED BY <1>1, <1>2, InitInv DEF SingleInv, LeadsOut

LEMMA SingleInvLeadsOut == SingleInv => DuplicatesLeadToOriginals
BY DEF SingleInv, LeadsOut, Marked, DuplicatesLeadToOriginals

\* With one worker, the only session writing to the table, from every duplicate
\* duplicate_of leads to an event that is none.
THEOREM SingleWorkerKeepsOriginals ==
  ASSUME \A v, w \in Workers : v = w
  PROVE  Spec => []DuplicatesLeadToOriginals
<1>1. SingleInv /\ [Next]_vars => SingleInv'
  <2> SUFFICES ASSUME SingleInv, [Next]_vars PROVE SingleInv'
    OBVIOUS
  <2>1. Inv'
    BY NextInv DEF SingleInv
  <2>2. ASSUME NEW w \in Workers, Worker(w) \/ DedupFails(w) \/ Crash(w) PROVE SingleInv'
    BY <2>1, <2>2, WorkerLeadsOut
  <2>3. CASE Environment \/ UNCHANGED vars
    BY <2>1, <2>3, OutsideLeadsOut DEF Environment, vars
  <2> QED BY <2>2, <2>3 DEF Next
<1> QED BY <1>1, InitSingleInv, SingleInvLeadsOut, PTL DEF Spec
=============================================================================
