---------------------------- MODULE SecPollerProofs ----------------------------
(***************************************************************************)
(* What the SEC poller may lose, for any filings, pages and faults.        *)
(***************************************************************************)
EXTENDS SecPoller, TLAPS

\* What a run can find and keep.
Wanted(f) == Keep(f) /\ f \notin Malformed

\* The filings of earlier days which match the search.
Due(f) == Wanted(f) /\ day \in DaysListed(f)

\* What a run has not skipped it stores with its commit, or has yet to look at.
RunCovers ==
  /\ phase = "commit" => urls = {}
  /\ phase # "idle" /\ ~ flawed =>
       \A f \in published :
         Due(f) => f \in urls \/ ExternalId[f] \in stored \cup {ExternalId[x] : x \in added}

\* Of the days that list a filing the table does not have, the ones which are over
\* were bad, and today is not good so far.
Pending(f) ==
  \/ ExternalId[f] \in stored
  \/ \A d \in DaysListed(f) :
       /\ d < day => d \in badDays
       /\ d = day => today # "good"

IInv ==
  /\ TypeOK /\ RunCovers /\ AddedRowsAreNew
  /\ \A f \in published : Wanted(f) => Pending(f)

LEMMA FaultType ==
  ASSUME faults \in [FaultKinds -> Nat], NEW k \in FaultKinds, Fault(k)
  PROVE  faults' \in [FaultKinds -> Nat] /\ faults' # faults
BY DEF Fault

\* What the SELECT after the flush does not find is neither committed nor added.
LEMMA StoreNewEffect ==
  ASSUME AddedRowsAreNew, NEW x, StoreNew(x), stored' = stored
  PROVE  /\ AddedRowsAreNew'
         /\ added \subseteq added' /\ added' \subseteq added \cup {x}
         /\ ExternalId[x] \in stored \cup {ExternalId[y] : y \in added'}
<1>1. CASE Existing(x)
  BY <1>1 DEF StoreNew, AddedRowsAreNew, Existing
<1>2. CASE ~ Existing(x)
  <2>1. /\ added' = added \cup {x}
        /\ ExternalId[x] \notin stored
        /\ \A y \in added : ExternalId[y] # ExternalId[x]
    BY <1>2 DEF StoreNew, Existing
  <2> QED BY <2>1 DEF AddedRowsAreNew
<1> QED BY <1>1, <1>2

LEMMA InitIInv == Init => IInv
<1> SUFFICES ASSUME Init PROVE IInv
  OBVIOUS
<1>1. PollingTypeOK /\ RunCovers /\ AddedRowsAreNew
  BY DEF Init, PollingTypeOK, RunCovers, AddedRowsAreNew
<1>2. TypeOK
  <2>1. day \in 0 .. MaxDay /\ badDays \subseteq 0 .. day - 1
    BY FiledAssumption DEF Init
  <2>2. cursor \in Int \cup {None} /\ added = {} /\ urls = {} /\ late = {}
    BY DEF Init
  <2> QED BY <1>1, <2>1, <2>2 DEF Init, TypeOK
<1> QED BY <1>1, <1>2 DEF Init, IInv

\* The steps of a run leave the days and the table alone.
LEMMA RunStep ==
  ASSUME IInv, TypeOK', RunCovers', AddedRowsAreNew', UNCHANGED <<published, stored, dayVars>>
  PROVE  IInv'
BY DEF IInv, Wanted, Pending, DaysListed, OutOn, dayVars

\* Whatever EDGAR chooses for the page, it holds filings of the window.
LEMMA PageOfWindow ==
  ASSUME NEW page \in Pages
  PROVE  page \subseteq Window
BY DEF Pages, kSubset

LEMMA StartIInv == ASSUME IInv, Start PROVE IInv'
<1>1. /\ phase' \in {"url", "commit"} /\ (phase' = "commit" => urls' = {})
      /\ UNCHANGED <<published, stored, cursor, added, faults, dayVars>>
  BY DEF Start, pollVars
<1>2. PICK page \in Pages : urls' = page \ Malformed /\ flawed' = (page # Window)
  BY DEF Start, Urls
<1>3. page \subseteq Window /\ Window \subseteq published
  BY PageOfWindow DEF Window
<1>4. TypeOK'
  BY <1>1, <1>2, <1>3 DEF IInv, TypeOK, PollingTypeOK, dayVars
<1>5. ASSUME NEW f \in published, Due(f) PROVE f \in Window \ Malformed
  <2>1. f \in Entries /\ day \in Nat
    BY DEF IInv, TypeOK, PollingTypeOK
  <2> QED BY <1>5, <2>1, FiledAssumption DEF Due, Wanted, DaysListed, OutOn, Window, SearchDays
<1>6. RunCovers'
  BY <1>1, <1>2, <1>5 DEF RunCovers, Due, Wanted, DaysListed, OutOn, dayVars
<1>7. AddedRowsAreNew'
  BY <1>1 DEF IInv, AddedRowsAreNew
<1> QED BY <1>1, <1>4, <1>6, <1>7, RunStep

LEMMA UrlIInv ==
  ASSUME IInv, NEW f \in Entries, FetchFails(f) \/ Drop(f) \/ Store(f)
  PROVE  IInv'
<1>1. /\ phase = "url" /\ f \in urls /\ urls' = urls \ {f} /\ phase' \in {"url", "commit"}
      /\ phase' = "commit" => urls' = {}
      /\ UNCHANGED <<published, stored, cursor, day, late, today, badDays>>
  BY DEF FetchFails, Drop, Store, NextUrl, dayVars
<1>2. TypeOK /\ f \in published /\ "fetch" \in FaultKinds
  BY <1>1, FaultKindsAssumption DEF IInv, TypeOK
<1>3. CASE FetchFails(f)
  <2>1. flawed' = TRUE /\ added' = added /\ faults' \in [FaultKinds -> Nat]
    BY <1>2, <1>3, FaultType DEF FetchFails, TypeOK, PollingTypeOK
  <2>2. TypeOK'
    BY <1>1, <1>2, <2>1 DEF TypeOK, PollingTypeOK
  <2>3. RunCovers'
    BY <1>1, <2>1 DEF RunCovers
  <2>4. AddedRowsAreNew'
    BY <1>1, <2>1 DEF IInv, AddedRowsAreNew
  <2> QED BY <1>1, <2>2, <2>3, <2>4, RunStep DEF dayVars
<1>4. CASE Drop(f)
  <2>1. ~ Keep(f) /\ UNCHANGED <<added, flawed, faults>>
    BY <1>4 DEF Drop
  <2>2. TypeOK'
    BY <1>1, <1>2, <2>1 DEF TypeOK, PollingTypeOK
  <2>3. RunCovers'
    BY <1>1, <2>1 DEF IInv, RunCovers, Due, Wanted, DaysListed, OutOn
  <2>4. AddedRowsAreNew'
    BY <1>1, <2>1 DEF IInv, AddedRowsAreNew
  <2> QED BY <1>1, <2>2, <2>3, <2>4, RunStep DEF dayVars
<1>5. CASE Store(f)
  <2>1. Keep(f) /\ StoreNew(f) /\ UNCHANGED <<flawed, faults>>
    BY <1>5 DEF Store
  <2>2. /\ AddedRowsAreNew'
        /\ added \subseteq added' /\ added' \subseteq added \cup {f}
        /\ ExternalId[f] \in stored \cup {ExternalId[x] : x \in added'}
    BY <1>1, <2>1, StoreNewEffect DEF IInv
  <2>3. TypeOK'
    BY <1>1, <1>2, <2>1, <2>2 DEF TypeOK, PollingTypeOK
  <2>4. RunCovers'
    BY <1>1, <2>1, <2>2 DEF IInv, RunCovers, Due, Wanted, DaysListed, OutOn
  <2> QED BY <1>1, <2>2, <2>3, <2>4, RunStep DEF dayVars
<1> QED BY <1>3, <1>4, <1>5

\* A run that ends leaves nothing open; only a good one changes what is pending.
LEMMA EndIInv ==
  ASSUME IInv, NEW result \in {"failed", "good"}, EndRun(result),
         cursor' \in Int \cup {None}, faults' \in [FaultKinds -> Nat],
         stored \subseteq stored', stored' \subseteq {ExternalId[x] : x \in published},
         result = "good" => \A f \in published : Due(f) => ExternalId[f] \in stored'
  PROVE  IInv'
<1>1. /\ phase' = "idle" /\ urls' = {} /\ added' = {} /\ flawed' = FALSE
      /\ today' = IF today = "good" THEN "good" ELSE result
      /\ UNCHANGED <<published, day, late, badDays>>
  BY DEF EndRun
<1>2. TypeOK'
  BY <1>1 DEF IInv, TypeOK, PollingTypeOK
<1>3. RunCovers' /\ AddedRowsAreNew'
  BY <1>1 DEF RunCovers, AddedRowsAreNew
<1>4. ASSUME NEW f \in published, Wanted(f) PROVE Pending(f)'
  <2>1. Pending(f) /\ DaysListed(f)' = DaysListed(f)
    BY <1>1, <1>4 DEF IInv, DaysListed, OutOn
  <2>2. CASE ExternalId[f] \in stored'
    BY <2>2 DEF Pending
  <2>3. CASE ExternalId[f] \notin stored'
    <3>1. ExternalId[f] \notin stored
      BY <2>3
    <3>2. day \in DaysListed(f) => result # "good" /\ today # "good"
      BY <1>4, <2>1, <2>3, <3>1 DEF Due, Pending
    <3>3. \A d \in DaysListed(f) : (d < day => d \in badDays) /\ (d = day => today' # "good")
      BY <1>1, <2>1, <3>1, <3>2 DEF Pending
    <3> QED BY <1>1, <2>1, <3>3 DEF Pending
  <2> QED BY <2>2, <2>3
<1> QED BY <1>1, <1>2, <1>3, <1>4 DEF IInv, Wanted, Keep

LEMMA CommitIInv == ASSUME IInv, Commit PROVE IInv'
<1> DEFINE result == IF flawed THEN "failed" ELSE "good"
<1>1. /\ phase = "commit" /\ stored' = stored \cup {ExternalId[x] : x \in added}
      /\ cursor' = day - SearchDays /\ EndRun(result) /\ faults' = faults
  BY DEF Commit, CommitAdded
<1>2. TypeOK /\ RunCovers
  BY DEF IInv
<1>3. cursor' \in Int /\ faults' \in [FaultKinds -> Nat]
  BY <1>1, <1>2 DEF TypeOK, PollingTypeOK, SearchDays
<1>4. stored \subseteq stored' /\ stored' \subseteq {ExternalId[x] : x \in published}
  BY <1>1, <1>2 DEF TypeOK, PollingTypeOK
<1>5. result = "good" => \A f \in published : Due(f) => ExternalId[f] \in stored'
  BY <1>1, <1>2 DEF RunCovers
<1>6. result \in {"failed", "good"}
  OBVIOUS
<1> HIDE DEF result
<1> QED BY <1>1, <1>3, <1>4, <1>5, <1>6, EndIInv

LEMMA FailureIInv == ASSUME IInv, Rejected \/ Fails PROVE IInv'
<1>1. TypeOK /\ {"stop", "list"} \subseteq FaultKinds
  BY FaultKindsAssumption DEF IInv
<1>2. EndRun("failed") /\ stored' = stored /\ cursor' = cursor
  BY DEF Rejected, Fails
<1>3. faults' \in [FaultKinds -> Nat]
  <2>1. CASE Rejected
    BY <1>1, <2>1 DEF Rejected, TypeOK, PollingTypeOK
  <2>2. CASE Fails
    BY <1>1, <2>2, FaultType DEF Fails, TypeOK, PollingTypeOK
  <2> QED BY <2>1, <2>2
<1>4. cursor' \in Int \cup {None} /\ stored' \subseteq {ExternalId[x] : x \in published}
  BY <1>1, <1>2 DEF TypeOK, PollingTypeOK
<1> QED BY <1>2, <1>3, <1>4, EndIInv

\* The days that count for a filing begin after the one it comes out on, which an
\* earlier run, or the one under way, may miss it on.
LEMMA PublishIInv == ASSUME IInv, NEW f \in Entries, Publish(f) PROVE IInv'
<1>1. /\ f \notin published /\ day \in {Filed[f], Filed[f] + 1}
      /\ published' = published \cup {f}
      /\ late' = IF day = Filed[f] THEN late ELSE late \cup {f}
      /\ UNCHANGED <<stored, cursor, added, faults, phase, urls, flawed, day, today, badDays>>
  BY DEF Publish, runVars
<1>2. TypeOK /\ late \subseteq published /\ day \in Nat /\ Filed[f] \in Nat
  BY FiledAssumption DEF IInv, TypeOK
<1>3. TypeOK'
  BY <1>1, <1>2 DEF TypeOK, PollingTypeOK
<1>4. \A d \in DaysListed(f)' : d \in Int /\ d > day
  <2>1. OutOn(f)' = day
    BY <1>1, <1>2 DEF OutOn
  <2> QED BY <1>2, <2>1 DEF DaysListed, SearchDays
<1>5. \A g \in published : DaysListed(g)' = DaysListed(g)
  BY <1>1 DEF DaysListed, OutOn
<1>6. RunCovers'
  <2>1. \A g \in published' : Due(g)' => g \in published /\ Due(g)
    BY <1>1, <1>2, <1>4, <1>5 DEF Due, Wanted, Keep
  <2> QED BY <1>1, <2>1 DEF IInv, RunCovers
<1>7. ASSUME NEW g \in published', Wanted(g) PROVE Pending(g)'
  <2>1. CASE g = f
    <3>1. \A d \in DaysListed(f)' : ~ (d < day') /\ d # day'
      BY <1>1, <1>2, <1>4
    <3>2. Pending(f)'
      BY <3>1 DEF Pending
    <3> QED BY <2>1, <3>2
  <2>2. CASE g \in published
    BY <1>1, <1>5, <1>7, <2>2 DEF IInv, Pending
  <2> QED BY <1>1, <2>1, <2>2
<1>8. AddedRowsAreNew'
  BY <1>1 DEF IInv, AddedRowsAreNew
<1> QED BY <1>3, <1>6, <1>7, <1>8 DEF IInv, Wanted, Keep

LEMMA NextDayIInv == ASSUME IInv, NextDay PROVE IInv'
<1>1. /\ day < MaxDay /\ phase = "idle" /\ today \in {"failed", "good"}
      /\ day' = day + 1 /\ today' = "none"
      /\ badDays' = IF today = "good" THEN badDays ELSE badDays \cup {day}
      /\ UNCHANGED <<published, stored, cursor, added, faults, phase, urls, flawed, late>>
  BY DEF NextDay, pollVars, runVars, IInv, TypeOK
<1>2. TypeOK /\ day \in Nat /\ badDays \subseteq 0 .. day - 1
  BY DEF IInv, TypeOK
<1>3. TypeOK'
  <2>1. day' \in 0 .. MaxDay /\ badDays' \subseteq 0 .. day' - 1
    BY <1>1, <1>2, FiledAssumption
  <2> QED BY <1>1, <1>2, <2>1 DEF TypeOK, PollingTypeOK
<1>4. RunCovers' /\ AddedRowsAreNew'
  BY <1>1 DEF IInv, RunCovers, AddedRowsAreNew
<1>5. ASSUME NEW f \in published, Wanted(f) PROVE Pending(f)'
  <2>1. Pending(f) /\ DaysListed(f)' = DaysListed(f)
    BY <1>1, <1>5 DEF IInv, DaysListed, OutOn
  <2>2. CASE ExternalId[f] \in stored
    BY <1>1, <2>2 DEF Pending
  <2>3. CASE ExternalId[f] \notin stored
    <3>1. ASSUME NEW d \in DaysListed(f), d < day' PROVE d \in badDays'
      <4>1. d \in Int /\ (d < day \/ d = day)
        BY <1>1, <1>2, <3>1 DEF DaysListed
      <4>2. (d < day => d \in badDays) /\ (d = day => today # "good")
        BY <2>1, <2>3 DEF Pending
      <4> QED BY <1>1, <4>1, <4>2
    <3> QED BY <1>1, <2>1, <3>1 DEF Pending
  <2> QED BY <2>2, <2>3
<1> QED BY <1>1, <1>3, <1>4, <1>5 DEF IInv, Wanted, Keep

LEMMA NextIInv == ASSUME IInv, [Next]_vars PROVE IInv'
<1>1. CASE UNCHANGED vars
  BY <1>1 DEF vars, pollVars, runVars, dayVars, IInv, TypeOK, PollingTypeOK, RunCovers, Due,
              Wanted, DaysListed, OutOn, AddedRowsAreNew, Pending, Keep
<1> QED
  BY <1>1, StartIInv, UrlIInv, CommitIInv, FailureIInv, PublishIInv, NextDayIInv DEF Next

\* The poller and its days stay within their types.
THEOREM PollerTypes == Spec => []TypeOK
<1>1. IInv => TypeOK
  BY DEF IInv
<1> QED BY <1>1, InitIInv, NextIInv, PTL DEF Spec

\* What the window of two days (main.py:20) is good for: a filing which is worth an
\* event and has a proper hit is in the table after it, or none of the days it was
\* listed on had a run that got through with all of the window.  Nothing is assumed
\* about the hits, the page or the order EDGAR answers in.
THEOREM GoodRunsLoseNothing == Spec => []LostOnlyWithoutGoodRun
<1>1. ASSUME IInv PROVE LostOnlyWithoutGoodRun
  <2>1. ASSUME NEW f \in published, day > Filed[f] + SearchDays, ExternalId[f] \notin stored,
               f \notin Malformed, Code[f] = "P" \/ Code[f] = "S",
               ~ (Value[f] < (IF Code[f] = "P" THEN BuyMinUsd ELSE SellMinUsd))
        PROVE  DaysListed(f) \subseteq badDays
    <3>1. /\ f \in Entries /\ day \in Nat /\ Filed[f] \in Nat /\ Value[f] \in Int
      BY <1>1, FiledAssumption, ValueAssumption DEF IInv, TypeOK, PollingTypeOK
    <3>2. Wanted(f)
      BY <2>1, <3>1, ValueAssumption DEF Wanted, Keep
    <3>3. \A d \in DaysListed(f) : d < day
      BY <2>1, <3>1 DEF DaysListed, OutOn, SearchDays
    <3> QED BY <1>1, <2>1, <3>2, <3>3 DEF IInv, Pending
  <2> QED BY <2>1 DEF LostOnlyWithoutGoodRun
<1> QED BY <1>1, InitIInv, NextIInv, PTL DEF Spec

\* No run of the SEC poller meets the unique constraint, whatever EDGAR lists twice.
THEOREM RowsStayNew == Spec => []AddedRowsAreNew
<1>1. IInv => AddedRowsAreNew
  BY DEF IInv
<1> QED BY <1>1, InitIInv, NextIInv, PTL DEF Spec

\* The rows a run has added are committed: nothing but a fault or a row Postgres
\* refuses for what is in it keeps them out of the table.
THEOREM OnlyRefusalsKillRuns == Spec => OnlyRefusedRowsKillRuns
<1>1. ASSUME IInv, [Next]_vars
      PROVE  [/\ phase # "idle" /\ phase' = "idle" /\ faults' = faults
              /\ added \cap Refused = {}
              => \A f \in added : ExternalId[f] \in stored']_vars
  <2> SUFFICES ASSUME Next, phase # "idle", phase' = "idle", faults' = faults,
                      added \cap Refused = {}
               PROVE  \A f \in added : ExternalId[f] \in stored'
    BY <1>1
  <2>1. ~ FlushFails
    BY <1>1 DEF IInv, AddedRowsAreNew, FlushFails
  <2>2. ~ Rejected /\ ~ Start
    BY <2>1 DEF Rejected, Start
  <2>3. ~ Fails
    BY <1>1, FaultType, FaultKindsAssumption DEF Fails, IInv, TypeOK, PollingTypeOK
  <2>4. ~ \E f \in Entries : FetchFails(f) \/ Drop(f) \/ Store(f)
    BY DEF FetchFails, Drop, Store, NextUrl
  <2>5. ~ (\E f \in Entries : Publish(f)) /\ ~ NextDay
    BY DEF Publish, NextDay, runVars
  <2>6. Commit
    BY <2>2, <2>3, <2>4, <2>5 DEF Next
  <2> QED BY <2>6 DEF Commit, CommitAdded
<1> QED BY <1>1, InitIInv, NextIInv, PTL DEF Spec, OnlyRefusedRowsKillRuns
=============================================================================
