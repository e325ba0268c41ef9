------------------------------ MODULE SecPoller ------------------------------
(***************************************************************************)
(* The hourly search for Form-4 filings (sec_poller/main.py, pipeline.py,  *)
(* edgar.py).  Time is counted in days of UTC, the grain of startdt.       *)
(***************************************************************************)
EXTENDS Polling, FiniteSetsExt

CONSTANTS
  Filed,        \* Filed[f]: the date EDGAR gives the filing
  Malformed,    \* filings whose hit has no usable _id or no CIK
  PageSize,     \* the hits EDGAR puts into one answer
  Code,         \* Code[f]: the code of its first transaction; None when parse_form4
                \* cannot read it (a field missing, shares that are no integer)
  Value,        \* Value[f]: shares times price, in USD
  BuyMinUsd,    \* threshold form4_buy_min_usd
  SellMinUsd,   \* threshold form4_sell_min_usd
  MaxDay        \* bound on the days

ASSUME FiledAssumption == Filed \in [Entries -> Nat] /\ MaxDay \in Nat
ASSUME AnswersAssumption == Malformed \subseteq Entries /\ PageSize \in Nat
ASSUME ValueAssumption == Value \in [Entries -> Int] /\ BuyMinUsd \in Int /\ SellMinUsd \in Int
ASSUME FaultKindsAssumption == {"stop", "list", "fetch"} \subseteq FaultKinds

\* timedelta(days=2) of main.py:20.
SearchDays == 2

VARIABLES
  phase,      \* where the run awaits
  urls,       \* the filings it has not handled
  flawed,     \* history: a filing of the window was not on the page, or not fetched
  day,
  late,       \* filings that came out on the day after their date
  today,      \* the best run of the day so far: none, failed or good
  badDays     \* the days without a good run

runVars == <<phase, urls, flawed>>
dayVars == <<day, late, today, badDays>>
vars == <<pollVars, runVars, dayVars>>

\* parse_form4 can read the filing and Form4Filter.keep keeps it.  (Mutant: the
\* threshold itself is left out.)
KeepAbove(f) ==
  \/ Code[f] = "P" /\ Value[f] > BuyMinUsd
  \/ Code[f] = "S" /\ Value[f] > SellMinUsd

Keep(f) ==
  \/ Code[f] = "P" /\ Value[f] >= BuyMinUsd
  \/ Code[f] = "S" /\ Value[f] >= SellMinUsd

TypeOK ==
  /\ PollingTypeOK
  /\ \A f \in added : Keep(f)
  /\ cursor \in Int \cup {None}
  /\ phase \in {"idle", "url", "commit"} /\ urls \subseteq published /\ flawed \in BOOLEAN
  /\ urls \cap Malformed = {} /\ late \subseteq published
  /\ day \in 0 .. MaxDay /\ badDays \subseteq 0 .. day - 1 /\ today \in {"none", "failed", "good"}

Init ==
  /\ published = {} /\ stored = {} /\ cursor = None /\ added = {}
  /\ faults = [k \in FaultKinds |-> 0]
  /\ phase = "idle" /\ urls = {} /\ flawed = FALSE
  /\ day = 0 /\ late = {} /\ today = "none" /\ badDays = {}

-----------------------------------------------------------------------------

\* The filings which match the search.  (Mutant: a window one day short.)
WindowOneDayShort == {f \in published : Filed[f] > day - SearchDays}

Window == {f \in published : Filed[f] >= day - SearchDays}

\* EDGAR's answer: all of them if they fit, otherwise as many as it holds, in an
\* order of its own.  No other page is asked for, and JSON without hits counts as an
\* empty answer.
Pages ==
  {{}} \cup IF Cardinality(Window) <= PageSize THEN {Window} ELSE kSubset(PageSize, Window)

\* A malformed hit is skipped with a warning, and the run knows nothing of it.
Urls(page) == page \ Malformed

Start ==
  /\ phase = "idle"
  /\ \E page \in Pages : urls' = Urls(page) /\ flawed' = (page # Window)
  /\ phase' = IF urls' = {} THEN "commit" ELSE "url"
  /\ UNCHANGED <<pollVars, dayVars>>

NextUrl(f) ==
  /\ phase = "url" /\ f \in urls
  /\ urls' = urls \ {f}
  /\ phase' = IF urls' = {} THEN "commit" ELSE "url"
  /\ UNCHANGED <<published, stored, cursor, dayVars>>

\* The filing cannot be fetched, even with the retries of with_retry.
FetchFails(f) ==
  /\ NextUrl(f)
  /\ Fault("fetch")
  /\ flawed' = TRUE
  /\ UNCHANGED added

\* It cannot be parsed, or it is not worth an event.
Drop(f) ==
  /\ NextUrl(f)
  /\ ~Keep(f)
  /\ UNCHANGED <<added, flawed, faults>>

\* (Mutant: the filter is passed by.)
StoreUnfiltered(f) == NextUrl(f) /\ StoreNew(f) /\ UNCHANGED <<flawed, faults>>

Store(f) ==
  /\ NextUrl(f)
  /\ Keep(f)
  /\ StoreNew(f)
  /\ UNCHANGED <<flawed, faults>>

EndRun(result) ==
  /\ phase' = "idle" /\ urls' = {} /\ added' = {} /\ flawed' = FALSE
  /\ today' = IF today = "good" THEN "good" ELSE result
  /\ UNCHANGED <<published, day, late, badDays>>

Commit ==
  /\ phase = "commit"
  /\ CommitAdded
  /\ cursor' = day - SearchDays
  /\ EndRun(IF flawed THEN "failed" ELSE "good")
  /\ UNCHANGED faults

\* The flush before the SELECT for another filing, or the one of the commit,
\* raises: main.py:23 logs it and the run is over.
Rejected ==
  /\ phase = "commit" \/ \E f \in urls : Keep(f)
  /\ FlushFails
  /\ EndRun("failed")
  /\ UNCHANGED <<stored, cursor, faults>>

\* EDGAR cannot be searched, or the process stops or loses its database.
Fails ==
  /\ \/ phase = "idle" /\ Fault("list")
     \/ phase # "idle" /\ Fault("stop")
  /\ EndRun("failed")
  /\ UNCHANGED <<stored, cursor>>

\* A filing comes out on its date, which is that of US Eastern time: the last ones
\* of an evening come out when the day of the poller is over.
Publish(f) ==
  /\ f \notin published /\ day \in {Filed[f], Filed[f] + 1}
  /\ published' = published \cup {f}
  /\ late' = IF day = Filed[f] THEN late ELSE late \cup {f}
  /\ UNCHANGED <<stored, cursor, added, faults, runVars, day, today, badDays>>

\* The cron trigger makes 24 runs a day: at least one has come to an end.
NextDay ==
  /\ day < MaxDay /\ phase = "idle" /\ today # "none"
  /\ day' = day + 1 /\ today' = "none"
  /\ badDays' = IF today = "good" THEN badDays ELSE badDays \cup {day}
  /\ UNCHANGED <<pollVars, runVars, late>>

Next ==
  \/ Start \/ (\E f \in Entries : FetchFails(f) \/ Drop(f) \/ Store(f))
  \/ Commit \/ Rejected \/ Fails
  \/ (\E f \in Entries : Publish(f)) \/ NextDay

Spec == Init /\ [][Next]_vars

-----------------------------------------------------------------------------
(* Properties                                                               *)

\* The day a filing came out, and the days after it on which the search lists it.
OutOn(f) == IF f \in late THEN Filed[f] + 1 ELSE Filed[f]

DaysListed(f) == OutOn(f) + 1 .. Filed[f] + SearchDays

\* A filing at or above its threshold is lost only if its hit is malformed, or if on
\* none of the days the window leaves it, two or for a late one a single day, a run
\* got through with the whole window: all of it on the page, fetched and committed.
\* One such run is enough, whatever the others of these days come to.
LostOnlyWithoutGoodRun ==
  \A f \in published :
    day > Filed[f] + SearchDays =>
      \/ ExternalId[f] \in stored
      \/ DaysListed(f) \subseteq badDays
      \/ f \in Malformed
      \/ Code[f] # "P" /\ Code[f] # "S"
      \/ Value[f] < (IF Code[f] = "P" THEN BuyMinUsd ELSE SellMinUsd)

\* What a run has added it commits, unless a fault ends it or Postgres refuses a
\* row for what is in it: a filing it cannot read, or one the table or the list has
\* already, never costs the others (pipeline.py:66, 91).
OnlyRefusedRowsKillRuns ==
  [][/\ phase # "idle" /\ phase' = "idle" /\ faults' = faults
     /\ added \cap Refused = {}
     => \A f \in added : ExternalId[f] \in stored']_vars

\* pipeline.py:66: one bad URL should not kill the run.  A run nothing else goes
\* wrong with stores the filings it has added and Postgres accepts.
BadUrlsDoNotKillRuns ==
  [][phase # "idle" /\ phase' = "idle" /\ faults' = faults =>
       \A f \in added \ Refused : ExternalId[f] \in stored']_vars
=============================================================================
