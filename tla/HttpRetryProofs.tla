---------------------------- MODULE HttpRetryProofs ----------------------------
(***************************************************************************)
(* The retry loops for whatever a server may write into Retry-After: how   *)
(* many requests a call sends, how often the server acts, how long the     *)
(* call sleeps.                                                            *)
(***************************************************************************)
EXTENDS HttpRetry, TLAPS

\* The counts of the attempts made so far: those of earlier prompts have come to
\* one accepted answer each, and the request which is on its way may add one.
Counts ==
  /\ step \in {"ready", "sleep"} => attempt < MaxAttempts
  /\ InFlight => attempt > 0
  /\ step \notin {"succeeded", "failed"} => open = 0
  /\ sent <= MaxAttempts * (prompt - 1) + attempt

\* What the server did: it has acted for every earlier prompt, and more often only
\* after a 5xx.
Effects ==
  /\ step \in {"ready", "waiting", "sleep"} => acted + open <= prompt - 1 + blind
  /\ acted + open <= prompt + blind
  /\ acted >= prompt - 1
  /\ step \in {"served", "succeeded"} => acted >= prompt

\* The sleeps of with_retry: MaxRetryAfter for each failed attempt at most.
Sleeps ==
  kind # "embed" =>
    /\ step \in {"ready", "sleep"} =>
         slept <= (MaxAttempts - 1) * MaxRetryAfter * (prompt - 1) + MaxRetryAfter * attempt
    /\ step \notin {"ready", "sleep"} =>
         /\ attempt > 0
         /\ slept <= (MaxAttempts - 1) * MaxRetryAfter * (prompt - 1)
                       + MaxRetryAfter * (attempt - 1)

\* An embed has no second prompt, and each of its copies a request of its own: the
\* one that has been posted, the one on its way and the one posted too late.
Copies ==
  kind = "embed" =>
    /\ prompt = 1
    /\ acted + open <= sent
    /\ step = "waiting" => acted + open < sent

IInv == TypeOK /\ Counts /\ Effects /\ Sleeps /\ Copies /\ TransientFailuresUseAllAttempts

\* What with_retry sleeps is a number of seconds within the cap.
LEMMA DelayBound ==
  ASSUME NEW h \in Headers
  PROVE  Delay(h) \in 0 .. MaxRetryAfter /\ RateLimitDelay(h) \in Nat /\ Backoff \in 1 .. 2
BY HeadersAssumption, SMT DEF Delay, RateLimitDelay, Backoff, Headers, MaxRetryAfter

LEMMA InitIInv == Init => IInv
BY DEF Init, IInv, TypeOK, Counts, Effects, Sleeps, Copies, TransientFailuresUseAllAttempts, Replies,
       InFlight, MaxAttempts, MaxPrompts, MaxRetryAfter

\* The types and the counts hold each other up.
LEMMA NextCounts ==
  ASSUME TypeOK, Counts, TransientFailuresUseAllAttempts, [Next]_vars
  PROVE  (TypeOK /\ Counts /\ TransientFailuresUseAllAttempts)'
<1> USE DEF TypeOK, Counts, TransientFailuresUseAllAttempts, MaxAttempts, MaxPrompts, Replies,
            InFlight
<1>1. CASE Send
  BY <1>1 DEF Send
<1>2. CASE Serve
  BY <1>2 DEF Serve
<1>3. CASE Wake
  BY <1>3 DEF Wake
<1>4. CASE NoAnswer
  BY <1>4 DEF NoAnswer, End
<1>5. CASE LateEffect
  BY <1>5 DEF LateEffect
<1>6. CASE Accepted
  BY <1>6 DEF Accepted, Answered, End
<1>7. CASE Invalid
  BY <1>7 DEF Invalid, Answered, End
<1>8. CASE Unusable
  BY <1>8 DEF Unusable, Answered, End
<1>9. CASE Rejected
  BY <1>9 DEF Rejected, Answered, End
<1>10. CASE RateLimitedByDate
  BY <1>10 DEF RateLimitedByDate, Answered, End
<1>11. ASSUME NEW h \in Headers, RateLimited(h) PROVE (TypeOK /\ Counts /\ TransientFailuresUseAllAttempts)'
  BY <1>11, DelayBound DEF RateLimited, Answered, End, Sleep
<1>12. ASSUME NEW h \in Headers, ServerError(h) PROVE (TypeOK /\ Counts /\ TransientFailuresUseAllAttempts)'
  BY <1>12, DelayBound DEF ServerError, Answered, End, Sleep
<1>13. CASE UNCHANGED vars
  BY <1>13 DEF vars
<1> QED
  BY <1>1, <1>2, <1>3, <1>4, <1>5, <1>6, <1>7, <1>8, <1>9, <1>10, <1>11, <1>12, <1>13
     DEF Next, Ended

LEMMA NextEffects ==
  ASSUME TypeOK, Counts, Effects, [Next]_vars
  PROVE  Effects'
<1> USE DEF TypeOK, Counts, Effects, MaxPrompts, InFlight
<1>1. CASE Send
  BY <1>1 DEF Send
<1>2. CASE Serve
  BY <1>2 DEF Serve
<1>3. CASE Wake
  BY <1>3 DEF Wake
<1>4. CASE NoAnswer
  <2>1. /\ step' = "failed" /\ open' \in {0, 1} /\ open = 0
        /\ acted' = acted /\ prompt' = prompt /\ blind' = blind
    BY <1>4 DEF NoAnswer, End
  <2>2. step = "served" => open' = 0
    BY <1>4 DEF NoAnswer
  <2>3. CASE open' = 0
    BY <2>1, <2>3
  <2>4. CASE open' = 1
    <3>1. acted + 1 <= prompt + blind
      BY <1>4, <2>1, <2>2, <2>4 DEF NoAnswer
    <3> QED
      BY <2>1, <2>4, <3>1
  <2> QED
    BY <2>1, <2>3, <2>4
<1>5. CASE LateEffect
  BY <1>5 DEF LateEffect
<1>6. CASE Accepted
  BY <1>6 DEF Accepted, Answered, End
<1>7. CASE Invalid
  BY <1>7 DEF Invalid, Answered, End
<1>8. CASE Unusable
  BY <1>8 DEF Unusable, Answered, End
<1>9. CASE Rejected
  BY <1>9 DEF Rejected, Answered, End
<1>10. CASE RateLimitedByDate
  BY <1>10 DEF RateLimitedByDate, Answered, End
<1>11. ASSUME NEW h \in Headers, RateLimited(h) PROVE Effects'
  BY <1>11, DelayBound DEF RateLimited, Answered, End, Sleep
<1>12. ASSUME NEW h \in Headers, ServerError(h) PROVE Effects'
  BY <1>12, DelayBound DEF ServerError, Answered, End, Sleep
<1>13. CASE UNCHANGED vars
  BY <1>13 DEF vars
<1> QED
  BY <1>1, <1>2, <1>3, <1>4, <1>5, <1>6, <1>7, <1>8, <1>9, <1>10, <1>11, <1>12, <1>13
     DEF Next, Ended

LEMMA NextSleeps ==
  ASSUME TypeOK, Counts, Sleeps, [Next]_vars
  PROVE  Sleeps'
<1> USE DEF TypeOK, Counts, Sleeps, MaxAttempts, MaxPrompts, MaxRetryAfter, InFlight
<1>1. CASE Send
  BY <1>1 DEF Send
<1>2. CASE Serve
  BY <1>2 DEF Serve
<1>3. CASE Wake
  BY <1>3 DEF Wake
<1>4. CASE NoAnswer
  BY <1>4 DEF NoAnswer, End
<1>5. CASE LateEffect
  BY <1>5 DEF LateEffect
<1>6. CASE Accepted
  BY <1>6 DEF Accepted, Answered, End
<1>7. CASE Invalid
  BY <1>7 DEF Invalid, Answered, End
<1>8. CASE Unusable
  BY <1>8 DEF Unusable, Answered, End
<1>9. CASE Rejected
  BY <1>9 DEF Rejected, Answered, End
<1>10. CASE RateLimitedByDate
  BY <1>10 DEF RateLimitedByDate, Answered, End
<1>11. ASSUME NEW h \in Headers, RateLimited(h) PROVE Sleeps'
  BY <1>11, DelayBound DEF RateLimited, Answered, End, Sleep
<1>12. ASSUME NEW h \in Headers, ServerError(h) PROVE Sleeps'
  BY <1>12, DelayBound DEF ServerError, Answered, End, Sleep
<1>13. CASE UNCHANGED vars
  BY <1>13 DEF vars
<1> QED
  BY <1>1, <1>2, <1>3, <1>4, <1>5, <1>6, <1>7, <1>8, <1>9, <1>10, <1>11, <1>12, <1>13
     DEF Next, Ended

LEMMA NextCopies ==
  ASSUME TypeOK, Counts, Copies, [Next]_vars
  PROVE  Copies'
<1> USE DEF TypeOK, Counts, Copies, InFlight
<1>1. CASE Send
  BY <1>1 DEF Send
<1>2. CASE Serve
  BY <1>2 DEF Serve
<1>3. CASE Wake
  BY <1>3 DEF Wake
<1>4. CASE NoAnswer
  <2>1. /\ step' = "failed" /\ open' \in {0, 1} /\ open = 0 /\ (step = "served" => open' = 0)
        /\ UNCHANGED <<kind, prompt, sent, acted>>
    BY <1>4 DEF NoAnswer, End
  <2>2. CASE step = "served"
    BY <2>1, <2>2
  <2>3. CASE step = "waiting" /\ kind = "embed"
    <3>1. acted < sent
      BY <2>1, <2>3
    <3>2. CASE open' = 0
      BY <2>1, <2>3, <3>1, <3>2
    <3>3. CASE open' = 1
      BY <2>1, <2>3, <3>1, <3>3
    <3> QED BY <2>1, <3>2, <3>3
  <2> QED BY <1>4, <2>1, <2>2, <2>3 DEF NoAnswer
<1>5. CASE LateEffect
  BY <1>5 DEF LateEffect
<1>6. CASE Accepted
  BY <1>6 DEF Accepted, Answered, End
<1>7. CASE Invalid
  BY <1>7 DEF Invalid, Answered
<1>8. CASE Unusable
  BY <1>8 DEF Unusable, Answered
<1>9. CASE Rejected
  BY <1>9 DEF Rejected, Answered, End
<1>10. CASE RateLimitedByDate
  BY <1>10 DEF RateLimitedByDate, Answered, End
<1>11. ASSUME NEW h \in Headers, RateLimited(h) PROVE Copies'
  BY <1>11 DEF RateLimited, Answered, End, Sleep
<1>12. ASSUME NEW h \in Headers, ServerError(h) PROVE Copies'
  BY <1>12 DEF ServerError, Answered, End, Sleep
<1>13. CASE UNCHANGED vars
  BY <1>13 DEF vars
<1> QED
  BY <1>1, <1>2, <1>3, <1>4, <1>5, <1>6, <1>7, <1>8, <1>9, <1>10, <1>11, <1>12, <1>13
     DEF Next, Ended

LEMMA NextIInv == IInv /\ [Next]_vars => IInv'
BY NextCounts, NextEffects, NextSleeps, NextCopies DEF IInv

\* Every behaviour keeps the types, the counters within their ranges included.
THEOREM TypeCorrectness == Spec => []TypeOK
<1>1. IInv => TypeOK
  BY DEF IInv
<1> QED
  BY <1>1, InitIInv, NextIInv, PTL DEF Spec

\* No call sends more than three requests for each prompt, whatever the server
\* answers.
THEOREM BudgetHolds == Spec => []RequestBudget
<1>1. IInv => RequestBudget
  BY DEF IInv, TypeOK, Counts, RequestBudget, MaxAttempts, MaxPrompts
<1> QED
  BY <1>1, InitIInv, NextIInv, PTL DEF Spec

\* Whatever gets lost, delayed or answered wrongly, an embed is in the channel twice
\* only after a 5xx of a server which had taken it.
THEOREM EmbedRepeatsAreExplained == Spec => []EmbedRepeatsNeedServerErrors
<1>1. IInv => EmbedRepeatsNeedServerErrors
  BY DEF IInv, TypeOK, Effects, Copies, EmbedRepeatsNeedServerErrors
<1> QED
  BY <1>1, InitIInv, NextIInv, PTL DEF Spec

\* A rate limit or a server error ends a call only at its third attempt.
THEOREM TransientFailuresAreRetried == Spec => []TransientFailuresUseAllAttempts
<1>1. IInv => TransientFailuresUseAllAttempts
  BY DEF IInv
<1> QED
  BY <1>1, InitIInv, NextIInv, PTL DEF Spec

\* The sleeps of a poller's call or a classification are bounded for every header.
THEOREM SleepsStayBounded == Spec => []SleepsAreBounded
<1>1. IInv => SleepsAreBounded
  BY DEF IInv, TypeOK, Counts, Sleeps, SleepsAreBounded, MaxAttempts, MaxPrompts, MaxRetryAfter
<1> QED
  BY <1>1, InitIInv, NextIInv, PTL DEF Spec

-----------------------------------------------------------------------------
(* A call as its caller sees it, and its end                                 *)

\* A call which has ended does nothing any more, but for an effect on its way.
LEMMA EndIsFinal ==
  ASSUME TypeOK, Counts, step \in {"succeeded", "failed"}, [Next]_vars
  PROVE  UNCHANGED <<kind, step, attempt, prompt>> /\ acted' + open' = acted + open
<1> USE DEF TypeOK, InFlight
<1>1. LateEffect \/ UNCHANGED vars
  BY DEF Next, Send, Serve, Wake, NoAnswer, Accepted, Invalid, Unusable, Rejected,
         RateLimitedByDate, RateLimited, ServerError, Ended
<1>2. CASE LateEffect
  BY <1>2 DEF LateEffect
<1>3. CASE UNCHANGED vars
  BY <1>3 DEF vars
<1> QED BY <1>1, <1>2, <1>3

\* What the counts of an embed add up to.
LEMMA CountsMakeAnswer ==
  ASSUME NEW a \in Nat, NEW o \in {0, 1}, NEW s \in Nat, NEW n \in 0 .. 3, NEW p, p = 1,
         a + o <= s, s <= MaxAttempts * (p - 1) + n
  PROVE  a + o \in 0 .. 3 /\ (a >= p => a + o > 0)
BY DEF MaxAttempts

LEMMA EmbedStep ==
  ASSUME IInv, [Next]_vars
  PROVE  [Embed!Return]_embedAnswer
<1>1. IInv' /\ kind' = kind
  BY NextIInv DEF Next, vars, Send, Serve, Wake, NoAnswer, LateEffect, Accepted, Invalid, Unusable,
     Rejected, RateLimitedByDate, RateLimited, ServerError, Ended, Answered
<1>2. CASE kind = "embed" /\ step \in {"succeeded", "failed"}
  <2>1. UNCHANGED <<kind, step>> /\ acted' + open' = acted + open
    BY <1>2, EndIsFinal DEF IInv
  <2> QED BY <2>1 DEF embedAnswer
<1>3. CASE kind = "embed" /\ step \notin {"succeeded", "failed"} /\ step' \in {"succeeded", "failed"}
  <2>1. embedAnswer = Embed!Pending
    BY <1>3 DEF embedAnswer, Embed!Pending
  <2>2. embedAnswer' \in Embed!Answer
    <3>1. acted' + open' \in 0 .. 3 /\ (step' = "succeeded" => acted' + open' > 0)
      <4>1. /\ acted' \in Nat /\ sent' \in Nat /\ attempt' \in 0 .. 3
            /\ open' \in {0, 1}
        BY <1>1 DEF IInv, TypeOK, MaxAttempts
      <4>2. prompt' = 1 /\ acted' + open' <= sent'
        BY <1>1, <1>3 DEF IInv, Copies
      <4>3. sent' <= MaxAttempts * (prompt' - 1) + attempt'
        BY <1>1 DEF IInv, Counts
      <4>4. step' = "succeeded" => acted' >= prompt'
        BY <1>1 DEF IInv, Effects
      <4> QED BY <4>1, <4>2, <4>3, <4>4, CountsMakeAnswer
    <3>2. embedAnswer' = [returned |-> step' = "succeeded", copies |-> acted' + open']
      BY <1>1, <1>3 DEF embedAnswer
    <3>3. (step' = "succeeded") \in BOOLEAN
      OBVIOUS
    <3> QED BY <3>1, <3>2, <3>3 DEF Embed!Answer, Embed!MaxCopies
  <2> QED BY <2>1, <2>2 DEF Embed!Return
<1>4. CASE kind # "embed" \/ (step \notin {"succeeded", "failed"} /\ step' \notin {"succeeded", "failed"})
  BY <1>1, <1>4 DEF embedAnswer
<1> QED BY <1>2, <1>3, <1>4

\* send_embed keeps what its callers in Notifier and Form4ClusterJob rely on: it
\* comes to one of the answers of EmbedAnswers, and to nothing else afterwards.
THEOREM EmbedRefined == Spec => EmbedSpec
<1>1. Init => Embed!Init
  BY DEF Init, Embed!Init, Embed!Pending, embedAnswer
<1> QED
  BY <1>1, InitIInv, NextIInv, EmbedStep, PTL DEF Spec, EmbedSpec, Embed!Spec

\* Every step of every call shortens what is left of it, in the natural numbers.
THEOREM CallsDoRunOut == Spec => CallsRunOut
<1>1. ASSUME IInv, [Next]_vars
      PROVE  [Remaining' \in Nat /\ Remaining' < Remaining]_vars
  <2> SUFFICES ASSUME Next, ~ UNCHANGED vars PROVE Remaining' \in Nat /\ Remaining' < Remaining
    BY <1>1
  <2>1. IInv'
    BY <1>1, NextIInv
  <2>2. Remaining' \in Nat
    BY <2>1 DEF IInv, TypeOK, Remaining, MaxPrompts, MaxAttempts
  <2> USE <1>1 DEF IInv, TypeOK, Counts, Remaining, MaxPrompts, MaxAttempts, InFlight
  <2>3. CASE Send
    BY <2>3 DEF Send
  <2>4. CASE Serve
    BY <2>4 DEF Serve
  <2>5. CASE Wake
    BY <2>5 DEF Wake
  <2>6. CASE NoAnswer
    BY <2>6 DEF NoAnswer, End
  <2>7. CASE LateEffect
    BY <2>7 DEF LateEffect
  <2>8. CASE Accepted
    BY <2>8 DEF Accepted, Answered, End
  <2>9. CASE Invalid
    BY <2>9 DEF Invalid, Answered, End
  <2>10. CASE Unusable
    BY <2>10 DEF Unusable, Answered, End
  <2>11. CASE Rejected
    BY <2>11 DEF Rejected, Answered, End
  <2>12. CASE RateLimitedByDate
    BY <2>12 DEF RateLimitedByDate, Answered, End
  <2>13. ASSUME NEW h \in Headers, RateLimited(h) PROVE Remaining' < Remaining
    BY <2>13 DEF RateLimited, Answered, End, Sleep
  <2>14. ASSUME NEW h \in Headers, ServerError(h) PROVE Remaining' < Remaining
    BY <2>14 DEF ServerError, Answered, End, Sleep
  <2> QED
    BY <2>2, <2>3, <2>4, <2>5, <2>6, <2>7, <2>8, <2>9, <2>10, <2>11, <2>12, <2>13, <2>14
       DEF Next, Ended
<1> QED
  BY <1>1, InitIInv, NextIInv, PTL DEF Spec, CallsRunOut
=============================================================================
