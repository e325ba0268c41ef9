------------------------------- MODULE HttpRetry -------------------------------
(***************************************************************************)
(* One outgoing call of a service: a GET of a poller and a classification, *)
(* both repeated by with_retry (common/http.py), or an embed, repeated by  *)
(* DiscordClient.send_embed (notifier/discord.py) with a loop of its own.  *)
(* The server may act on a request and still fail to answer it.            *)
(***************************************************************************)
EXTENDS Integers

CONSTANTS
  RetryAfters,  \* seconds a server may write into Retry-After
  NoHeader,     \* ... or no such header
  HttpDate      \* ... or the header as a date, which float() does not read

ASSUME HeadersAssumption ==
  RetryAfters \subseteq Nat /\ NoHeader \notin Nat /\ HttpDate \notin Nat
                            /\ NoHeader # HttpDate

Headers == RetryAfters \cup {NoHeader, HttpDate}

\* "fetch": list_recent_form4_urls, fetch_filing_xml, RssPipeline._fetch;
\* "classify": DeepSeekProvider, GeminiProvider; "embed": send_embed.
Kinds == {"fetch", "classify", "embed"}

MaxAttempts == 3
MaxRetryAfter == 60   \* MAX_RETRY_AFTER_S
MaxPrompts == 2       \* for attempt in range(2)

VARIABLES
  kind,     \* the kind of call
  step,     \* where it awaits; "served": an answer, the server having acted
  attempt,  \* the counter of the retry loop
  prompt,   \* classify: the prompt it has come to
  sent,     \* requests sent
  acted,    \* how often the server has acted: an embed posted, a completion billed
  blind,    \* how often it acted and answered with a 5xx
  open,     \* requests given up on which the server may still act
  reply,    \* what the last request came to
  slept     \* seconds slept between requests

vars == <<kind, step, attempt, prompt, sent, acted, blind, open, reply, slept>>

Replies == {"none", "ok", "invalid", "unusable", "rejected", "limited",
            "unreadable", "error", "lost"}

TypeOK ==
  /\ kind \in Kinds
  /\ step \in {"ready", "waiting", "served", "sleep", "succeeded", "failed"}
  /\ attempt \in 0 .. MaxAttempts /\ prompt \in 1 .. MaxPrompts
  /\ sent \in Nat /\ acted \in Nat /\ blind \in Nat /\ slept \in Nat
  /\ open \in {0, 1} /\ reply \in Replies

Init ==
  /\ kind \in Kinds /\ step = "ready" /\ attempt = 0 /\ prompt = 1
  /\ sent = 0 /\ acted = 0 /\ blind = 0 /\ open = 0
  /\ reply = "none" /\ slept = 0

-----------------------------------------------------------------------------

Send ==
  /\ step = "ready"
  /\ step' = "waiting" /\ attempt' = attempt + 1 /\ sent' = sent + 1
  /\ UNCHANGED <<kind, prompt, acted, blind, open, reply, slept>>

\* The server acts on the request: it posts the embed or bills the completion.
Serve ==
  /\ step = "waiting"
  /\ step' = "served" /\ acted' = acted + 1
  /\ UNCHANGED <<kind, attempt, prompt, sent, blind, open, reply, slept>>

InFlight == step \in {"waiting", "served"}

End(outcome) == step' = outcome /\ UNCHANGED <<attempt, prompt, slept>>

Answered(r) == reply' = r /\ UNCHANGED <<kind, sent, acted, open>>

\* A 2xx with contents the caller can use; send_embed does not look at them.
Accepted ==
  /\ step = "served" /\ Answered("ok")
  /\ End("succeeded")
  /\ UNCHANGED blind

\* A completion which is not the JSON asked for: the provider asks once more, in
\* a call of its own, and then raises ValueError.  (Mutant: it goes on asking.)
InvalidForever ==
  /\ kind = "classify" /\ step = "served" /\ Answered("invalid")
  /\ step' = "ready" /\ attempt' = 0
  /\ UNCHANGED <<prompt, slept, blind>>

Invalid ==
  /\ kind = "classify" /\ step = "served" /\ Answered("invalid")
  /\ IF prompt < MaxPrompts
     THEN /\ step' = "ready" /\ prompt' = prompt + 1 /\ attempt' = 0
          /\ UNCHANGED slept
     ELSE End("failed")
  /\ UNCHANGED blind

\* A 2xx without the JSON envelope: res.json() or a key of it raises.
Unusable ==
  /\ kind # "embed" /\ step = "served" /\ Answered("unusable")
  /\ End("failed")
  /\ UNCHANGED blind

\* A status that is not retried.  (Mutant: its response is not looked at.)
RejectedUnseen ==
  /\ step = "waiting" /\ Answered("rejected")
  /\ End("succeeded")
  /\ UNCHANGED blind

Rejected ==
  /\ step = "waiting" /\ Answered("rejected")
  /\ End("failed")
  /\ UNCHANGED blind

\* 2 ** (attempt - 1), slept after the first and the second attempt; the jitter
\* is left out.
Backoff == IF attempt = 1 THEN 1 ELSE 2

\* (Mutant: the header is taken as it is.)
DelayUncapped(h) == IF h \in RetryAfters THEN h ELSE Backoff

\* with_retry: a number is capped, a date is treated like no header.
Delay(h) ==
  IF h \in RetryAfters THEN IF h < MaxRetryAfter THEN h ELSE MaxRetryAfter
                       ELSE Backoff

\* send_embed: a number is slept out as it is.
RateLimitDelay(h) == IF h \in RetryAfters THEN h ELSE 1

Sleep(delay) == step' = "sleep" /\ slept' = slept + delay /\ UNCHANGED <<attempt, prompt>>

\* A 429.  (Mutant: with_retry does not catch the ValueError of float() either.)
RateLimitedDateRaises(h) ==
  /\ step = "waiting" /\ Answered("limited")
  /\ IF attempt >= MaxAttempts \/ h = HttpDate THEN End("failed")
     ELSE Sleep(IF kind = "embed" THEN RateLimitDelay(h) ELSE Delay(h))
  /\ UNCHANGED blind

RateLimited(h) ==
  /\ step = "waiting" /\ (kind = "embed" => h # HttpDate)
  /\ Answered("limited")
  /\ IF attempt >= MaxAttempts THEN End("failed")
     ELSE Sleep(IF kind = "embed" THEN RateLimitDelay(h) ELSE Delay(h))
  /\ UNCHANGED blind

\* send_embed reads the header first: float() raises and the call returns False.
RateLimitedByDate ==
  /\ step = "waiting" /\ kind = "embed" /\ Answered("unreadable")
  /\ End("failed")
  /\ UNCHANGED blind

\* A 500, 502, 503 or 504; only with_retry reads its header.  (Mutant: one attempt
\* too many.)
ServerErrorOneTooMany(h) ==
  /\ InFlight /\ Answered("error")
  /\ blind' = IF step = "served" THEN blind + 1 ELSE blind
  /\ IF attempt > MaxAttempts THEN End("failed")
     ELSE Sleep(IF kind = "embed" THEN Backoff ELSE Delay(h))

ServerError(h) ==
  /\ InFlight /\ Answered("error")
  /\ blind' = IF step = "served" THEN blind + 1 ELSE blind
  /\ IF attempt >= MaxAttempts THEN End("failed")
     ELSE Sleep(IF kind = "embed" THEN Backoff ELSE Delay(h))

Wake ==
  /\ step = "sleep"
  /\ step' = "ready"
  /\ UNCHANGED <<kind, attempt, prompt, sent, acted, blind, open, reply, slept>>

\* The request times out or its connection breaks.  Neither loop repeats it; what
\* has left may still reach the server.  (Mutants: send_embed repeats it; the client
\* has a timeout for the connection only.)
NoAnswerEmbedRepeated ==
  /\ InFlight /\ reply' = "lost"
  /\ IF kind = "embed" /\ attempt < MaxAttempts THEN Sleep(Backoff) ELSE End("failed")
  /\ open' \in {0, 1} /\ (step = "served" => open' = open)
  /\ UNCHANGED <<kind, sent, acted, blind>>
NoAnswerToConnect ==
  /\ step = "waiting" /\ reply' = "lost"
  /\ End("failed")
  /\ open' \in {0, 1}
  /\ UNCHANGED <<kind, sent, acted, blind>>

NoAnswer ==
  /\ InFlight /\ reply' = "lost"
  /\ End("failed")
  /\ open' \in {0, 1} /\ (step = "served" => open' = 0)
  /\ UNCHANGED <<kind, sent, acted, blind>>

\* The server acts on a request nobody waits for any more.
LateEffect ==
  /\ open = 1
  /\ open' = 0 /\ acted' = acted + 1
  /\ UNCHANGED <<kind, step, attempt, prompt, sent, blind, reply, slept>>

\* The call has returned and the server is done with its requests.
Ended == step \in {"succeeded", "failed"} /\ open = 0 /\ UNCHANGED vars

Next ==
  \/ Send \/ Serve \/ Wake \/ NoAnswer \/ LateEffect
  \/ Accepted \/ Invalid \/ Unusable \/ Rejected \/ RateLimitedByDate
  \/ \E h \in Headers : RateLimited(h) \/ ServerError(h)
  \/ Ended

Spec == Init /\ [][Next]_vars

\* The event loop goes on with the call, asyncio.sleep returns, and the timeouts
\* of the clients give up a request which the server never answers.
FairSpec == Spec /\ WF_vars(Send) /\ WF_vars(Wake) /\ WF_vars(NoAnswer)

-----------------------------------------------------------------------------
(* Properties                                                               *)

\* A call costs three requests for each prompt at most, six for a classification:
\* the reprompt starts a loop of its own (deepseek.py:38, 94).
RequestBudget == sent <= MaxAttempts * prompt

\* An embed is in the channel again only if Discord took it and answered with a 5xx:
\* send_embed gives up on one that timed out (discord.py:169), which may be there
\* already or still appear.  One that is reported as sent is there.
EmbedRepeatsNeedServerErrors ==
  kind = "embed" =>
    /\ acted + open <= 1 + blind
    /\ step = "succeeded" => acted >= 1

\* Rate limits and server errors are given up after the third attempt only, also
\* when with_retry cannot read the Retry-After (http.py:24).
TransientFailuresUseAllAttempts ==
  step = "failed" /\ reply \in {"limited", "error"} => attempt = MaxAttempts

\* Whatever a server writes into Retry-After, a poller or a classification sleeps
\* for two minutes a prompt at most (test_with_retry_caps_excessive_retry_after).
SleepsAreBounded ==
  kind # "embed" => slept <= (MaxAttempts - 1) * MaxRetryAfter * prompt

\* What send_embed promises is all that its callers have to deal with: the answer
\* of an embed is one of SendEmbed's, a copy still on its way included, and nothing
\* that happens later turns it into another (discord.py:146).
embedAnswer ==
  IF kind = "embed" /\ step \in {"succeeded", "failed"}
  THEN [returned |-> step = "succeeded", copies |-> acted + open]
  ELSE [returned |-> FALSE, copies |-> -1]

Embed == INSTANCE SendEmbed WITH answer <- embedAnswer

EmbedSpec == Embed!Spec

\* The steps a call may still take at most: the prompts and the attempts left, the
\* way to the end of this attempt, and a late effect.
Remaining ==
  16 * (MaxPrompts - prompt) + 5 * (MaxAttempts - attempt) + open
    + CASE step = "waiting" -> 4 [] step = "served" -> 3 [] step = "sleep" -> 2
        [] step = "ready" -> 1 [] OTHER -> 0

\* Whatever the server does, each step brings the call closer to its end: neither
\* the loop around the prompts nor the ones inside it go round for ever
\* (deepseek.py:38, http.py:34, discord.py:148).
CallsRunOut == [][Remaining' \in Nat /\ Remaining' < Remaining]_vars

\* Every call returns, whatever the server does.
CallEnds == <>(step \in {"succeeded", "failed"})
=============================================================================
