------------------------------- MODULE Discord -------------------------------
(***************************************************************************)
(* Discord as a job of the notifier service meets it: send_embed comes to  *)
(* any of its answers, and what goes wrong on the way is counted.          *)
(***************************************************************************)
EXTENDS EmbedAnswers

CONSTANT MaxMishaps   \* how often each kind of mishap may happen

MishapKinds == {"stop", "refused", "unconfirmed", "requeue"}

ASSUME MaxMishapsAssumption == MaxMishaps \in [MishapKinds -> Nat]

VARIABLE mishaps      \* mishaps[k]: mishaps of kind k so far

Mishap(k) == mishaps[k] < MaxMishaps[k] /\ mishaps' = [mishaps EXCEPT ![k] = @ + 1]

\* A refused embed is one mishap, a copy nobody knows of is one each.
Answered(a) ==
  IF a.copies = 0 THEN Mishap("refused")
  ELSE /\ mishaps["unconfirmed"] + Unconfirmed(a) <= MaxMishaps["unconfirmed"]
       /\ mishaps' = [mishaps EXCEPT !["unconfirmed"] = @ + Unconfirmed(a)]
=============================================================================
