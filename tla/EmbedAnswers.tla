---------------------------- MODULE EmbedAnswers ----------------------------
(***************************************************************************)
(* What a call of DiscordClient.send_embed can come to: what it returns,   *)
(* and how often the embed is in the channel in the end.  A request that   *)
(* times out after Discord has taken it returns False all the same         *)
(* (discord.py:169), one that Discord takes and answers with a 5xx is sent *)
(* again (discord.py:164), so that either result may stand for up to three *)
(* copies; True stands for one at least.                                   *)
(***************************************************************************)
EXTENDS Integers

MaxCopies == 3   \* max_attempts

Answer == {a \in [returned : BOOLEAN, copies : 0 .. MaxCopies] : a.returned => a.copies > 0}

\* The copies which the caller does not know of.
Unconfirmed(a) == IF a.returned THEN a.copies - 1 ELSE a.copies
=============================================================================
