------------------------------ MODULE SendEmbed ------------------------------
(***************************************************************************)
(* What DiscordClient.send_embed promises to its callers: at some point it *)
(* has come to one of the answers, and stays at it.                        *)
(***************************************************************************)
EXTENDS EmbedAnswers

VARIABLE answer   \* Pending, or what the call came to

Pending == [returned |-> FALSE, copies |-> -1]

Init == answer = Pending

Return == answer = Pending /\ answer' \in Answer

Spec == Init /\ [][Return]_answer
=============================================================================
