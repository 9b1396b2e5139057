------------------------------- MODULE Service -------------------------------
(***************************************************************************)
(* The service: its calls (Access) and what it makes of mail               *)
(* (Conversation).  The two share no state, so a behaviour is one of       *)
(* either.                                                                 *)
(***************************************************************************)
EXTENDS Access, Conversation

VARIABLE part      \* the one that this behaviour is of
serviceVars == <<vars, conversationVars, part>>

ServiceInit == Init /\ ConversationInit /\ part \in {"calls", "mail"}
ServiceNext ==
  \/ part = "calls" /\ Next /\ UNCHANGED <<conversationVars, part>>
  \/ part = "mail" /\ ConversationNext /\ UNCHANGED <<vars, part>>
ServiceSpec == ServiceInit /\ [][ServiceNext]_serviceVars

\* Both halves are well typed: no call acts on a mailbox that was not resolved, and
\* what the program sends has bounded references.
WellTyped == TypeOK /\ ConversationTypeOK
=============================================================================
