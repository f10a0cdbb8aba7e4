----------------------------- MODULE MCRegistry -----------------------------
(* Registry on a small instance.                                           *)
EXTENDS Registry

CONSTANTS c1, c2, chatter, broken

MCTables == {"publishers", "subscribers"}

\* Both clients subscribe to chatter; c1 alone registers a publisher for it, and
\* one whose constructor may raise. Either may publish on both.
MCRegisters ==
  [c \in Clients |->
     {<<"subscribers", chatter>>} \cup
     IF c = c1 THEN {<<"publishers", chatter>>, <<"publishers", broken>>} ELSE {}]
=============================================================================
