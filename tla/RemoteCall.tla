----------------------------- MODULE RemoteCall -----------------------------
(***************************************************************************)
(* What a call of a remote service promises. A call gets an id of its own. *)
(* Its request is sent, or the call fails before it is. The remote end     *)
(* answers what it was asked, as often as it likes, and any answer may get *)
(* lost. A call gets an answer at most once, to its own request, and       *)
(* returns when it has one, and not before.                                *)
(***************************************************************************)
CONSTANT Ids  \* the ids of all calls

VARIABLES
  issued,    \* the ids that were given out
  asking,    \* those of the calls whose request is not sent yet
  waiting,   \* those of the calls that were sent and have no answer
  answered,  \* those of the calls that have one
  returned,  \* those of the calls that returned it
  answers    \* the ids of the answers on their way

callVars == <<issued, asking, waiting, answered, returned, answers>>

Init ==
  /\ issued = {}
  /\ asking = {}
  /\ waiting = {}
  /\ answered = {}
  /\ returned = {}
  /\ answers = {}

Issue(id) ==
  /\ id \notin issued
  /\ issued' = issued \cup {id}
  /\ asking' = asking \cup {id}
  /\ UNCHANGED <<waiting, answered, returned, answers>>

\* The call fails, and nothing was asked.
GiveUp(id) ==
  /\ id \in asking
  /\ asking' = asking \ {id}
  /\ UNCHANGED <<issued, waiting, answered, returned, answers>>

Ask(id) ==
  /\ id \in asking
  /\ asking' = asking \ {id}
  /\ waiting' = waiting \cup {id}
  /\ UNCHANGED <<issued, answered, returned, answers>>

\* The remote end answers, for the first time or again.
Answer(id) ==
  /\ id \in waiting \cup answered \cup returned
  /\ answers' = answers \cup {id}
  /\ UNCHANGED <<issued, asking, waiting, answered, returned>>

Lose ==
  /\ answers' \in SUBSET answers
  /\ UNCHANGED <<issued, asking, waiting, answered, returned>>

\* The call gets its answer. There may be another one behind it.
Deliver(id) ==
  /\ id \in waiting
  /\ id \in answers
  /\ waiting' = waiting \ {id}
  /\ answered' = answered \cup {id}
  /\ answers' \in {answers, answers \ {id}}
  /\ UNCHANGED <<issued, asking, returned>>

Return(id) ==
  /\ id \in answered
  /\ answered' = answered \ {id}
  /\ returned' = returned \cup {id}
  /\ UNCHANGED <<issued, asking, waiting, answers>>

Next ==
  \/ \E id \in Ids : \/ Issue(id)
                     \/ GiveUp(id)
                     \/ Ask(id)
                     \/ Answer(id)
                     \/ Deliver(id)
                     \/ Return(id)
  \/ Lose

Spec == Init /\ [][Next]_callVars
=============================================================================
