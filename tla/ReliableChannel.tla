--------------------------- MODULE ReliableChannel ---------------------------
(***************************************************************************)
(* What a connection promises. What was offered for its queue is delivered *)
(* in the order it was accepted, once, and with no gap. What was offered   *)
(* as a frame is urgent: it may overtake anything that waits. A connection *)
(* that fails may lose what was waiting, and delivers nothing more.        *)
(***************************************************************************)
EXTENDS Naturals, Sequences

CONSTANTS Conns, Greeting

VARIABLES
  offered,    \* an input: the items about to be handed over for a queue
  frames,     \* an input: per connection, the frames about to be handed over
  waiting,    \* per connection, what was accepted and is not delivered
  delivered,  \* per connection, what was delivered
  status      \* per connection, "new", "open" or "dead"

chanVars == <<waiting, delivered, status>>

Init ==
  /\ waiting   = [c \in Conns |-> <<>>]
  /\ delivered = [c \in Conns |-> <<>>]
  /\ status    = [c \in Conns |-> "new"]

\* A connection opens with its greeting at the head.
Open(c) ==
  /\ status[c] = "new"
  /\ status'  = [status EXCEPT ![c] = "open"]
  /\ waiting' = [waiting EXCEPT ![c] = <<Greeting>>]
  /\ UNCHANGED delivered

Accept(c) ==
  /\ status[c] # "new"
  /\ \E m \in offered : waiting' = [waiting EXCEPT ![c] = Append(@, m)]
  /\ UNCHANGED <<delivered, status>>

\* A frame goes in at any place.
Overtake(c) ==
  /\ status[c] = "open"
  /\ \E f \in frames[c], n \in 0 .. Len(waiting[c]) :
       waiting' = [waiting EXCEPT ![c] = SubSeq(@, 1, n) \o <<f>>
                                           \o SubSeq(@, n + 1, Len(@))]
  /\ UNCHANGED <<delivered, status>>

Deliver(c) ==
  /\ status[c] = "open"
  /\ \E n \in 1 .. Len(waiting[c]) :
       /\ delivered' = [delivered EXCEPT ![c] = @ \o SubSeq(waiting[c], 1, n)]
       /\ waiting' = [waiting EXCEPT ![c] = SubSeq(@, n + 1, Len(@))]
  /\ UNCHANGED status

\* i items still get through, those up to j are gone, the rest is never sent.
Fail(c) ==
  /\ status[c] = "open"
  /\ status' = [status EXCEPT ![c] = "dead"]
  /\ \E j \in 0 .. Len(waiting[c]) : \E i \in 0 .. j :
       /\ delivered' = [delivered EXCEPT ![c] = @ \o SubSeq(waiting[c], 1, i)]
       /\ waiting' = [waiting EXCEPT ![c] = SubSeq(@, j + 1, Len(@))]

Next ==
  \E c \in Conns :
    Open(c) \/ Accept(c) \/ Overtake(c) \/ Deliver(c) \/ Fail(c)

Spec == Init /\ [][Next]_chanVars
=============================================================================
