--------------------------- MODULE UnityTcpSender ---------------------------
(***************************************************************************)
(* The outbound half of the endpoint (tcp_sender.py): executor threads     *)
(* hand messages and commands to the one UnityTcpSender object, and every  *)
(* TCP connection has a sender thread that batches them onto its socket.   *)
(*                                                                         *)
(* Threads interleave at every access to shared state: self.queue is read  *)
(* without a lock, once to check it and once more to put into it.          *)
(*                                                                         *)
(* Abstracted: the bytes of an item; the 8 ms wait of the loop, which      *)
(* returns with or without _stream_event, so the event has no effect on    *)
(* what the loop may do next; sender_id and tid, which nothing reads.      *)
(***************************************************************************)
EXTENDS Naturals, Sequences

CONSTANTS
  Conns,         \* the TCP connections of the endpoint's life, each used once
  Callers,       \* threads that call the sender: executor and client threads
  Topics,        \* topics with a RosSubscriber
  StreamTopics,  \* those whose name holds a streaming token (/image, ...)
  None,          \* Python's None
  MaxTopicId,    \* the largest id that struct.pack("<H") takes: 65535
  MaxCalls       \* bound on the calls the callers make

ASSUME SenderAssumption ==
  /\ StreamTopics \subseteq Topics
  /\ None \notin Conns \cup Topics
  /\ MaxTopicId \in Nat
  /\ MaxCalls \in Nat

VARIABLES
  queue,          \* self.queue: the connection whose local_queue it is, or None
  local_queue,    \* per connection, the Queue of its sender_loop
  batch_buffer,   \* per connection, the items of the next sendall
  pending,        \* per connection, the snapshot of the slots being serialized
  halt_event,     \* per connection, shared by its client and sender threads
  spc,            \* per connection, where its sender thread is
  conn,           \* per connection, the state of its socket
  wire,           \* per connection, every item sendall has taken, in order
  topic_to_id,    \* per topic, its id; 0 while it has none
  next_topic_id,
  stream_slots,   \* the dict _stream_slots, in its insertion order
  cpc,            \* per caller, where it is in its call
  job,            \* per caller, the locals of its call
  held,           \* per caller, the queue object it is about to put into
  calls           \* the callers of the calls made so far; numbers the calls

connVars   == <<conn, halt_event>>
senderVars == <<batch_buffer, pending, spc, wire>>
topicVars  == <<topic_to_id, next_topic_id>>
callerVars == <<cpc, job, held, calls>>
vars == <<queue, local_queue, stream_slots,
          connVars, senderVars, topicVars, callerVars>>

-----------------------------------------------------------------------------
(* What goes over a connection. A command stands for each of __log, __warn,*)
(* __error, __response and __topic_list, which are sent the same way.      *)

Item(kind, topic, id, call) ==
  [kind |-> kind, topic |-> topic, id |-> id, call |-> call]

Handshake          == Item("handshake", None, 0, 0)
TopicMap(t, id, n) == Item("topic_map", t, id, n)
Frame(t, id, n)    == Item("frame", t, id, n)
Command(n)         == Item("command", None, 0, n)

NoJob == [topic |-> None, id |-> 0, call |-> 0]

\* The id fits the two bytes of the binary format: struct.pack raises otherwise.
Packs(f) == f.id <= MaxTopicId

\* Where a caller is about to evaluate self.queue.put(...).
PutSites == {"map", "frame", "command"}

\* Where send_unity_message goes once the topic has an id.
AfterId(t) == IF t \in StreamTopics THEN "store" ELSE "frame"

\* The item the put of caller k is for.
ItemOf(k) ==
  CASE cpc[k] = "map"   -> TopicMap(job[k].topic, job[k].id, job[k].call)
    [] cpc[k] = "frame" -> Frame(job[k].topic, job[k].id, job[k].call)
    [] OTHER            -> Command(job[k].call)

\* _stream_slots[topic_id] = message: a key keeps its place when overwritten.
StoreSlot(slots, f) ==
  LET at == {i \in DOMAIN slots : slots[i].id = f.id}
  IN  IF at = {} THEN Append(slots, f)
                 ELSE [i \in DOMAIN slots |-> IF i \in at THEN f ELSE slots[i]]

Init ==
  /\ queue = None
  /\ local_queue  = [c \in Conns |-> <<>>]
  /\ batch_buffer = [c \in Conns |-> <<>>]
  /\ pending      = [c \in Conns |-> <<>>]
  /\ halt_event   = [c \in Conns |-> FALSE]
  /\ spc          = [c \in Conns |-> "none"]
  /\ conn         = [c \in Conns |-> "new"]
  /\ wire         = [c \in Conns |-> <<>>]
  /\ topic_to_id  = [t \in Topics |-> 0]
  /\ next_topic_id = 1
  /\ stream_slots = <<>>
  /\ cpc  = [k \in Callers |-> "idle"]
  /\ job  = [k \in Callers |-> NoJob]
  /\ held = [k \in Callers |-> None]
  /\ calls = <<>>

-----------------------------------------------------------------------------
(* The socket and the client thread, as far as the sender sees them.       *)

\* listen_loop accepts; the client thread starts the sender thread.
Accept(c) ==
  /\ conn[c] = "new"
  /\ conn' = [conn EXCEPT ![c] = "open"]
  /\ spc'  = [spc EXCEPT ![c] = "start"]
  /\ UNCHANGED <<queue, local_queue, stream_slots, halt_event, batch_buffer,
                 pending, wire, topicVars, callerVars>>

\* ClientThread.run ends, on IOError, on any exception of a handler, or
\* because it saw halt_event: its finally sets the event and closes the socket.
\* A sendall that waits for the peer in another thread is not woken by that.
ClientExit(c) ==
  /\ conn[c] \in {"open", "failed"}
  /\ conn' = [conn EXCEPT ![c] = IF @ = "open" THEN "closed" ELSE @]
  /\ halt_event' = [halt_event EXCEPT ![c] = TRUE]
  /\ UNCHANGED <<queue, local_queue, stream_slots, senderVars, topicVars,
                 callerVars>>

\* The peer goes away or the network gives up, whether the socket is closed at
\* this end or not. The sender sees it only in sendall, so that a failure before
\* one is the same as a failure just after it began.
ConnectionFails(c) ==
  /\ conn[c] \in {"open", "closed"}
  /\ spc[c] = "sendall"
  /\ conn' = [conn EXCEPT ![c] = "failed"]
  /\ UNCHANGED <<queue, local_queue, stream_slots, halt_event, senderVars,
                 topicVars, callerVars>>

-----------------------------------------------------------------------------
(* The callers.                                                            *)

Idle(k) ==
  /\ cpc'  = [cpc EXCEPT ![k] = "idle"]
  /\ job'  = [job EXCEPT ![k] = NoJob]
  /\ held' = [held EXCEPT ![k] = None]

\* Every entry point returns at once while there is no connection, which is a
\* stuttering step.
BeginCall(k) ==
  /\ queue # None
  /\ cpc[k] = "idle"
  /\ Len(calls) < MaxCalls
  /\ calls' = Append(calls, k)
  /\ UNCHANGED <<queue, local_queue, stream_slots, connVars, senderVars,
                 topicVars, held>>

SendMessage(k, t) ==
  /\ BeginCall(k)
  /\ cpc' = [cpc EXCEPT ![k] = "register"]
  /\ job' = [job EXCEPT ![k] = [topic |-> t, id |-> 0, call |-> Len(calls')]]

SendCommand(k) ==
  /\ BeginCall(k)
  /\ cpc' = [cpc EXCEPT ![k] = "command"]
  /\ job' = [job EXCEPT ![k] = [topic |-> None, id |-> 0, call |-> Len(calls')]]

\* get_or_register_topic_id, the topic known. One step: it holds topic_lock.
KnownTopicId(k) ==
  LET t == job[k].topic IN
  /\ cpc[k] = "register"
  /\ topic_to_id[t] # 0
  /\ job' = [job EXCEPT ![k] = [topic |-> t, id |-> topic_to_id[t], call |-> @.call]]
  /\ cpc' = [cpc EXCEPT ![k] = AfterId(t)]
  /\ UNCHANGED <<queue, local_queue, stream_slots, connVars, senderVars,
                 topicVars, held, calls>>

\* Fault: the counter is not advanced, so two topics share an id.
SameId(id) == id

\* Fault: the counter has as many values as the id has.
WrappedId(id) == (id + 1) % (MaxTopicId + 1)

NextId(id) == id + 1

\* get_or_register_topic_id, the topic new.
NewTopicId(k) ==
  LET t == job[k].topic IN
  /\ cpc[k] = "register"
  /\ topic_to_id[t] = 0
  /\ topic_to_id' = [topic_to_id EXCEPT ![t] = next_topic_id]
  /\ next_topic_id' = NextId(next_topic_id)
  /\ job' = [job EXCEPT ![k] = [topic |-> t, id |-> next_topic_id, call |-> @.call]]
  /\ cpc' = [cpc EXCEPT ![k] = "map"]
  /\ UNCHANGED <<queue, local_queue, stream_slots, connVars, senderVars,
                 held, calls>>

\* serialize_message_with_topic_id packs the id before self.queue is read.
Serializable(k) == cpc[k] = "frame" => Packs(job[k])

\* self.queue.put(...) first reads self.queue ...
FetchQueue(k) ==
  /\ cpc[k] \in PutSites
  /\ held[k] = None
  /\ Serializable(k)
  /\ queue # None
  /\ held' = [held EXCEPT ![k] = queue]
  /\ UNCHANGED <<queue, local_queue, stream_slots, connVars, senderVars,
                 topicVars, cpc, job, calls>>

\* ... which a sender may have reset since the check (AttributeError), or the
\* id does not fit (struct.error): the exception ends the call.
CallRaises(k) ==
  /\ cpc[k] \in PutSites
  /\ held[k] = None
  /\ ~Serializable(k) \/ queue = None
  /\ Idle(k)
  /\ UNCHANGED <<queue, local_queue, stream_slots, connVars, senderVars,
                 topicVars, calls>>

\* Fault: a LifoQueue.
Push(q, m) == <<m>> \o q

Enqueue(q, m) == Append(q, m)

\* ... and then puts into the queue object it read, active or not.
Put(k) ==
  /\ held[k] # None
  /\ local_queue' = [local_queue EXCEPT ![held[k]] = Enqueue(@, ItemOf(k))]
  /\ IF cpc[k] = "map"
     THEN /\ cpc'  = [cpc EXCEPT ![k] = AfterId(job[k].topic)]
          /\ held' = [held EXCEPT ![k] = None]
          /\ UNCHANGED job
     ELSE Idle(k)
  /\ UNCHANGED <<queue, stream_slots, connVars, senderVars, topicVars, calls>>

\* A streaming topic: overwrite the slot under _stream_slot_lock.
StoreFrame(k) ==
  /\ cpc[k] = "store"
  /\ stream_slots' =
       StoreSlot(stream_slots, Frame(job[k].topic, job[k].id, job[k].call))
  /\ Idle(k)
  /\ UNCHANGED <<queue, local_queue, connVars, senderVars, topicVars, calls>>

-----------------------------------------------------------------------------
(* The sender thread of connection c: sender_loop.                         *)

\* A fresh Queue holding the handshake becomes self.queue.
StartLoop(c) ==
  /\ spc[c] = "start"
  /\ local_queue' = [local_queue EXCEPT ![c] = <<Handshake>>]
  /\ queue' = c
  /\ spc' = [spc EXCEPT ![c] = "loop"]
  /\ UNCHANGED <<stream_slots, connVars, batch_buffer, pending, wire, topicVars,
                 callerVars>>

\* Fault: the loop does not look at halt_event.
NeverHalted(c) == FALSE

Halted(c) == halt_event[c]

\* Fault: get, which blocks while the queue is empty.
DrainQueueBlocks(c) ==
  /\ spc[c] = "loop"
  /\ ~Halted(c)
  /\ local_queue[c] # <<>>
  /\ batch_buffer' = [batch_buffer EXCEPT ![c] = @ \o local_queue[c]]
  /\ local_queue'  = [local_queue EXCEPT ![c] = <<>>]
  /\ spc' = [spc EXCEPT ![c] = "slots"]
  /\ UNCHANGED <<queue, stream_slots, connVars, pending, wire, topicVars,
                 callerVars>>

\* Another turn: wait, then get_nowait until Empty. Only this thread takes from
\* the queue, so the items put while it drains are those put before its last
\* get_nowait; and whether halt_event is set after the test makes no difference
\* until the next turn.
DrainQueue(c) ==
  /\ spc[c] = "loop"
  /\ ~Halted(c)
  /\ batch_buffer' = [batch_buffer EXCEPT ![c] = @ \o local_queue[c]]
  /\ local_queue'  = [local_queue EXCEPT ![c] = <<>>]
  /\ spc' = [spc EXCEPT ![c] = "slots"]
  /\ UNCHANGED <<queue, stream_slots, connVars, pending, wire, topicVars,
                 callerVars>>

\* The while loop ends.
SeeHalt(c) ==
  /\ spc[c] = "loop"
  /\ Halted(c)
  /\ spc' = [spc EXCEPT ![c] = "release"]
  /\ UNCHANGED <<queue, local_queue, stream_slots, connVars, batch_buffer,
                 pending, wire, topicVars, callerVars>>

\* Fault: the slots are copied and not cleared.
KeptSlots == stream_slots

ClearedSlots == <<>>

\* Under _stream_slot_lock, snapshot the slots and clear them.
TakeSlots(c) ==
  /\ spc[c] = "slots"
  /\ pending' = [pending EXCEPT ![c] = stream_slots]
  /\ stream_slots' = ClearedSlots
  /\ spc' = [spc EXCEPT ![c] = "send"]
  /\ UNCHANGED <<queue, local_queue, connVars, batch_buffer, wire, topicVars,
                 callerVars>>

\* Fault: a frame goes before the rest of the batch.
PutFrameFirst(batch, f) == IF Packs(f) THEN <<f>> \o batch ELSE batch

\* A frame that does not serialize is logged and lost.
PutFrame(batch, f) == IF Packs(f) THEN Append(batch, f) ELSE batch

\* One turn of the for loop.
SerializeFrame(c) ==
  /\ spc[c] = "send"
  /\ pending[c] # <<>>
  /\ pending' = [pending EXCEPT ![c] = Tail(@)]
  /\ batch_buffer' = [batch_buffer EXCEPT ![c] = PutFrame(@, Head(pending[c]))]
  /\ UNCHANGED <<queue, local_queue, stream_slots, connVars, spc, wire,
                 topicVars, callerVars>>

\* Nothing to send: no sendall.
SendNothing(c) ==
  /\ spc[c] = "send"
  /\ pending[c] = <<>>
  /\ batch_buffer[c] = <<>>
  /\ spc' = [spc EXCEPT ![c] = "loop"]
  /\ UNCHANGED <<queue, local_queue, stream_slots, connVars, batch_buffer,
                 pending, wire, topicVars, callerVars>>

\* conn.sendall(...) is called and blocks: the socket has no timeout.
BeginSend(c) ==
  /\ spc[c] = "send"
  /\ pending[c] = <<>>
  /\ batch_buffer[c] # <<>>
  /\ conn[c] = "open"
  /\ spc' = [spc EXCEPT ![c] = "sendall"]
  /\ UNCHANGED <<queue, local_queue, stream_slots, connVars, batch_buffer,
                 pending, wire, topicVars, callerVars>>

\* sendall raises, n items of the batch having gone: clear, break, and set
\* halt_event in the finally.
BreakOff(c, n) ==
  /\ wire' = [wire EXCEPT ![c] = @ \o SubSeq(batch_buffer[c], 1, n)]
  /\ batch_buffer' = [batch_buffer EXCEPT ![c] = <<>>]
  /\ halt_event' = [halt_event EXCEPT ![c] = TRUE]
  /\ spc' = [spc EXCEPT ![c] = "release"]
  /\ UNCHANGED <<queue, local_queue, stream_slots, conn, pending, topicVars,
                 callerVars>>

\* sendall on a socket that the client thread has closed raises at once.
SendRefused(c) ==
  /\ spc[c] = "send"
  /\ pending[c] = <<>>
  /\ batch_buffer[c] # <<>>
  /\ conn[c] = "closed"
  /\ BreakOff(c, 0)

\* The peer read on until sendall had handed over the whole batch. That the
\* socket was closed meanwhile does not matter.
SendBatch(c) ==
  /\ spc[c] = "sendall"
  /\ conn[c] # "failed"
  /\ wire' = [wire EXCEPT ![c] = @ \o batch_buffer[c]]
  /\ batch_buffer' = [batch_buffer EXCEPT ![c] = <<>>]
  /\ spc' = [spc EXCEPT ![c] = "loop"]
  /\ UNCHANGED <<queue, local_queue, stream_slots, connVars, pending, topicVars,
                 callerVars>>

\* Fault: no break after a failed sendall.
SendFailsNoBreak(c) ==
  /\ spc[c] = "sendall"
  /\ conn[c] # "open"
  /\ \E n \in 0 .. Len(batch_buffer[c]) :
       /\ n < Len(batch_buffer[c])
       /\ wire' = [wire EXCEPT ![c] = @ \o SubSeq(batch_buffer[c], 1, n)]
  /\ batch_buffer' = [batch_buffer EXCEPT ![c] = <<>>]
  /\ spc' = [spc EXCEPT ![c] = "loop"]
  /\ UNCHANGED <<queue, local_queue, stream_slots, connVars, pending, topicVars,
                 callerVars>>

\* sendall raises after the socket took some of the batch: the connection
\* failed, or the socket was closed before its next send.
SendFails(c) ==
  /\ spc[c] = "sendall"
  /\ conn[c] # "open"
  /\ \E n \in 0 .. Len(batch_buffer[c]) :
       n < Len(batch_buffer[c]) /\ BreakOff(c, n)

\* Fault: the queue of a sender that has ended stays self.queue.
QueueKept(c) == queue

\* Only its own queue is reset.
QueueReleased(c) == IF queue = c THEN None ELSE queue

\* Fault: the sender waits for its queue to be emptied: join.
ReleaseQueueJoins(c) ==
  /\ spc[c] = "release"
  /\ local_queue[c] = <<>>
  /\ queue' = QueueReleased(c)
  /\ spc' = [spc EXCEPT ![c] = "done"]
  /\ UNCHANGED <<local_queue, stream_slots, connVars, batch_buffer,
                 pending, wire, topicVars, callerVars>>

\* The finally, under queue_lock.
ReleaseQueue(c) ==
  /\ spc[c] = "release"
  /\ queue' = QueueReleased(c)
  /\ spc' = [spc EXCEPT ![c] = "done"]
  /\ UNCHANGED <<local_queue, stream_slots, connVars, batch_buffer,
                 pending, wire, topicVars, callerVars>>

-----------------------------------------------------------------------------
CallerStep(k) ==
  \/ KnownTopicId(k)
  \/ NewTopicId(k)
  \/ FetchQueue(k)
  \/ CallRaises(k)
  \/ Put(k)
  \/ StoreFrame(k)

\* What the sender thread does by itself.
SenderStep(c) ==
  \/ StartLoop(c)
  \/ DrainQueue(c)
  \/ SeeHalt(c)
  \/ TakeSlots(c)
  \/ SerializeFrame(c)
  \/ SendNothing(c)
  \/ BeginSend(c)
  \/ SendRefused(c)
  \/ ReleaseQueue(c)

\* How a sendall ends.
SendEnds(c) == SendBatch(c) \/ SendFails(c)

Next ==
  \/ \E c \in Conns : \/ Accept(c) \/ ClientExit(c) \/ ConnectionFails(c)
                      \/ SenderStep(c) \/ SendEnds(c)
  \/ \E k \in Callers : SendCommand(k) \/ CallerStep(k)
  \/ \E k \in Callers, t \in Topics : SendMessage(k, t)

Spec == Init /\ [][Next]_vars

\* The operating system schedules every thread that can run, and wakes a
\* sendall when its connection has failed. Nothing obliges a peer to connect,
\* to read, to leave or to answer, or ROS to deliver a message: a sendall whose
\* peer stays and does not read never ends.
Fairness ==
  /\ \A c \in Conns : /\ WF_vars(SenderStep(c))
                      /\ WF_vars(conn[c] = "failed" /\ SendFails(c))
  /\ \A k \in Callers : WF_vars(CallerStep(k))

FairSpec == Spec /\ Fairness

-----------------------------------------------------------------------------
(* Properties.                                                             *)

Kinds == {"handshake", "topic_map", "frame", "command"}
Items == [kind : Kinds, topic : Topics \cup {None}, id : Nat, call : Nat]
Jobs  == [topic : Topics \cup {None}, id : Nat, call : Nat]

\* A sender thread between StartLoop and the reset of self.queue.
Running == {"loop", "slots", "send", "sendall", "release"}

TypeOK ==
  /\ queue \in Conns \cup {None}
  /\ local_queue  \in [Conns -> Seq(Items)]
  /\ batch_buffer \in [Conns -> Seq(Items)]
  /\ pending      \in [Conns -> Seq(Items)]
  /\ wire         \in [Conns -> Seq(Items)]
  /\ stream_slots \in Seq(Items)
  /\ halt_event   \in [Conns -> BOOLEAN]
  /\ spc  \in [Conns -> Running \cup {"none", "start", "done"}]
  /\ conn \in [Conns -> {"new", "open", "closed", "failed"}]
  /\ topic_to_id \in [Topics -> Nat]
  /\ next_topic_id \in Nat \ {0}
  /\ cpc  \in [Callers -> PutSites \cup {"idle", "register", "store"}]
  /\ job  \in [Callers -> Jobs]
  /\ held \in [Callers -> Conns \cup {None}]
  /\ calls \in Seq(Callers)

\* The handshake is the first thing on every connection and is sent on it once,
\* however early other threads use the queue and whatever slots a previous
\* connection left behind.
HandshakeFirst ==
  \A c \in Conns : \A i \in DOMAIN wire[c] :
    wire[c][i].kind = "handshake" <=> i = 1

\* What Unity reads decodes to what ROS sent: the id on a frame or in a map is
\* the id of its topic, it is no other topic's, and on a frame it fits the two
\* bytes of the binary format.
WireDecodes ==
  \A c \in Conns : \A i \in DOMAIN wire[c] :
    LET m == wire[c][i] IN
    m.kind \in {"topic_map", "frame"} =>
      /\ \A t \in Topics : topic_to_id[t] = m.id <=> t = m.topic
      /\ m.kind = "frame" => Packs(m)

\* Nothing but the handshake is sent twice, on one connection or on two, though
\* the sender threads of overlapping connections share the slots.
SentAtMostOnce ==
  \A c, d \in Conns : \A i \in DOMAIN wire[c], j \in DOMAIN wire[d] :
    (wire[c][i] = wire[d][j] /\ i # 1) => (c = d /\ i = j)

\* self.queue never refers to the queue of a sender thread that has ended, so
\* no call that checks it afterwards writes into a queue nobody will drain.
QueueHasSender == queue # None => spc[queue] \in Running

\* One thread handed over both.
SameCaller(m, n) == calls[m.call] = calls[n.call]

\* The messages that one thread hands over on a topic reach each connection in the
\* order in which ROS delivered them, dropped frames apart; with one executor
\* thread (ROS_TCP_EXECUTOR_THREADS=1) all of them do.
TopicOrder ==
  \A c \in Conns : \A i, j \in DOMAIN wire[c] :
    LET m == wire[c][i]
        n == wire[c][j]
    IN (/\ i < j
        /\ m.kind = "frame" /\ n.kind = "frame"
        /\ m.topic = n.topic
        /\ SameCaller(m, n)) => m.call < n.call

\* A connection that carries the map of a topic which goes through the queue
\* carries it before every message that the same thread hands over on that topic.
MapBeforePlain ==
  \A c \in Conns : \A i, j \in DOMAIN wire[c] :
    LET m == wire[c][i]
        n == wire[c][j]
    IN (/\ m.kind = "topic_map" /\ n.kind = "frame"
        /\ m.topic = n.topic /\ m.topic \notin StreamTopics
        /\ SameCaller(m, n)) => i < j

\* tcp_sender.py:220, "Drain command queue first so __topic_map arrives before
\* stream frames". It does not: a caller can put the map and fill the slot
\* between the drain of the queue and that of the slots.
MapBeforeFrames ==
  \A c \in Conns : \A i \in DOMAIN wire[c] :
    (wire[c][i].kind = "frame" /\ wire[c][i].topic \in StreamTopics) =>
      \E j \in 1 .. i - 1 : /\ wire[c][j].kind = "topic_map"
                            /\ wire[c][j].topic = wire[c][i].topic

\* tcp_sender.py:43, "this is always the queue for the currently active thread".
\* It is None while a sender serves an open connection if a later connection
\* has come and gone, and that sender gets nothing more to send.
ActiveSenderHasQueue ==
  (\E c \in Conns : spc[c] \in Running /\ conn[c] = "open" /\ ~halt_event[c])
    => queue # None

\* No sendall on c waits for ever for a peer that neither reads nor fails.
PeerReadsOrFails(c) == []<>(spc[c] = "sendall" => conn[c] = "failed")

\* A connection that halts stops being the one callers write to, and its sender
\* thread ends, if its peer reads or fails.
HaltReleases ==
  \A c \in Conns : PeerReadsOrFails(c) =>
    ((halt_event[c] /\ spc[c] # "none") ~> (spc[c] = "done" /\ queue # c))

\* Nothing stays in a queue while its sender runs, whose peer reads or fails ...
QueueDrains ==
  \A c \in Conns : PeerReadsOrFails(c) =>
    (local_queue[c] # <<>> ~> (local_queue[c] = <<>> \/ spc[c] = "done"))

\* ... nor in the slots while any such sender runs, though the peer of another
\* connection may never read again.
SlotsDrain ==
  \A c \in Conns : PeerReadsOrFails(c) =>
    (stream_slots # <<>> ~> (stream_slots = <<>> \/ spc[c] \notin Running))

-----------------------------------------------------------------------------
(* Refinement: each connection is a ReliableChannel.                       *)

Channel == INSTANCE ReliableChannel WITH
  Greeting  <- Handshake,
  offered   <- {ItemOf(k) : k \in {j \in Callers : held[j] # None}},
  frames    <- [c \in Conns |-> {pending[c][i] : i \in DOMAIN pending[c]}],
  waiting   <- [c \in Conns |-> batch_buffer[c] \o local_queue[c]],
  delivered <- wire,
  status    <- [c \in Conns |->
                  IF spc[c] \in {"none", "start"} THEN "new"
                  ELSE IF spc[c] \in {"release", "done"} THEN "dead" ELSE "open"]

ChannelSpec == Channel!Spec
=============================================================================
