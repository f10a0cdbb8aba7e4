# ROS TCP Endpoint in TLA+

ROS TCP Endpoint is a ROS 2 node that connects a ROS graph to Unity applications over TCP. This
directory holds TLA+ models of its core, the TLC runs that check them on small instances, and TLAPS
proofs of their main properties for every value of the constants. Paths below are relative to
`src/ros_tcp_endpoint/` of the repository.

## 1. The system

```
 ROS graph                          endpoint process                                 Unity
 ---------   executor threads  ----------------------------   sender thread  ----------------
 topics  --> RosSubscriber.send -> UnityTcpSender.queue/slots -> sender_loop -> socket -> reads
 clients --> UnityService.send  -> services_waiting + queue        ...             |
 topics  <-- RosPublisher.send  <- ClientThread.run  <- read_message <- socket <---+ writes
 services<-- RosService.send    <- service_call_thread
                                   SysCommands -> four tables
```

| Component | State | Operations | Hard behaviour |
|---|---|---|---|
| `UnityTcpSender` (tcp_sender.py) | `queue`, `topic_to_id`, `next_topic_id`, `_stream_slots`, `services_waiting`, `next_srv_id` | `send_unity_*`, `send_topic_list`, `send_ros_service_response`, `start_sender`, `sender_loop` | executor, client and service threads share the object; `queue` is checked and used without its lock; sender threads of overlapping connections share the slots |
| `ClientThread` (client.py) | `conn`, `halt_event` | `run`, `read_message`, `send_ros_service_request`, `service_call_thread` | one per connection, all on the same server state; any exception but `IOError` ends it too |
| `TcpServer` (server.py) | four tables, `pending_srv_id`, `pending_srv_is_request` | `listen_loop`, `handle_syscommand`, delegation | no locks |
| `SysCommands` (server.py) | none of its own | `subscribe`, `publish`, `ros_service`, `unity_service`, `request`, `response`, `topic_list` | look up, unregister, construct and store are separate steps |
| `UnityService`, `ThreadPauser` | `condition`, `result` | `send`, `sleep_until_resumed`, `resume_with_result` | a wait without a predicate |
| `RosService` (service.py) | `client` | `send`, `unregister` | timeout and retry; unregistered while in use |
| `RosSubscriber` (subscriber.py) | `_last_sent_time`, `sub` | `send`, `unregister` | reentrant callbacks |
| `RosPublisher` (publisher.py) | `pub` | `send`, `unregister` | destroyed while in use |
| wire format (client.py) | the byte stream | `serialize_*`, `read_message`, `recvall` | partial reads, the -1 marker, two-byte ids |
| `ZeroCopyBuffer` (zero_copy.py) | `write_offset`, `enabled` | `initialize`, `write_message`, `read_message`, `close` | wrap-around; nothing uses it in this version |

What makes each component correct:

* **Sender.** Unity reads on every connection the handshake and then, once each and in order, what was
  put into its queue; an id on the wire means one topic; `self.queue` is never a queue nobody drains; a
  connection that ends is let go of; nothing stays behind while a sender runs whose peer reads.
* **Service calls.** Every call has an id of its own; a response finds its caller, wakes it once, and is
  the answer to that call; a request of Unity reaches the service with its own payload.
* **Registry.** A topic has one live ROS entity, which the table knows; a dead entry is on its way to be
  replaced; the client that registers a topic can publish on it.
* **RosService.** A request is run at most three times; Unity hears of it once, a response or an error, and
  never gets the answer to an attempt that was given up; every thread ends.
* **Throttle and QoS.** No more messages per interval than the rate and the overlap of callbacks allow; no
  message dropped without cause; what the callbacks of a replaced subscription still forward runs out.
* **Wire format.** However the bytes arrive, messages come out as they went in; the end of a connection is
  noticed.
* **Zero-copy buffer.** A reference leads to its payload as long as the ring has not come round.

## 2. Modules

| Module | Models |
|---|---|
| `ReliableChannel` | abstract: what one connection promises |
| `UnityTcpSender` | the outbound half, thread by thread; `ChannelSpec` is its refinement of `ReliableChannel` |
| `RemoteCall` | abstract: what a call of a remote service promises |
| `UnityServiceCalls` | service calls between ROS and Unity, with the inbound dispatcher; `CallSpec` is its refinement of `RemoteCall` |
| `RosServiceCalls` | the thread per request of Unity to a ROS service: attempts, waits, late answers |
| `Registry` | the four tables and the commands that fill them |
| `RosSubscriber` | a subscription's callbacks and their throttle |
| `TopicPolicy` | which throttle and QoS the name of a topic gets |
| `WireFormat` | framing: messages to bytes and back |
| `ZeroCopyBuffer` | the ring for large payloads |
| `UnityTcpSenderProofs`, `UnityTcpSenderOrder`, `UnityServiceCallsProofs`, `RosServiceCallsProofs`, `RegistryProofs`, `RosSubscriberProofs`, `WireFormatProofs`, `ZeroCopyBufferProofs` | theorems |
| `MC*` | instances for TLC; `MCBytes` runs `WireFormat` and `ZeroCopyBuffer` side by side |

### UnityTcpSender

One variable per field or local of the code, under its name: `queue`, `local_queue`, `batch_buffer`,
`pending`, `halt_event`, `topic_to_id`, `next_topic_id`, `stream_slots`. `cpc`/`job`/`held` are the
place and locals of each caller, `spc` the place of each sender thread, `conn` its socket, and `wire`
everything `sendall` has handed over. Steps are as fine as the shared state needs:

* `send_unity_message` is `SendMessage`, `NewTopicId` or `KnownTopicId` (atomic, it holds `topic_lock`),
  then `FetchQueue` and `Put` for the map, and `StoreFrame` or again `FetchQueue` and `Put` for the message.
  `self.queue.put(x)` is two steps because another thread may reset `self.queue` in between: then the code
  raises `AttributeError` (`CallRaises`), or puts into the queue of a dead connection.
* All other `send_unity_*` calls have the shape check, serialize, put: `SendCommand`.
* `sender_loop` is `StartLoop`, and per turn `DrainQueue`, `TakeSlots`, `SerializeFrame` per frame, then
  `SendNothing` or the `sendall`, and at the end `SeeHalt` and `ReleaseQueue`.
* `conn.sendall` (tcp_sender.py:245) is blocking and has no timeout. `SendRefused` is the call on a socket
  that the client thread has closed; otherwise `BeginSend` enters the call, and it leaves it with the whole
  batch when the peer has read enough (`SendBatch`) or with a part of it (`SendFails`) once the connection
  has failed (`ConnectionFails`) or was closed. The client thread's `conn.close()` (client.py:313) makes no
  call that is in progress end: it may go on for ever.

Left out: bytes; `_stream_event`, since the wait times out after 8 ms whether it is set or not. So the
models say nothing of how soon a frame goes out, and a lost wakeup of that event, 8 ms of delay, cannot be
seen in them. Also left out is `sender_id`, which nothing reads. What rclpy does with an exception of a
callback is rclpy's; here it ends the call. Frames are put on the wire by one action per frame, which is
what the `for` loop does.

`ReliableChannel` says that what is offered for a queue is delivered in order, once and with no gap
until the connection fails, and that a frame may overtake what waits. The refinement mapping takes
`waiting` to be `batch_buffer \o local_queue`, so draining the queue is a stutter, and the abstract
channel "fails" when the sender thread leaves its loop.

### UnityServiceCalls

`services_waiting`, `next_srv_id`, `pending_srv_id` and `pending_srv_is_request` are the code's. A
callback thread goes through `BeginCall`, `AllocSrvId`, `FetchQueue`, `Put`, `Sleep`, `Return`; the put
precedes the sleep, as in the code. A client thread reads a message and dispatches it: the test of
`pending_srv_id`, the assignments of the command, the test of the flag, the use of the id and its reset
are separate steps, because client threads of overlapping connections share these fields. Unity and
the network are external: Unity answers requests of one connection in order (`UnityAnswers`), may answer
one a second time (`UnityAnswersTwice`), which finds no waiter and ends the client thread, sends requests and
other messages of its own (`UnitySends`), and a connection may break at any time. That
requests arrive in order, once, is what `UnityTcpSender` is shown to give. A request for a service that is not
registered is answered by an error: `send_unity_error` tests `self.queue` (`TestErrorQueue`) and reads it again to put
(`PutError`); when it has been reset between the two, the exception ends the client thread with `pending_srv_id`
still set (`PutErrorRaises`). By default rclpy runs the
service callbacks of a node one at a time; the model lets them overlap, which includes that.

`RemoteCall` says that a call sends its request or fails, gets at most one answer, one that was given to
this very request, and returns when it has that and not before; answers may be lost, and the remote end may
answer again. The refinement mapping finds a call by its id: it is asking at `put`, then waiting until its
`ThreadPauser` has Unity's answer as the result, then answered, and returned when `returned` has that
answer under its id. A call that returned anything else would leave the sets without a trace, which no step of
`RemoteCall` does. Answers on their way are those not read and those a client thread holds. It holds for
one connection; `RemoteCall` does not promise that a call ends (`lost_wakeup`).

### Registry

`entry` is the four tables, `live` the ROS entities that exist in the node, `unset` those whose handle
the object has set to `None`. The four commands have the same body, so one sequence of actions stands
for all of them, over slots `<<table, topic>>`: `Register`, `LookUp`, `Destroy`, `Unset`, `Create` or
`CreateRaises`, `Put`. `map` names one copy of the code for each. `Registers` says which client sends
registrations for which slots; a slot one client registers is *owned*. Commands that are refused
change nothing but an error message, and are stuttering steps. `Publish` through a destroyed publisher
raises and ends the client thread.

### RosServiceCalls

One service, any number of requests. `pc`, `attempt` and `calls` are the thread of a request in
`RosService.send`; a future is named by request and number of the call, since each `call_async` makes a
new one. `ServiceMissing` and `SpinFails` are the two timeouts: a wait may end as soon as it begins.
`WaitRaises` and `CallRaises` are the same exception outside and inside of the `try`: the first ends the
thread without a word to Unity, the second counts as an attempt. The service is external: it comes and
goes, runs a call at any later time, and its answer may be lost or late. `QueueChanges` lets
`self.queue` become any connection or `None` at any time, which is more than `UnityTcpSender` allows.
A put on `None` raises, but it is the last thing the thread does, so it is the same as no connection.
`Register` and `Unregister` are `Create` and `Destroy` of `Registry`.

### RosSubscriber and TopicPolicy

`TopicPolicy` keeps both tables of subscriber.py in their order. A name is the set of the tokens found
in it; time is in ticks of 1/60 s, in which every interval of the table is whole (2 for 30 Hz, 3 for 20 Hz and so on).
In `RosSubscriber` a callback is `Deliver` (which takes `now`), `Pass` or `Drop`, `Stamp` and `Forward`, each a
step of its own, as the group is reentrant. `sub` numbers the objects that registrations make; a
callback goes on with the object it began in. `Forward` is the test of `self.queue` in
`send_unity_message`; what follows is `UnityTcpSender`. `SubscriberQoS` decides whether the topic's publisher and
the subscription match, without which nothing is delivered.

### WireFormat

`step`, `want` and `buffer` are `read_message` and the `recvall` it is in. `Receive` takes any part of what
has arrived, `Close` ends the stream anywhere. Bytes have `Base` values, an int32 has `IntBytes` of them and
a topic id `IdBytes`; with 4, 2 and 1 an instance has markers, negative lengths and sizes above the signed
range at a few bytes each (`Power[n]` is `Base` to the n, a recursive function so that it can be proved
about). Each field of `read_message` is an action. A length whose bytes read as a negative number other than
-1 reaches `bytearray(size)` (client.py:61), which raises: `LengthRaises` ends the thread. The instance has
a name of such a length (`Refused`); nothing after it is read. Unity's serializer is taken to be the one of
client.py, whose format both sides share.

client.py:103 says that `read_message` "Supports both topic string and topic ID formats". The second is
parsed, but its destination `__topicid_N` is then run as a system command, which does not exist: the
`AttributeError` ends the thread (client.py:294, server.py:138). `ReadData` does so, and
`EveryMessageRead` stops there.

### ZeroCopyBuffer

`mem` names per byte the write that filled it. `Write` and `WriteRefused` are `write_message`, whose reset of
`write_offset` happens before the size is refused. Two history variables: `guarded`, every write so far
was one that `can_use_zero_copy` allowed; and `asked`, how many bytes were to be written before each write,
from which `RecentIntact` tells how far the ring has come since.

## 3. Runs

| Run | Instance | Shows |
|---|---|---|
| `sender` | 2 connections that may overlap, 2 callers, a streaming and a plain topic, id space of 1, 2 calls | `TypeOK`, `HandshakeFirst`, `WireDecodes`, `SentAtMostOnce`, `QueueHasSender`, `TopicOrder`, `MapBeforePlain`, and `ChannelSpec` |
| `sender_live` | 2 connections, 1 caller, 1 streaming topic, 2 calls, fair | `HaltReleases`, `QueueDrains`, `SlotsDrain`, each for a connection whose peer reads or fails |
| `service` | 1 connection, 2 callbacks, 3 calls, 1 message (a request to a service, known or not, or another) or second answer nobody asked for, fair | `TypeOK`, `NotForgotten`, `ReturnsOnce`, `AnswersMatch`, `RequestsMatch`, `SleeperReturns`, and `CallSpec` |
| `registry` | 2 clients, a topic both register, one that one owns, one whose constructor may raise; 4 entities; fair | `TypeOK`, `OwnedOnce`, `OwnerPublishes`, `DeadIsReplaced`, `EntryRecovers` |
| `ros_service` | 2 connections, 2 requests of which one is malformed, 2 registrations, fair | `TypeOK`, `RunsBounded`, `OneOutcome`, `AnswerIsCurrent`, `ThreadEnds`, `CallerHears` |
| `subscriber` | 1 or 2 executor threads, a throttled camera topic or one without a throttle, 4 messages in 3 ticks, 2 registrations | `TypeOK`, `BurstBounded`, `DropsAreDue`, `LateBounded` |
| `bytes` | 2 messages of 4 names, one of them too long to be read, 2 ids and 3 payloads; a buffer of 5 bytes and 5 writes of 1, 2, 3 or 6; fair | `WireTypeOK`, `FramingExact`, `EveryMessageRead`, `EndIsSeen`; `TypeOK`, `RecentIntact`, `GuardedIntact` of the buffer |

Some of what they show is not obvious from the code. Two callbacks that overlap let three messages of a
throttled topic through in one interval, not two, because the later stamp may be the older time; n let
through 1 + 2 + ... + n, six with three threads (`BurstBounded`). A refused payload counts against the life
of a reference, because it moves the write position (`RecentIntact`). After a topic is registered again, the
callbacks of the old `RosSubscriber` may still forward, behind those of the new one, one message for each
thread but one, and no more (`LateBounded`). Unity hears of a request once even though its service may run
it three times and answer each (`OneOutcome`, `RunsBounded`).

Runs that show that the code does not do what its text says:

| Run | Statement | What happens |
|---|---|---|
| `map_race` | tcp_sender.py:220, "Drain command queue first so __topic_map arrives before stream frames" | a caller puts the map and fills the slot between the two drains; the frame goes out first |
| `queue_overlap` | tcp_sender.py:43, "this is always the queue for the currently active thread" | a later connection takes `self.queue` over and leaves `None` when it ends; the earlier, still open one gets nothing more |
| `lost_wakeup` | unity_service.py:52, "pass along message and get reply" | the response is read before the caller waits; the notify reaches nobody, the caller sleeps for good |
| `stale_pending` | server.py:313, "the next message is a service response" | two connections overlap: after the command of one, the other's client thread takes a message that its own peer had sent for the payload, and it is returned as the response |
| `throttle_shadow` | subscriber.py:32, "Key is a topic substring, value is max Hz" | `/aligned_depth_to_color/image_raw` has 15 Hz, but `/image_raw` stands earlier in the table and gives it 30 |

**Bounds.** `MaxCalls`, `MaxUnity`, `MaxEntities`, `MaxTime`, `MaxMessages`, `MaxSubs` and `MaxWrites` bound
counters. Two connections are enough for every race between an old and a new one, for they meet only in
`queue`, the slots, `pending_srv_id` and the tables; two callers are enough for two calls of one topic or of
two. `MaxTopicId` is 65535 in the code; with 1, the second topic overflows the two bytes. The first call of
a topic puts two items, so two calls of one topic already give a map and two messages to order. `service`
has one connection because `AnswersMatch`, `RequestsMatch`, `SleeperReturns` and `CallSpec` are about one
(`stale_pending` shows what a second does to the first of them); its other invariants are proved for any
number. `MaxEntities` 4 lets an entity be made, replaced and replaced again while another thread holds the
first. Three messages break the bound of a burst with two threads if there is a fault, and a fourth follows
them; three ticks hold an interval of two and the tick after it. Five writes go around a buffer of five
bytes at least once for every mix of sizes. `CHECK_DEADLOCK FALSE`: the system may stop, when connections,
calls or messages are used up or when every thread waits for messages.

**Fairness.** Weak fairness of the steps of each thread the code starts: the operating system schedules
threads that can run, and the waits in `sender_loop`, the 1 s and the 10 s of `RosService.send` time out. A
`recv` that has data or the end of the stream before it returns. Nothing is assumed of Unity, of ROS or of
the network: they need not connect, send, read, answer or leave. Liveness properties are therefore
conditional on that. In particular nothing makes `SendBatch` happen, nor a connection fail: if Unity keeps a
connection open and does not read, the sender thread stays in `sendall`, whatever `halt_event` says, holds
`self.queue` and drains nothing. Only a `sendall` whose connection has failed is sure to end. The three
properties of `sender_live` speak of the connections for which `PeerReadsOrFails` holds: no `sendall` waits
for ever on an open socket, since the peer reads on or the connection fails. The peer of another connection
may still block its own sender. In `SlotsDrain` one sender whose peer reads is enough.

**Mutants.** Every property of a passing run is paired in PROJECT.json with a fault of the code, such as a
counter that is not advanced or a slot table that is not cleared. The faulty operators stand before
those they replace and are marked "Fault".

## 4. Proofs

For every set of connections, callers and topics, every `MaxTopicId` and every `MaxCalls`, from
`SenderAssumption` alone:

* `TypeCorrect`, `QueueAlwaysServed`, `HandshakeComesFirst`, `EveryItemDecodes` (UnityTcpSenderProofs).
  *Queue*: `QueueInv` ties `queue` to a sender that has started its loop and not released; only
  `ReleaseQueue(c)` ends `c`, and it resets `queue` if it is `c`. *Handshake*: `HandshakeFirst` is not inductive,
  since the wire grows from the batch and
  the batch from queue and slots; `HandshakeInv` says where the handshake of a connection still is (at
  the head of the queue, then of the batch, then of the wire) and that all else is plain, and
  `SlotsPlain` that the shared slots hold none. *Decoding*: `DecodeInv` carries the statement through
  every place an item passes, from the caller's locals on; it needs `IdsUnique` (ids below
  `next_topic_id` name one topic) and `HeldAtPut`.
* `TopicsInOrder`, `MapsGoFirst`, `NothingSentTwice` (UnityTcpSenderOrder). Two items clash if they are the same or
  one must not come before the other (`Clash`). `OrderInv` says that on the way to each connection, from
  queue or slots over the batch to the wire, nothing clashes with what is behind it, and that
  connections have no item in common. What goes through the queue never clashes with what goes
  through the slots (`FlowInv`), so their order between themselves does not matter. The rest is that a
  caller adds nothing that clashes with what was handed over before: `CallInv` numbers the items by the
  calls and says that a thread about to put a map has handed over no message of that topic yet,
  which follows from `DecodeInv` when the id is given out. Each kind of step is a lemma on plain
  sequences (`OrderlyDrain`, `OrderlySend`, ...), to which the steps of the threads are then reduced.
* `ImplementsChannel` (UnityTcpSenderProofs): `Spec => ChannelSpec`. Each step is mapped to the
  abstract step it is, or to a stutter; the queue invariants above are what the mapping needs.

For every set of connections and callback threads, from `ServiceAssumption` (UnityServiceCallsProofs):
`TypeCorrect`, `CallsAreDistinct`, `CallsAreFound`, `CallsReturnOnce`. An id that was issued is in at most
one place: in `services_waiting`, in the hands of one client thread between `TakeWaiter` and `Resume`, or
used up by a call that was resumed. `IdInv` says so with `CallInv` (ids of calls are below `next_srv_id`), `HandInv`
(what a client thread holds nobody else has), `UsedInv` (what has returned is nowhere); `NotForgotten`
then follows step by step, since only `TakeWaiter` takes an id out, and `Resume` hands it on.

From the same assumption, if there is one connection (`OneConnection`; `stale_pending` shows the first to
fail with two that overlap): `AnswersAreTheirs`, `RequestsAreTheirs`, `ImplementsCalls`. What is left to
read is `Paired`: a payload comes after its command and nowhere else, also when Unity answers a request
twice. `PairInv` says for each place of the client thread what `pending_srv_id` and its flag are with
respect to the message it read last: set by that command, or None. So the answer it hands on at `resume`
bears the id it took, and `WokenInv` carries that to the call that wakes. The proof needs that None is no
srv_id, hence the first conjunct of the assumption. `ImplementsCalls` is `OneConnection /\ Spec =>
CallSpec`. It needs two invariants more: `AskedInv`, that every request not answered and every answer on its
way belongs to a call that was asked and did not fail, and `ResultInv`, that a result is the answer to its
call and that a call with a result is out of everybody's hands. With `UsedInv` they give `HandWaits`: the
answer a client thread holds at `resume` has a caller that waits for it. The steps of the client threads
lose answers at most (`AsideRef`), the others are the steps of `RemoteCall` by the same names.

For every set of connections and requests, from `ServiceAssumption` (RosServiceCallsProofs):
`TypeCorrect`, `RunsAreBounded`, `OneOutcomeOnly`, `AnswersAreCurrent`. `AttemptInv` bounds the calls by the
attempts at each place of the thread; `RunInv` counts a call that is still asked apart from those
that were run; `OutcomeInv` says that a thread that has not ended has put nothing yet, and what an
ended one put.

For every set of clients, tables and topics and any assignment of registrations, from
`RegistryAssumption` (RegistryProofs): `TypeCorrect`, `OwnedTopicsAreOnce`, `OwnersPublish`,
`DeadEntriesAreReplaced`. `OwnedOnce` speaks of settled states; what makes it inductive is that a new
entity is in one thread's hands only (`FreshInv`), that a thread goes on holding the dead entity it has
unregistered (`DeadInv`), and that under one owner the table still holds what the thread found
(`Holders`), so the entity it puts replaces that and no other.

For every finite set of executor threads, every name of a topic and every QoS of its publisher, from
`SubscriberAssumption` (RosSubscriberProofs): `TypeCorrect`, `DropsHaveCause`, `BurstsAreBounded`,
`OldCallbacksRunOut`. *Drops*: with one thread a callback runs from `Deliver` to its end before the next, so
`SentOrLost` can say that the last stamp is the time of a message that was sent, or lost because there was
no connection. *Bursts*: a callback that overlaps can set `_last_sent_time` back and so open the interval
again. `BurstInv` counts how far that can go: each of the messages forwarded in an interval belongs to a
round (`Rounds`), and a stamp that sets the time back uses up a thread that had passed the test before the
newer stamp (`Old`, `Passed`, `Leaving`), which then starts anew as a later one; so the rounds get shorter,
n, n - 1, down to 1. *Late messages*: `LateInv` counts the messages that are late together with those that
may still be, the callbacks in progress of registrations before t (`Behind`), t being the youngest that has
forwarded anything: at most n - 1 for each registration before t. When a younger one forwards its first
message, all who are then behind run in the other n - 1 threads (`LateForward`); after that, forwarding
moves a message from the one count to the other, and no callback begins in an old `RosSubscriber`.

For every base above one, every positive number of bytes of an int32 and of a topic id, and all names, ids
and data that fit them (a name may be so long that its length reads as negative), from `WireAssumption`
(WireFormatProofs): `TypeCorrect`, `MessagesAsSent`. The arithmetic is `Unpacked`: what `Pack` makes of a
number is read back modulo `Power[n]`, digit by digit (`DigitAdded`); so lengths and ids come back as they
were (`SignedBack`, `UnsignedBack`), the marker as -1 (`MarkerBack`), and a length is never taken for a
marker; one that reads as negative ends the thread, so what follows it is not read. The invariant,
`FramingInv`, says where the reader is: there is one sequence of bytes, that of all messages sent, with each
message in its place (`Layout`), and `buffer` and `stream` continue it from the position of the field being
read (`Place`), up to its end while the connection is open. Hence what `recvall` returns is that field
(`FieldGot`), and each step of `read_message` goes to the next.

For every non-negative size of the buffer, any threshold and any positive sizes of payloads, from
`BufferAssumption` (ZeroCopyBufferProofs): `TypeCorrect`, `GuardedWritesStay`, `RecentWritesStay`. `LaidOut`
says that, while every write was allowed, the payloads lie below `write_offset`, so that the next one goes
above all of them. `RecentInv` follows the write position around the ring: until `Room` bytes have been
asked for since a payload was written, the position is either above it by exactly those bytes, or has been
reset once and is still below it (`Reached`).

Every inductive invariant was checked with TLC before it was proved.

**Only model-checked.** Liveness (`HaltReleases`, `QueueDrains`, `SlotsDrain`, `SleeperReturns`,
`EntryRecovers`, `ThreadEnds`, `CallerHears`, `EveryMessageRead`, `EndIsSeen`): fairness and ENABLED are out
of the prover's reach. Every invariant of a run that passes is also proved. The theorems of the library
about induction take an operator, which no installed prover can instantiate; where a proof needs induction
over numbers or a function defined by recursion, it is done with sets and functions in place of operators,
from the well-foundedness of `<` on the natural numbers (`Induction`, `Recursion` of WireFormatProofs).
`RECURSIVE` operators and `SelectSeq` cannot be reasoned about, which is one reason why frames are
serialized one per step.

## 5. Plan

Done: all modules above. What would come next, in this order:

1. The choice of QoS of a publisher, with a run about publishers and ROS subscribers that never connect.
2. An abstract specification of a request of Unity to a ROS service (asked, run at most three times, settled once)
   that `RosServiceCalls` implements.

## 6. Not modelled

* `resolve_message_name`, `handle_syscommand`'s parsing, CDR and JSON: libraries and pure functions; what
  fails in them ends the client thread or refuses the command, which the models have.
* The QoS of publishers, depth and history of all QoS: functions of one command with no later effect in this
  program.
* `get_registered_topic`, `parse_message_name`, `read_string`, `serialize_topic_id_mapping`: nothing calls
  them.
* Node parameters, socket options, start-up and shutdown (`default_server_endpoint.py`), the launch file,
  logging, abstract base classes: configuration and I/O with no state of this program.
* What rclpy does when `spin_until_future_complete` spins a node that an executor spins already
  (service.py:69): the model takes any outcome.

Tests that describe an older version (test_tcp_sender.py on `time_between_halt_checks`) are not used as
statements about the code.
