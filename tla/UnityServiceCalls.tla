-------------------------- MODULE UnityServiceCalls --------------------------
(***************************************************************************)
(* Service calls through the endpoint, in both directions.                 *)
(*                                                                         *)
(* A ROS node calls a service that Unity implements: the callback thread   *)
(* registers a ThreadPauser under a fresh srv_id, puts a __request into    *)
(* the queue and sleeps until the client thread that reads the response    *)
(* wakes it (unity_service.py, tcp_sender.py, thread_pauser.py).           *)
(*                                                                         *)
(* Unity sends a service message as two: a __response or __request command *)
(* that sets pending_srv_id, and "the next message", the payload. The      *)
(* client threads of all connections share pending_srv_id (client.py,      *)
(* server.py).                                                             *)
(*                                                                         *)
(* A connection delivers requests in order while it lives, which is what   *)
(* UnityTcpSender is shown to implement. Abstracted: payload bytes, and    *)
(* what a message does that is not part of a service call.                 *)
(***************************************************************************)
EXTENDS Naturals, Sequences

CONSTANTS
  Conns,      \* the TCP connections of the endpoint's life, each used once
  Callbacks,  \* threads that run UnityService.send
  None,       \* Python's None
  MaxCalls,   \* bound on the calls of Unity's services
  MaxUnity    \* bound on the messages Unity sends unasked

ASSUME ServiceAssumption ==
  /\ None \notin Conns \cup Nat
  /\ MaxCalls \in Nat
  /\ MaxUnity \in Nat

VARIABLES
  queue,             \* self.queue: the connection its items go to, or None
  conn,              \* per connection: "new", "open", "broken" or "closed"
  outbox,            \* per connection, the requests Unity has not taken yet
  inbox,             \* per connection, the messages not read yet
  rpc,               \* per connection, where its client thread is
  rmsg,              \* per connection, the message its client thread handles
  rid,               \* per connection, the srv_id it has passed on
  pending_srv_id,
  pending_srv_is_request,
  services_waiting,  \* the srv_ids of the dict
  next_srv_id,
  cpc,               \* per callback, where it is in its call
  job,               \* per callback, the srv_id of its call
  held,              \* per callback, the queue it is about to put into
  result,            \* per callback, the result its ThreadPauser was given
  sent,              \* number of messages Unity sent unasked
  returned,          \* every [id, msg] of a call that returned msg to ROS
  served             \* every [id, msg] handed to a RosService

linkVars    == <<queue, conn>>
readerVars  == <<rpc, rmsg, rid>>
pendingVars == <<pending_srv_id, pending_srv_is_request>>
idVars      == <<services_waiting, next_srv_id>>
callVars    == <<cpc, job, held>>
vars == <<linkVars, outbox, inbox, readerVars, pendingVars, idVars, callVars,
          result, sent, returned, served>>

-----------------------------------------------------------------------------
Message(kind, id) == [kind |-> kind, id |-> id]

\* Unity's messages: a command and then its payload, or anything else.
Response(id) == <<Message("response", id), Message("answer", id)>>
Request(id)  == <<Message("request", id), Message("question", id)>>
Other        == Message("other", 0)

NoMessage == Message("none", 0)

Init ==
  /\ queue = None
  /\ conn   = [c \in Conns |-> "new"]
  /\ outbox = [c \in Conns |-> <<>>]
  /\ inbox  = [c \in Conns |-> <<>>]
  /\ rpc    = [c \in Conns |-> "none"]
  /\ rmsg   = [c \in Conns |-> NoMessage]
  /\ rid    = [c \in Conns |-> None]
  /\ pending_srv_id = None
  /\ pending_srv_is_request = FALSE
  /\ services_waiting = {}
  /\ next_srv_id = 1001
  /\ cpc    = [k \in Callbacks |-> "idle"]
  /\ job    = [k \in Callbacks |-> 0]
  /\ held   = [k \in Callbacks |-> None]
  /\ result = [k \in Callbacks |-> NoMessage]
  /\ sent = 0
  /\ returned = {}
  /\ served = {}

-----------------------------------------------------------------------------
(* Connections, and Unity at the other end.                                *)

\* A client thread and its sender start. See UnityTcpSender for the steps.
Connect(c) ==
  /\ conn[c] = "new"
  /\ conn' = [conn EXCEPT ![c] = "open"]
  /\ queue' = c
  /\ rpc' = [rpc EXCEPT ![c] = "read"]
  /\ UNCHANGED <<outbox, inbox, rmsg, rid, pendingVars, idVars, callVars,
                 result, sent, returned, served>>

Break(c) ==
  /\ conn[c] = "open"
  /\ conn' = [conn EXCEPT ![c] = "broken"]
  /\ UNCHANGED <<queue, outbox, inbox, readerVars, pendingVars, idVars,
                 callVars, result, sent, returned, served>>

\* The sender of a lost connection ends and resets self.queue if it is its own.
SenderEnds(c) ==
  /\ conn[c] = "broken"
  /\ conn' = [conn EXCEPT ![c] = "closed"]
  /\ queue' = IF queue = c THEN None ELSE queue
  /\ UNCHANGED <<outbox, inbox, readerVars, pendingVars, idVars, callVars,
                 result, sent, returned, served>>

\* Unity answers the oldest request it was sent on this connection.
UnityAnswers(c) ==
  /\ conn[c] = "open"
  /\ outbox[c] # <<>>
  /\ inbox'  = [inbox EXCEPT ![c] = @ \o Response(Head(outbox[c]))]
  /\ outbox' = [outbox EXCEPT ![c] = Tail(@)]
  /\ UNCHANGED <<linkVars, readerVars, pendingVars, idVars, callVars, result,
                 sent, returned, served>>

\* Unity answers a request and will answer it once more.
UnityAnswersTwice(c) ==
  /\ conn[c] = "open"
  /\ outbox[c] # <<>>
  /\ sent < MaxUnity
  /\ sent' = sent + 1
  /\ inbox' = [inbox EXCEPT ![c] = @ \o Response(Head(outbox[c]))]
  /\ UNCHANGED <<linkVars, outbox, readerVars, pendingVars, idVars, callVars,
                 result, returned, served>>

\* Unity calls a ROS service, publishes, registers, or keeps the link alive.
UnitySends(c) ==
  /\ conn[c] = "open"
  /\ sent < MaxUnity
  /\ sent' = sent + 1
  /\ \E ms \in {Request(sent'), <<Other>>} :
       inbox' = [inbox EXCEPT ![c] = @ \o ms]
  /\ UNCHANGED <<linkVars, outbox, readerVars, pendingVars, idVars, callVars,
                 result, returned, served>>

-----------------------------------------------------------------------------
(* A callback thread: UnityService.send, send_unity_service_request.       *)

\* There is a connection. Without one the call returns an empty response, and
\* nothing changes.
BeginCall(k) ==
  /\ cpc[k] = "idle"
  /\ queue # None
  /\ cpc' = [cpc EXCEPT ![k] = "alloc"]
  /\ UNCHANGED <<linkVars, outbox, inbox, readerVars, pendingVars, idVars, job,
                 held, result, sent, returned, served>>

\* Fault: the counter is not advanced.
SameSrvId(id) == id

NextSrvId(id) == id + 1

\* Under srv_lock: a fresh id, and the ThreadPauser registered under it.
AllocSrvId(k) ==
  /\ cpc[k] = "alloc"
  /\ next_srv_id < 1001 + MaxCalls
  /\ job' = [job EXCEPT ![k] = next_srv_id]
  /\ next_srv_id' = NextSrvId(next_srv_id)
  /\ services_waiting' = services_waiting \cup {next_srv_id}
  /\ cpc' = [cpc EXCEPT ![k] = "put"]
  /\ UNCHANGED <<linkVars, outbox, inbox, readerVars, pendingVars, held, result,
                 sent, returned, served>>

EndCall(k) ==
  /\ cpc'    = [cpc EXCEPT ![k] = "idle"]
  /\ job'    = [job EXCEPT ![k] = 0]
  /\ held'   = [held EXCEPT ![k] = None]
  /\ result' = [result EXCEPT ![k] = NoMessage]

\* self.queue is read again. If it has been reset meanwhile, the AttributeError
\* ends the call and leaves its entry in services_waiting.
FetchQueue(k) ==
  /\ cpc[k] = "put"
  /\ held[k] = None
  /\ IF queue = None
     THEN EndCall(k)
     ELSE /\ held' = [held EXCEPT ![k] = queue]
          /\ UNCHANGED <<cpc, job, result>>
  /\ UNCHANGED <<linkVars, outbox, inbox, readerVars, pendingVars, idVars, sent,
                 returned, served>>

Put(k) ==
  /\ cpc[k] = "put"
  /\ held[k] # None
  /\ outbox' = [outbox EXCEPT ![held[k]] = Append(@, job[k])]
  /\ held' = [held EXCEPT ![k] = None]
  /\ cpc'  = [cpc EXCEPT ![k] = "sleep"]
  /\ UNCHANGED <<linkVars, inbox, readerVars, pendingVars, idVars, job, result,
                 sent, returned, served>>

\* condition.wait(): with no predicate, it waits for the next notify.
Sleep(k) ==
  /\ cpc[k] = "sleep"
  /\ cpc' = [cpc EXCEPT ![k] = "waiting"]
  /\ UNCHANGED <<linkVars, outbox, inbox, readerVars, pendingVars, idVars, job,
                 held, result, sent, returned, served>>

\* The response is deserialized and returned to ROS.
Return(k) ==
  /\ cpc[k] = "woken"
  /\ returned' = returned \cup {[id |-> job[k], msg |-> result[k]]}
  /\ EndCall(k)
  /\ UNCHANGED <<linkVars, outbox, inbox, readerVars, pendingVars, idVars, sent,
                 served>>

-----------------------------------------------------------------------------
(* The client thread of connection c: ClientThread.run.                    *)

Read(c) ==
  /\ rpc[c] = "read"
  /\ inbox[c] # <<>>
  /\ rmsg'  = [rmsg EXCEPT ![c] = Head(inbox[c])]
  /\ inbox' = [inbox EXCEPT ![c] = Tail(@)]
  /\ rpc'   = [rpc EXCEPT ![c] = "dispatch"]
  /\ UNCHANGED <<linkVars, outbox, rid, pendingVars, idVars, callVars, result,
                 sent, returned, served>>

\* The read fails, or the sender has set halt_event: what is unread is lost.
ReadEnds(c) ==
  /\ rpc[c] = "read"
  /\ conn[c] \in {"broken", "closed"}
  /\ rpc' = [rpc EXCEPT ![c] = "done"]
  /\ inbox' = [inbox EXCEPT ![c] = <<>>]
  /\ UNCHANGED <<linkVars, outbox, rmsg, rid, pendingVars, idVars, callVars,
                 result, sent, returned, served>>

\* pending_srv_id is not None: this message is a payload.
DispatchPayload(c) ==
  /\ rpc[c] = "dispatch"
  /\ pending_srv_id # None
  /\ rpc' = [rpc EXCEPT ![c] = "payload"]
  /\ UNCHANGED <<linkVars, outbox, inbox, rmsg, rid, pendingVars, idVars,
                 callVars, result, sent, returned, served>>

\* pending_srv_id is None and this is a command: it runs some time later.
DispatchCommand(c) ==
  /\ rpc[c] = "dispatch"
  /\ pending_srv_id = None
  /\ rmsg[c].kind \in {"response", "request"}
  /\ rpc' = [rpc EXCEPT ![c] = "command"]
  /\ UNCHANGED <<linkVars, outbox, inbox, rmsg, rid, pendingVars, idVars,
                 callVars, result, sent, returned, served>>

\* SysCommands.response and SysCommands.request, first assignment ...
SetPending(c) ==
  /\ rpc[c] = "command"
  /\ pending_srv_id' = rmsg[c].id
  /\ rpc' = [rpc EXCEPT ![c] = "flag"]
  /\ UNCHANGED <<linkVars, outbox, inbox, rmsg, rid, pending_srv_is_request,
                 idVars, callVars, result, sent, returned, served>>

\* Fault: the flag of an earlier command stays.
StickyFlag(m) == pending_srv_is_request \/ m.kind = "request"

RequestFlag(m) == m.kind = "request"

\* ... and second assignment.
SetFlag(c) ==
  /\ rpc[c] = "flag"
  /\ pending_srv_is_request' = RequestFlag(rmsg[c])
  /\ rpc' = [rpc EXCEPT ![c] = "read"]
  /\ UNCHANGED <<linkVars, outbox, inbox, rmsg, rid, pending_srv_id, idVars,
                 callVars, result, sent, returned, served>>

\* Anything else: keepalive, another command, a publication, an error. A handler
\* that raises ends the thread as a lost connection does (Break, ReadEnds).
DispatchOther(c) ==
  /\ rpc[c] = "dispatch"
  /\ pending_srv_id = None
  /\ rmsg[c].kind \notin {"response", "request"}
  /\ rpc' = [rpc EXCEPT ![c] = "read"]
  /\ UNCHANGED <<linkVars, outbox, inbox, rmsg, rid, pendingVars, idVars,
                 callVars, result, sent, returned, served>>

\* The flag, and below pending_srv_id again, may no longer be what the test saw.
TestFlag(c) ==
  /\ rpc[c] = "payload"
  /\ rpc' = [rpc EXCEPT ![c] = IF pending_srv_is_request THEN "serve"
                                                         ELSE "respond"]
  /\ UNCHANGED <<linkVars, outbox, inbox, rmsg, rid, pendingVars, idVars,
                 callVars, result, sent, returned, served>>

\* send_ros_service_request: the payload goes to the RosService, in a thread of
\* its own.
ServeRequest(c) ==
  /\ rpc[c] = "serve"
  /\ served' = served \cup {[id |-> pending_srv_id, msg |-> rmsg[c]]}
  /\ rpc' = [rpc EXCEPT ![c] = "clear"]
  /\ UNCHANGED <<linkVars, outbox, inbox, rmsg, rid, pendingVars, idVars,
                 callVars, result, sent, returned>>

\* An exception that is no IOError ends the client thread, which closes the
\* connection and leaves pending_srv_id as it is.
HandlerRaises(c) ==
  /\ rpc' = [rpc EXCEPT ![c] = "done"]
  /\ conn' = [conn EXCEPT ![c] = IF @ = "open" THEN "broken" ELSE @]
  /\ inbox' = [inbox EXCEPT ![c] = <<>>]
  /\ UNCHANGED <<queue, outbox, rmsg, rid, pendingVars, idVars, callVars,
                 result, sent, returned, served>>

\* ... or the service is not registered, and send_unity_error tests self.queue ...
TestErrorQueue(c) ==
  /\ rpc[c] = "serve"
  /\ rpc' = [rpc EXCEPT ![c] = IF queue = None THEN "clear" ELSE "report"]
  /\ UNCHANGED <<linkVars, outbox, inbox, rmsg, rid, pendingVars, idVars,
                 callVars, result, sent, returned, served>>

\* ... and reads it again, to put the error into it; the error is not followed.
PutError(c) ==
  /\ rpc[c] = "report"
  /\ queue # None
  /\ rpc' = [rpc EXCEPT ![c] = "clear"]
  /\ UNCHANGED <<linkVars, outbox, inbox, rmsg, rid, pendingVars, idVars,
                 callVars, result, sent, returned, served>>

\* If it has been reset meanwhile, that is an AttributeError.
PutErrorRaises(c) ==
  /\ rpc[c] = "report"
  /\ queue = None
  /\ HandlerRaises(c)

\* Fault: the entry is not deleted.
WaitingStill(id) == services_waiting

WaitingWithout(id) == services_waiting \ {id}

\* send_unity_service_response, under srv_lock: look the waiter up, delete it.
TakeWaiter(c) ==
  /\ rpc[c] = "respond"
  /\ pending_srv_id \in services_waiting
  /\ services_waiting' = WaitingWithout(pending_srv_id)
  /\ rid' = [rid EXCEPT ![c] = pending_srv_id]
  /\ rpc' = [rpc EXCEPT ![c] = "resume"]
  /\ UNCHANGED <<linkVars, outbox, inbox, rmsg, pendingVars, next_srv_id,
                 callVars, result, sent, returned, served>>

\* An id that nobody waits for is a KeyError.
NoWaiter(c) ==
  /\ rpc[c] = "respond"
  /\ pending_srv_id \notin services_waiting
  /\ HandlerRaises(c)

\* Fault: the result is cleared.
GivenNone(m) == None

\* Fault: notify without the result.
GivenNothing(m) == NoMessage

Given(m) == m

\* resume_with_result: set the result, and notify, which wakes the thread only
\* if it is already waiting.
Resume(c) ==
  /\ rpc[c] = "resume"
  /\ result' = [k \in Callbacks |-> IF job[k] = rid[c] THEN Given(rmsg[c])
                                                       ELSE result[k]]
  /\ cpc' = [k \in Callbacks |-> IF job[k] = rid[c] /\ cpc[k] = "waiting"
                                 THEN "woken" ELSE cpc[k]]
  /\ rpc' = [rpc EXCEPT ![c] = "clear"]
  /\ UNCHANGED <<linkVars, outbox, inbox, rmsg, rid, pendingVars, idVars, job,
                 held, sent, returned, served>>

\* Fault: it is not reset.
PendingKept == pending_srv_id

PendingCleared == None

ClearPending(c) ==
  /\ rpc[c] = "clear"
  /\ pending_srv_id' = PendingCleared
  /\ rpc' = [rpc EXCEPT ![c] = "read"]
  /\ UNCHANGED <<linkVars, outbox, inbox, rmsg, rid, pending_srv_is_request,
                 idVars, callVars, result, sent, returned, served>>

-----------------------------------------------------------------------------
ReaderStep(c) ==
  \/ Read(c)
  \/ ReadEnds(c)
  \/ DispatchPayload(c)
  \/ DispatchCommand(c)
  \/ SetPending(c)
  \/ SetFlag(c)
  \/ DispatchOther(c)
  \/ TestFlag(c)
  \/ ServeRequest(c)
  \/ TestErrorQueue(c)
  \/ PutError(c)
  \/ PutErrorRaises(c)
  \/ TakeWaiter(c)
  \/ NoWaiter(c)
  \/ Resume(c)
  \/ ClearPending(c)

CallbackStep(k) ==
  \/ AllocSrvId(k)
  \/ FetchQueue(k)
  \/ Put(k)
  \/ Sleep(k)
  \/ Return(k)

Next ==
  \/ \E c \in Conns : \/ Connect(c)
                      \/ Break(c)
                      \/ SenderEnds(c)
                      \/ UnityAnswers(c)
                      \/ UnityAnswersTwice(c)
                      \/ UnitySends(c)
                      \/ ReaderStep(c)
  \/ \E k \in Callbacks : BeginCall(k) \/ CallbackStep(k)

Spec == Init /\ [][Next]_vars

\* Threads that can run are scheduled. Nothing obliges Unity to connect, to
\* answer or to stay, or ROS to call.
Fairness ==
  /\ \A c \in Conns : WF_vars(ReaderStep(c)) /\ WF_vars(SenderEnds(c))
  /\ \A k \in Callbacks : WF_vars(CallbackStep(k))

FairSpec == Spec /\ Fairness

-----------------------------------------------------------------------------
(* Properties.                                                             *)

SrvIds   == Nat \cup {None}
Messages ==
  [kind : {"none", "response", "answer", "request", "question", "other"},
   id   : Nat]

TypeOK ==
  /\ queue \in Conns \cup {None}
  /\ conn   \in [Conns -> {"new", "open", "broken", "closed"}]
  /\ outbox \in [Conns -> Seq(Nat)]
  /\ inbox  \in [Conns -> Seq(Messages)]
  /\ rpc    \in [Conns -> {"none", "read", "dispatch", "command", "flag",
                           "payload", "serve", "report", "respond", "resume", "clear",
                           "done"}]
  /\ rmsg   \in [Conns -> Messages]
  /\ rid    \in [Conns -> SrvIds]
  /\ pending_srv_id \in SrvIds
  /\ pending_srv_is_request \in BOOLEAN
  /\ services_waiting \in SUBSET Nat
  /\ next_srv_id \in Nat
  /\ cpc    \in [Callbacks -> {"idle", "alloc", "put", "sleep", "waiting",
                               "woken"}]
  /\ job    \in [Callbacks -> Nat]
  /\ held   \in [Callbacks -> Conns \cup {None}]
  /\ result \in [Callbacks -> Messages]
  /\ sent \in Nat
  /\ returned \in SUBSET [id : Nat, msg : Messages]
  /\ served \in SUBSET [id : SrvIds, msg : Messages]

\* Inside a call, from the id on.
Called == {"put", "sleep", "waiting", "woken"}

\* A call that has not got its response can be found by it: its id is in
\* services_waiting, or a client thread that took it from there is about to wake
\* the caller. No late, second or foreign response takes it away.
NotForgotten ==
  \A k \in Callbacks :
    cpc[k] \in {"put", "sleep", "waiting"} =>
      \/ job[k] \in services_waiting
      \/ result[k] # NoMessage
      \/ \E c \in Conns : rpc[c] = "resume" /\ rid[c] = job[k]

\* server.py:313, "the next message is a service response": what a call returns to
\* ROS is what Unity answered to it. It holds while there is one connection. Two
\* that overlap share pending_srv_id: a message that the other one had sent may be
\* taken for the payload that a command announced.
AnswersMatch ==
  \A r \in returned : r.msg = Message("answer", r.id)

\* server.py:317, "the next message is a service request": what a RosService is
\* handed is what Unity asked under that id, on one connection.
RequestsMatch ==
  \A r \in served : r.msg = Message("question", r.id)

\* An id is answered to at most one thread, and its thread is woken at most once:
\* a call that has returned is not in the table, nor in any client thread's hand.
ReturnsOnce ==
  \A r \in returned :
    /\ r.id \notin services_waiting
    /\ \A c \in Conns : rpc[c] = "resume" => rid[c] # r.id

\* A call that sleeps when its response is read returns, unless the connection
\* is lost first.
SleeperReturns ==
  \A k \in Callbacks, c \in Conns, id \in 1001 .. 1000 + MaxCalls :
    (/\ cpc[k] = "waiting"
     /\ job[k] = id
     /\ conn[c] = "open"
     /\ \E i \in DOMAIN inbox[c] : inbox[c][i] = Message("answer", id))
      ~> (conn[c] # "open" \/ \E r \in returned : r.id = id)

\* unity_service.py:52, "Connect to TCP endpoint on client, pass along message
\* and get reply": a call that Unity answers gets the reply, unless the
\* connection is lost first. A response that is read before the caller waits is
\* notified to nobody, and the caller waits for good.
ReplyReachesCaller ==
  \A k \in Callbacks, c \in Conns, id \in 1001 .. 1000 + MaxCalls :
    (/\ cpc[k] \in Called
     /\ job[k] = id
     /\ conn[c] = "open"
     /\ \E i \in DOMAIN inbox[c] : inbox[c][i] = Message("answer", id))
      ~> (conn[c] # "open" \/ \E r \in returned : r.id = id)

-----------------------------------------------------------------------------
(* Refinement: on one connection, a call is a RemoteCall.                  *)

AnswerTo(id) == Message("answer", id)

CallIds == 1001 .. 1000 + MaxCalls

\* The srv_ids that were given out, and those of the calls in each state.
Issued == 1001 .. next_srv_id - 1

Asking == {id \in CallIds : \E k \in Callbacks : cpc[k] = "put" /\ job[k] = id}

Asked(k, id) == cpc[k] \in {"sleep", "waiting", "woken"} /\ job[k] = id

Waiting ==
  {id \in CallIds : \E k \in Callbacks : Asked(k, id) /\ result[k] # AnswerTo(id)}

Answered ==
  {id \in CallIds : \E k \in Callbacks : Asked(k, id) /\ result[k] = AnswerTo(id)}

Returned == {id \in CallIds : [id |-> id, msg |-> AnswerTo(id)] \in returned}

\* Not read yet, or read and not handed to the call.
OnItsWay(c, m) ==
  \/ \E i \in DOMAIN inbox[c] : inbox[c][i] = m
  \/ rpc[c] \in {"dispatch", "payload", "serve", "respond", "resume"} /\ rmsg[c] = m

Arriving == {id \in CallIds : \E c \in Conns : OnItsWay(c, AnswerTo(id))}

Calls == INSTANCE RemoteCall WITH
  Ids      <- CallIds,
  issued   <- Issued,
  asking   <- Asking,
  waiting  <- Waiting,
  answered <- Answered,
  returned <- Returned,
  answers  <- Arriving

\* unity_service.py:52, "Connect to TCP endpoint on client, pass along message and
\* get reply": on one connection a call gets at most one answer, one that Unity gave
\* to the request of this very call, and returns that; it returns nothing before
\* its request is sent and answered, nor a second time, nor after it failed.
CallSpec == Calls!Spec
=============================================================================
