--------------------------- MODULE RosServiceCalls ---------------------------
(***************************************************************************)
(* Unity calls a service that a ROS node implements: send_ros_service_     *)
(* request starts a thread per request (client.py), which runs RosService. *)
(* send: at most three attempts, each a wait of 1 s for the service and a  *)
(* call with a wait of 10 s for its answer (service.py). Meanwhile the     *)
(* service may come and go, an answer may be late, a client thread may     *)
(* register the service again, which unregisters the RosService under the  *)
(* call, and the connection may be replaced.                               *)
(*                                                                         *)
(* Abstracted: time (a wait may end as soon as it begins), payloads (an    *)
(* answer is named by the attempt it answers) and the steps of a put into  *)
(* self.queue and of a registration, see UnityTcpSender and Registry.      *)
(***************************************************************************)
EXTENDS Naturals, Sequences

CONSTANTS
  Conns,        \* the TCP connections of the endpoint's life
  Requests,     \* the requests that Unity sends to the one service modelled
  Malformed,    \* those whose payload does not deserialize
  None,         \* Python's None
  MaxEntities   \* bound on the registrations of the service

ASSUME ServiceAssumption ==
  /\ Malformed \subseteq Requests
  /\ None \notin Conns
  /\ MaxEntities \in Nat

VARIABLES
  queue,      \* self.queue: the connection its items go to, or None
  outbox,     \* per connection, what was put into its queue
  entity,     \* the RosService in ros_services_table; they are numbered from 1
  gone,       \* the RosServices whose client is destroyed or None
  up,         \* the service's node is there
  asked,      \* the calls that the service has not run yet
  runs,       \* per request, how often the service ran it
  answers,    \* the calls whose future has a result
  pc,         \* per request, where its thread is
  service,    \* per request, the RosService its thread uses
  attempt,    \* per request, the local of send
  calls       \* per request, the number of call_async made

linkVars    == <<queue, outbox>>
tableVars   == <<entity, gone>>
serviceVars == <<up, asked, runs, answers>>
vars == <<linkVars, tableVars, serviceVars, pc, service, attempt, calls>>

Call(r, n)     == [request |-> r, number |-> n]
Response(r, n) == [kind |-> "response", request |-> r, number |-> n]
Error(r)       == [kind |-> "error", request |-> r, number |-> 0]

Init ==
  /\ queue = None
  /\ outbox = [c \in Conns |-> <<>>]
  /\ entity = 0
  /\ gone = {}
  /\ up \in BOOLEAN
  /\ asked = {}
  /\ runs = [r \in Requests |-> 0]
  /\ answers = {}
  /\ pc = [r \in Requests |-> "idle"]
  /\ service = [r \in Requests |-> 0]
  /\ attempt = [r \in Requests |-> 0]
  /\ calls = [r \in Requests |-> 0]

-----------------------------------------------------------------------------
(* What happens around the thread.                                         *)

\* A sender thread starts and takes over self.queue, or ends and resets it.
QueueChanges ==
  /\ queue' \in Conns \cup {None}
  /\ UNCHANGED <<outbox, tableVars, serviceVars, pc, service, attempt, calls>>

\* SysCommands.ros_service: unregister the old RosService ...
Unregister ==
  /\ entity # 0
  /\ gone' = gone \cup {entity}
  /\ UNCHANGED <<linkVars, entity, serviceVars, pc, service, attempt, calls>>

\* ... and put a new one in its place.
Register ==
  /\ entity = 0 \/ entity \in gone
  /\ entity < MaxEntities
  /\ entity' = entity + 1
  /\ UNCHANGED <<linkVars, gone, serviceVars, pc, service, attempt, calls>>

\* The service's node starts, or ends with all it has been asked.
ServiceToggles ==
  /\ up' = ~up
  /\ asked' = {}
  /\ UNCHANGED <<linkVars, tableVars, runs, answers, pc, service, attempt, calls>>

\* The service runs a request. Its answer completes the call's future, unless it
\* is lost or the client that asked has been destroyed.
ServiceRuns(x) ==
  /\ up
  /\ x \in asked
  /\ asked' = asked \ {x}
  /\ runs' = [runs EXCEPT ![x.request] = @ + 1]
  /\ \/ UNCHANGED answers
     \/ service[x.request] \notin gone /\ answers' = answers \cup {x}
  /\ UNCHANGED <<linkVars, tableVars, up, pc, service, attempt, calls>>

-----------------------------------------------------------------------------
(* The client thread and the thread of request r.                          *)

Goto(r, where) ==
  /\ pc' = [pc EXCEPT ![r] = where]
  /\ UNCHANGED <<tableVars, serviceVars>>

\* Fault: the error is only logged.
PutResponse(item) ==
  outbox' = IF queue = None \/ item.kind = "error"
            THEN outbox ELSE [outbox EXCEPT ![queue] = Append(@, item)]

\* self.queue.put(item) if there is a connection. If there is none, or no longer
\* when the put reads self.queue again, nothing is sent; it is the last thing
\* the thread of a request does either way. UnknownService is the client thread,
\* which such a put ends: UnityServiceCalls has that.
PutIfConnected(item) ==
  outbox' = IF queue = None THEN outbox
                            ELSE [outbox EXCEPT ![queue] = Append(@, item)]

\* Fault: the key of the table instead of its value.
StartThreadKey(r) ==
  /\ pc[r] = "idle"
  /\ entity # 0
  /\ service' = [service EXCEPT ![r] = r]
  /\ Goto(r, "deserialize")
  /\ UNCHANGED <<linkVars, attempt, calls>>

\* send_ros_service_request, the service registered: start the thread.
StartThread(r) ==
  /\ pc[r] = "idle"
  /\ entity # 0
  /\ service' = [service EXCEPT ![r] = entity]
  /\ Goto(r, "deserialize")
  /\ UNCHANGED <<linkVars, attempt, calls>>

\* ... and unknown: only an error message.
UnknownService(r) ==
  /\ pc[r] = "idle"
  /\ entity = 0
  /\ PutIfConnected(Error(r))
  /\ Goto(r, "ended")
  /\ UNCHANGED <<queue, service, attempt, calls>>

\* An exception here is caught by nobody: the thread ends without a word.
Deserialize(r) ==
  /\ pc[r] = "deserialize"
  /\ Goto(r, IF r \in Malformed THEN "dead" ELSE "wait")
  /\ UNCHANGED <<linkVars, service, attempt, calls>>

\* Fault: one attempt too many.
ExhaustedLate(n) == n > 3

\* The loop ends.
Exhausted(n) == n >= 3

Retry(r) ==
  /\ attempt' = [attempt EXCEPT ![r] = @ + 1]
  /\ Goto(r, IF Exhausted(attempt[r] + 1) THEN "report" ELSE "wait")

ServiceFound(r) ==
  /\ pc[r] = "wait"
  /\ service[r] \notin gone
  /\ up
  /\ Goto(r, "call")
  /\ UNCHANGED <<linkVars, service, attempt, calls>>

\* wait_for_service returned False after 1 s.
ServiceMissing(r) ==
  /\ pc[r] = "wait"
  /\ service[r] \notin gone
  /\ ~up
  /\ Retry(r)
  /\ UNCHANGED <<linkVars, service, calls>>

\* The RosService was unregistered: its client is None or destroyed, and
\* wait_for_service raises, outside of the try.
WaitRaises(r) ==
  /\ pc[r] = "wait"
  /\ service[r] \in gone
  /\ Goto(r, "dead")
  /\ UNCHANGED <<linkVars, service, attempt, calls>>

\* call_async: each attempt sends the request again, with a future of its own.
CallAsync(r) ==
  /\ pc[r] = "call"
  /\ service[r] \notin gone
  /\ calls' = [calls EXCEPT ![r] = @ + 1]
  /\ asked' = asked \cup {Call(r, calls[r] + 1)}
  /\ pc' = [pc EXCEPT ![r] = "spin"]
  /\ UNCHANGED <<linkVars, tableVars, up, runs, answers, service, attempt>>

\* The same exception inside of the try.
CallRaises(r) ==
  /\ pc[r] = "call"
  /\ service[r] \in gone
  /\ Retry(r)
  /\ UNCHANGED <<linkVars, service, calls>>

\* Fault: one future for all attempts.
HasAnyResult(r) == \E n \in 1 .. calls[r] : Call(r, n) \in answers

\* future.result() is not None, for the future of this attempt.
HasResult(r) == Call(r, calls[r]) \in answers

\* The result came in time, or just after.
Answered(r) ==
  /\ pc[r] = "spin"
  /\ HasResult(r)
  /\ Goto(r, "respond")
  /\ UNCHANGED <<linkVars, service, attempt, calls>>

\* Fault: no timeout.
SpinNeverFails(r) == pc[r] = "spin" /\ FALSE /\ UNCHANGED vars

\* 10 s have passed without, or the spin raised.
SpinFails(r) ==
  /\ pc[r] = "spin"
  /\ Retry(r)
  /\ UNCHANGED <<linkVars, service, calls>>

\* send_ros_service_response, to the connection that is current now.
Respond(r) ==
  /\ pc[r] = "respond"
  /\ PutIfConnected(Response(r, calls[r]))
  /\ Goto(r, "ended")
  /\ UNCHANGED <<queue, service, attempt, calls>>

\* Fault: no return after the error.
ReportAndRespond(r) ==
  /\ pc[r] = "report"
  /\ PutIfConnected(Error(r))
  /\ Goto(r, "respond")
  /\ UNCHANGED <<queue, service, attempt, calls>>

\* No response: an error message, and no answer to the request.
Report(r) ==
  /\ pc[r] = "report"
  /\ PutIfConnected(Error(r))
  /\ Goto(r, "ended")
  /\ UNCHANGED <<queue, service, attempt, calls>>

-----------------------------------------------------------------------------
ThreadStep(r) ==
  \/ Deserialize(r)
  \/ ServiceFound(r)
  \/ ServiceMissing(r)
  \/ WaitRaises(r)
  \/ CallAsync(r)
  \/ CallRaises(r)
  \/ Answered(r)
  \/ SpinFails(r)
  \/ Respond(r)
  \/ Report(r)

Next ==
  \/ QueueChanges \/ Unregister \/ Register \/ ServiceToggles
  \/ \E x \in asked : ServiceRuns(x)
  \/ \E r \in Requests : StartThread(r) \/ UnknownService(r) \/ ThreadStep(r)

Spec == Init /\ [][Next]_vars

\* Threads that can run are scheduled, and the waits of 1 s and 10 s end. The
\* service, ROS and Unity owe nothing.
FairSpec == Spec /\ \A r \in Requests : WF_vars(ThreadStep(r))
-----------------------------------------------------------------------------
(* Properties.                                                             *)

Places == {"idle", "deserialize", "wait", "call", "spin", "respond", "report",
           "ended", "dead"}
Calls  == [request : Requests, number : Nat]
Items  == [kind : {"response", "error"}, request : Requests, number : Nat]

TypeOK ==
  /\ queue \in Conns \cup {None}
  /\ outbox \in [Conns -> Seq(Items)]
  /\ entity \in Nat
  /\ gone \in SUBSET Nat
  /\ up \in BOOLEAN
  /\ asked \in SUBSET Calls
  /\ runs \in [Requests -> Nat]
  /\ answers \in SUBSET Calls
  /\ pc \in [Requests -> Places]
  /\ service \in [Requests -> Nat]
  /\ attempt \in [Requests -> Nat]
  /\ calls \in [Requests -> Nat]

\* However attempts fail, time out, raise or are answered late, the service runs
\* a request at most three times, and no oftener than it was called.
RunsBounded ==
  \A r \in Requests : runs[r] <= calls[r] /\ calls[r] <= 3

\* Though the service may run a request three times and answer each, Unity hears
\* of it once, on one connection: a response or an error, not both.
OneOutcome ==
  \A r \in Requests, c, d \in Conns :
    \A i \in DOMAIN outbox[c], j \in DOMAIN outbox[d] :
      outbox[c][i].request = r /\ outbox[d][j].request = r => c = d /\ i = j

\* The response Unity gets is the service's answer to the last call that was made
\* for this request. A late answer to an earlier attempt is never passed on.
AnswerIsCurrent ==
  \A c \in Conns : \A i \in DOMAIN outbox[c] :
    LET m == outbox[c][i] IN
    m.kind = "response" =>
      m.number = calls[m.request] /\ Call(m.request, m.number) \in answers

\* Every service thread ends, whatever the service does.
ThreadEnds ==
  \A r \in Requests : pc[r] = "deserialize" ~> pc[r] \in {"ended", "dead"}

\* While the connection stays and the service is not registered anew, Unity hears
\* of every well-formed request in the end.
CallerHears ==
  \A r \in Requests \ Malformed, c \in Conns :
    (pc[r] = "deserialize" /\ queue = c) ~>
      \/ \E i \in DOMAIN outbox[c] : outbox[c][i].request = r
      \/ queue # c
      \/ service[r] \in gone
=============================================================================
