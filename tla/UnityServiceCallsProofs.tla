----------------------- MODULE UnityServiceCallsProofs -----------------------
(***************************************************************************)
(* Theorems about UnityServiceCalls, for any sets of connections and       *)
(* callback threads and any bounds. In the first part connections may      *)
(* overlap, and the client threads race on pending_srv_id; in the second   *)
(* there is one connection, and a call is a RemoteCall.                    *)
(***************************************************************************)
EXTENDS UnityServiceCalls, SequenceTheorems, TLAPS

\* Names of one-line expressions of the code.
USE DEF NextSrvId, RequestFlag, WaitingWithout, Given, PendingCleared

-----------------------------------------------------------------------------
(* Type correctness.                                                       *)

\* What Unity sends are messages, and none of them is NoMessage.
Proper == {m \in Messages : m.kind # "none"}

LEMMA UnityMessages ==
  ASSUME NEW id \in Nat
  PROVE  /\ Response(id) \in Seq(Proper)
         /\ Request(id) \in Seq(Proper)
         /\ <<Other>> \in Seq(Proper)
<1>1. /\ Message("response", id) \in Proper
      /\ Message("answer", id) \in Proper
      /\ Message("request", id) \in Proper
      /\ Message("question", id) \in Proper
      /\ Message("other", 0) \in Proper
  BY DEF Message, Proper, Messages
<1> QED
  BY <1>1 DEF Response, Request, Other

\* A client thread between the read of a message and the next read.
Holding == {"dispatch", "command", "flag", "payload", "serve", "report",
            "respond", "resume", "clear"}

\* Besides the types: what is read and handled is a message of Unity's, and the
\* client thread starts with the connection.
ReadInv ==
  /\ \A c \in Conns : conn[c] = "new" => rpc[c] = "none"
  /\ \A c \in Conns : inbox[c] \in Seq(Proper)
  /\ \A c \in Conns : rpc[c] \in Holding => rmsg[c] \in Proper

TypeInv == TypeOK /\ ReadInv


LEMMA TypeInit == Init => TypeInv
<1> SUFFICES ASSUME Init PROVE TypeInv
  OBVIOUS
<1>1. NoMessage \in Messages
  BY DEF NoMessage, Message, Messages
<1>2. ReadInv
  BY DEF Init, ReadInv, Holding
<1>3. /\ rmsg \in [Conns -> Messages]
      /\ result \in [Callbacks -> Messages]
  BY <1>1 DEF Init
<1>4. /\ outbox \in [Conns -> Seq(Nat)]
      /\ inbox \in [Conns -> Seq(Messages)]
  BY DEF Init
<1>5. /\ returned \in SUBSET [id : Nat, msg : Messages]
      /\ served \in SUBSET [id : SrvIds, msg : Messages]
  BY DEF Init
<1>6. /\ queue \in Conns \cup {None}
      /\ conn   \in [Conns -> {"new", "open", "broken", "closed"}]
      /\ rpc    \in [Conns -> {"none", "read", "dispatch", "command", "flag",
                              "payload", "serve", "report", "respond", "resume",
                              "clear", "done"}]
      /\ rid    \in [Conns -> SrvIds]
      /\ pending_srv_id \in SrvIds
  BY DEF Init, SrvIds
<1>7. /\ cpc  \in [Callbacks -> {"idle", "alloc", "put", "sleep", "waiting",
                               "woken"}]
      /\ job  \in [Callbacks -> Nat]
      /\ held \in [Callbacks -> Conns \cup {None}]
  BY DEF Init
<1>8. /\ services_waiting \in SUBSET Nat
      /\ next_srv_id \in Nat
      /\ sent \in Nat
  BY DEF Init
<1>9. pending_srv_is_request \in BOOLEAN
  BY Zenon DEF Init
<1> QED
  BY <1>2, <1>3, <1>4, <1>5, <1>6, <1>7, <1>8, <1>9, Zenon DEF TypeInv, TypeOK

LEMMA TypeStep == TypeInv /\ [Next]_vars => TypeInv'
<1> SUFFICES ASSUME TypeInv, [Next]_vars
             PROVE  TypeInv'
  OBVIOUS
<1> USE ServiceAssumption DEF TypeInv, TypeOK, ReadInv
<1>0. /\ Proper \subseteq Messages
      /\ \A k \in Conns : inbox[k] \in Seq(Messages)
  BY DEF Proper
<1>1. ASSUME NEW c \in Conns, Connect(c) PROVE TypeInv'
  BY <1>1 DEF Connect, pendingVars, idVars, callVars, Holding
<1>2. ASSUME NEW c \in Conns, Break(c) PROVE TypeInv'
  BY <1>2 DEF Break, readerVars, pendingVars, idVars, callVars
<1>3. ASSUME NEW c \in Conns, SenderEnds(c) PROVE TypeInv'
  BY <1>3 DEF SenderEnds, readerVars, pendingVars, idVars, callVars
<1>4. ASSUME NEW c \in Conns, UnityAnswers(c) PROVE TypeInv'
  <2>1. Head(outbox[c]) \in Nat /\ Tail(outbox[c]) \in Seq(Nat)
    BY <1>4, HeadTailProperties DEF UnityAnswers
  <2>2. inbox[c] \o Response(Head(outbox[c])) \in Seq(Proper)
    BY <2>1, UnityMessages, ConcatProperties
  <2>3. inbox[c] \o Response(Head(outbox[c])) \in Seq(Messages)
    BY <2>2, <1>0
  <2> QED
    BY <1>4, <2>1, <2>2, <2>3
       DEF UnityAnswers, linkVars, readerVars, pendingVars, idVars, callVars
<1>5. ASSUME NEW c \in Conns, UnitySends(c) PROVE TypeInv'
  <2>1. sent' \in Nat
    BY <1>5 DEF UnitySends
  <2>2. PICK ms \in {Request(sent'), <<Other>>} :
          inbox' = [inbox EXCEPT ![c] = @ \o ms]
    BY <1>5 DEF UnitySends
  <2>3. inbox[c] \o ms \in Seq(Proper)
    BY <2>1, <2>2, UnityMessages, ConcatProperties
  <2>4. inbox[c] \o ms \in Seq(Messages)
    BY <2>3, <1>0
  <2> QED
    BY <1>5, <2>1, <2>2, <2>3, <2>4
       DEF UnitySends, linkVars, readerVars, pendingVars, idVars, callVars
<1>6. ASSUME NEW k \in Callbacks, BeginCall(k) PROVE TypeInv'
  BY <1>6 DEF BeginCall, linkVars, readerVars, pendingVars, idVars
<1>7. ASSUME NEW k \in Callbacks, AllocSrvId(k) PROVE TypeInv'
  BY <1>7 DEF AllocSrvId, linkVars, readerVars, pendingVars
<1>8. ASSUME NEW k \in Callbacks, FetchQueue(k) PROVE TypeInv'
  <2>1. NoMessage \in Messages
    BY DEF NoMessage, Message, Messages
  <2>2. UNCHANGED <<linkVars, outbox, inbox, readerVars, pendingVars, idVars, sent,
                    returned, served>>
    BY <1>8 DEF FetchQueue
  <2>3. CASE queue = None
    <3>0. EndCall(k)
      BY <1>8, <2>3 DEF FetchQueue
    <3>1. /\ cpc' \in [Callbacks -> {"idle", "alloc", "put", "sleep", "waiting",
                                    "woken"}]
          /\ job' \in [Callbacks -> Nat]
          /\ held' \in [Callbacks -> Conns \cup {None}]
      BY <3>0 DEF EndCall
    <3>2. result' \in [Callbacks -> Messages]
      BY <2>1, <3>0 DEF EndCall
    <3> QED
      BY <2>2, <3>1, <3>2 DEF linkVars, readerVars, pendingVars, idVars
  <2>4. CASE queue # None
    BY <1>8, <2>2, <2>4 DEF FetchQueue, linkVars, readerVars, pendingVars, idVars
  <2> QED
    BY <2>3, <2>4
<1>9. ASSUME NEW k \in Callbacks, Put(k) PROVE TypeInv'
  BY <1>9 DEF Put, linkVars, readerVars, pendingVars, idVars
<1>10. ASSUME NEW k \in Callbacks, Sleep(k) PROVE TypeInv'
  BY <1>10 DEF Sleep, linkVars, readerVars, pendingVars, idVars
<1>11. ASSUME NEW k \in Callbacks, Return(k) PROVE TypeInv'
  <2>1. NoMessage \in Messages
    BY DEF NoMessage, Message, Messages
  <2>2. [id |-> job[k], msg |-> result[k]] \in [id : Nat, msg : Messages]
    OBVIOUS
  <2>3. returned' \in SUBSET [id : Nat, msg : Messages]
    BY <1>11, <2>2 DEF Return
  <2>4. result' \in [Callbacks -> Messages]
    BY <1>11, <2>1 DEF Return, EndCall
  <2>5. ReadInv'
    BY <1>11 DEF Return, linkVars, readerVars
  <2> QED
    BY <1>11, <2>3, <2>4, <2>5
       DEF Return, EndCall, linkVars, readerVars, pendingVars, idVars
<1>12. ASSUME NEW c \in Conns, Read(c) PROVE TypeInv'
  <2>1. Head(inbox[c]) \in Proper /\ Tail(inbox[c]) \in Seq(Proper)
    BY <1>12, HeadTailProperties DEF Read
  <2>2. Head(inbox[c]) \in Messages /\ Tail(inbox[c]) \in Seq(Messages)
    BY <2>1, <1>0
  <2> QED
    BY <1>12, <2>1, <2>2
       DEF Read, Holding, linkVars, pendingVars, idVars, callVars
<1>13. ASSUME NEW c \in Conns, ReadEnds(c) PROVE TypeInv'
  <2>1. <<>> \in Seq(Proper) /\ <<>> \in Seq(Messages)
    OBVIOUS
  <2> QED
    BY <1>13, <2>1 DEF ReadEnds, Holding, linkVars, pendingVars, idVars, callVars
<1>14. ASSUME NEW c \in Conns, NoWaiter(c) \/ PutErrorRaises(c) PROVE TypeInv'
  <2>1. <<>> \in Seq(Proper) /\ <<>> \in Seq(Messages)
    OBVIOUS
  <2>2. HandlerRaises(c) /\ rpc[c] \in {"report", "respond"}
    BY <1>14 DEF NoWaiter, PutErrorRaises
  <2>3. conn[c] # "new"
    BY <2>2
  <2> QED
    BY <2>1, <2>2, <2>3 DEF HandlerRaises, Holding, pendingVars, idVars, callVars
<1>15. ASSUME NEW c \in Conns,
              \/ DispatchPayload(c) \/ DispatchCommand(c) \/ DispatchOther(c)
              \/ TestFlag(c) \/ ClearPending(c)
       PROVE  TypeInv'
  BY <1>15 DEF DispatchPayload, DispatchCommand, DispatchOther, TestFlag, ClearPending,
               Holding, SrvIds, linkVars, pendingVars, idVars, callVars
<1>16. ASSUME NEW c \in Conns, SetPending(c) PROVE TypeInv'
  <2>1. rmsg[c].id \in Nat
    BY DEF Messages
  <2> QED
    BY <1>16, <2>1 DEF SetPending, Holding, SrvIds, linkVars, idVars, callVars
<1>17. ASSUME NEW c \in Conns, SetFlag(c) PROVE TypeInv'
  BY <1>17 DEF SetFlag, Holding, linkVars, idVars, callVars
<1>18. ASSUME NEW c \in Conns, ServeRequest(c) PROVE TypeInv'
  BY <1>18 DEF ServeRequest, Holding, linkVars, pendingVars, idVars, callVars
<1>23. ASSUME NEW c \in Conns, TestErrorQueue(c) \/ PutError(c) PROVE TypeInv'
  BY <1>23 DEF TestErrorQueue, PutError, Holding, linkVars, pendingVars, idVars, callVars
<1>19. ASSUME NEW c \in Conns, TakeWaiter(c) PROVE TypeInv'
  BY <1>19 DEF TakeWaiter, Holding, linkVars, pendingVars, callVars
<1>20. ASSUME NEW c \in Conns, Resume(c) PROVE TypeInv'
  BY <1>20 DEF Resume, Holding, linkVars, pendingVars, idVars
<1>21. CASE UNCHANGED vars
  BY <1>21 DEF vars, linkVars, readerVars, pendingVars, idVars, callVars
<1>22. ASSUME NEW c \in Conns, UnityAnswersTwice(c) PROVE TypeInv'
  <2>1. sent' \in Nat /\ Head(outbox[c]) \in Nat
    BY <1>22, HeadTailProperties DEF UnityAnswersTwice
  <2>2. inbox[c] \o Response(Head(outbox[c])) \in Seq(Proper)
    BY <2>1, UnityMessages, ConcatProperties
  <2>3. inbox[c] \o Response(Head(outbox[c])) \in Seq(Messages)
    BY <2>2, <1>0
  <2> QED
    BY <1>22, <2>1, <2>2, <2>3
       DEF UnityAnswersTwice, linkVars, readerVars, pendingVars, idVars, callVars
<1> QED
  BY <1>1, <1>2, <1>3, <1>4, <1>5, <1>6, <1>7, <1>8, <1>9, <1>10, <1>11, <1>12,
     <1>13, <1>14, <1>15, <1>16, <1>17, <1>18, <1>19, <1>20, <1>21, <1>22, <1>23
     DEF Next, ReaderStep, CallbackStep

-----------------------------------------------------------------------------
(* Who has an id. At any time an id that was given out is in at most one   *)
(* of three places: in services_waiting, in the hand of one client thread  *)
(* that has taken it from there and is about to notify, or used up; and a  *)
(* call that is woken, or has returned, is one whose id is used up.        *)

InHand(c, id) == rpc[c] = "resume" /\ rid[c] = id
Used(id)  == id \notin services_waiting /\ \A c \in Conns : ~InHand(c, id)

CallInv ==
  \A k \in Callbacks :
    /\ cpc[k] \in Called => job[k] \in Issued
    /\ cpc[k] \notin Called => job[k] = 0 /\ result[k] = NoMessage

HandInv ==
  /\ \A c \in Conns : rpc[c] = "resume" =>
       rid[c] \in Issued /\ rid[c] \notin services_waiting
  /\ \A c, d \in Conns :
       rpc[c] = "resume" /\ rpc[d] = "resume" /\ rid[c] = rid[d] => c = d

UsedInv ==
  /\ \A k \in Callbacks : cpc[k] = "woken" => Used(job[k])
  /\ \A r \in returned : r.id \in Issued /\ Used(r.id)

\* No two threads that are inside a call have the same srv_id.
CallsDistinct ==
  \A j, k \in Callbacks :
    j # k /\ cpc[j] \in Called /\ cpc[k] \in Called => job[j] # job[k]

IdInv ==
  /\ next_srv_id >= 1001
  /\ services_waiting \subseteq Issued
  /\ CallInv
  /\ HandInv
  /\ UsedInv
  /\ CallsDistinct

LEMMA IdInit == Init => IdInv
  BY DEF Init, IdInv, Issued, CallInv, HandInv, UsedInv, CallsDistinct, Called

\* A step that gives out no id, takes none, and moves no call but from one place
\* inside of it to another.
LEMMA IdKept ==
  ASSUME IdInv,
         UNCHANGED <<idVars, job, result, returned>>,
         \A c \in Conns : rpc'[c] = "resume" => rpc[c] = "resume" /\ rid'[c] = rid[c],
         \A k \in Callbacks : /\ cpc'[k] \in Called <=> cpc[k] \in Called
                              /\ cpc'[k] = "woken" => cpc[k] = "woken"
  PROVE  IdInv'
<1> USE DEF IdInv, idVars
<1>1. Issued' = Issued
  BY DEF Issued
<1>2. CallInv' /\ CallsDistinct'
  BY <1>1 DEF CallInv, CallsDistinct
<1>3. HandInv'
  BY <1>1 DEF HandInv
<1>4. UsedInv'
  BY <1>1 DEF UsedInv, Used, InHand
<1> QED
  BY <1>1, <1>2, <1>3, <1>4

\* The steps that neither give out an id nor take it.
Quiet(c) ==
  \/ Connect(c) \/ Break(c) \/ SenderEnds(c)
  \/ UnityAnswers(c) \/ UnityAnswersTwice(c) \/ UnitySends(c)
  \/ Read(c) \/ ReadEnds(c) \/ NoWaiter(c) \/ PutErrorRaises(c)
  \/ DispatchPayload(c) \/ DispatchCommand(c) \/ DispatchOther(c)
  \/ SetPending(c) \/ SetFlag(c) \/ TestFlag(c) \/ ClearPending(c)
  \/ ServeRequest(c) \/ TestErrorQueue(c) \/ PutError(c)

LEMMA QuietKeeps ==
  ASSUME TypeInv, NEW c \in Conns, Quiet(c)
  PROVE  /\ UNCHANGED <<idVars, job, cpc, result, returned, rid>>
         /\ \A d \in Conns : rpc'[d] = "resume" <=> rpc[d] = "resume"
<1> USE DEF TypeInv
<1>1. CASE Connect(c)
  BY <1>1 DEF ReadInv, Connect, callVars, TypeOK
<1>5. CASE \/ Break(c) \/ SenderEnds(c)
            \/ UnityAnswers(c) \/ UnityAnswersTwice(c) \/ UnitySends(c)
  BY <1>5 DEF Break, SenderEnds, UnityAnswers, UnityAnswersTwice, UnitySends,
              callVars, readerVars
<1>2. CASE Read(c) \/ ReadEnds(c) \/ NoWaiter(c) \/ PutErrorRaises(c)
  BY <1>2 DEF Read, ReadEnds, NoWaiter, PutErrorRaises, HandlerRaises, callVars, TypeOK
<1>3. CASE DispatchPayload(c) \/ DispatchCommand(c) \/ DispatchOther(c) \/ TestFlag(c)
  BY <1>3 DEF DispatchPayload, DispatchCommand, DispatchOther, TestFlag, callVars,
              TypeOK
<1>4. CASE \/ SetPending(c) \/ SetFlag(c) \/ ClearPending(c)
           \/ ServeRequest(c) \/ TestErrorQueue(c) \/ PutError(c)
  BY <1>4 DEF SetPending, SetFlag, ServeRequest, TestErrorQueue, PutError, ClearPending,
              callVars, TypeOK
<1> QED
  BY <1>1, <1>2, <1>3, <1>4, <1>5 DEF Quiet

LEMMA IdStep == TypeInv /\ IdInv /\ [Next]_vars => IdInv'
<1> SUFFICES ASSUME TypeInv, IdInv, [Next]_vars
             PROVE  IdInv'
  OBVIOUS
<1> USE DEF TypeInv, TypeOK
<1>1. ASSUME NEW c \in Conns, Quiet(c)
      PROVE  IdInv'
  BY <1>1, QuietKeeps, IdKept
<1>2. ASSUME NEW k \in Callbacks, BeginCall(k) \/ Put(k) \/ Sleep(k)
      PROVE  IdInv'
  <2>1. /\ UNCHANGED <<idVars, job, result, returned, rpc, rid>>
        /\ \A j \in Callbacks : /\ cpc'[j] \in Called <=> cpc[j] \in Called
                                /\ cpc'[j] = "woken" => cpc[j] = "woken"
    BY <1>2 DEF BeginCall, Put, Sleep, readerVars, Called
  <2> QED
    BY <2>1, IdKept
<1>3. ASSUME NEW k \in Callbacks, AllocSrvId(k)
      PROVE  IdInv'
  <2> DEFINE id == next_srv_id
  <2>1. /\ id \in Nat /\ id >= 1001 /\ id \notin Issued
        /\ next_srv_id' = id + 1
        /\ services_waiting' = services_waiting \cup {id}
        /\ job' = [job EXCEPT ![k] = id]
        /\ cpc' = [cpc EXCEPT ![k] = "put"]
        /\ cpc[k] = "alloc"
        /\ UNCHANGED <<rpc, rid, result, returned>>
    BY <1>3 DEF AllocSrvId, readerVars, IdInv, Issued
  <2>2. Issued' = Issued \cup {id}
    BY <2>1 DEF Issued
  <2>3. services_waiting' \subseteq Issued'
    BY <2>1, <2>2 DEF IdInv
  <2>4. CallInv' /\ CallsDistinct'
    BY <2>1, <2>2 DEF IdInv, CallInv, CallsDistinct, Called
  <2>5. HandInv'
    BY <2>1, <2>2 DEF IdInv, HandInv
  <2>6. UsedInv'
    BY <2>1, <2>2 DEF IdInv, CallInv, UsedInv, Used, InHand, HandInv, Called
  <2> QED
    BY <2>1, <2>3, <2>4, <2>5, <2>6 DEF IdInv
<1>4. ASSUME NEW k \in Callbacks, EndCall(k),
             UNCHANGED <<idVars, rpc, rid>>,
             \/ UNCHANGED returned
             \/ /\ cpc[k] = "woken"
                /\ returned' = returned \cup {[id |-> job[k], msg |-> result[k]]}
      PROVE  IdInv'
  <2>1. Issued' = Issued /\ services_waiting' = services_waiting
    BY <1>4 DEF idVars, Issued
  <2>2. CallInv' /\ CallsDistinct'
    BY <1>4, <2>1 DEF EndCall, IdInv, CallInv, CallsDistinct, Called
  <2>3. HandInv'
    BY <1>4, <2>1 DEF IdInv, HandInv
  <2>4. \A x : Used(x)' <=> Used(x)
    BY <1>4, <2>1 DEF Used, InHand
  <2>5. \A r \in returned' : r.id \in Issued /\ Used(r.id)
    BY <1>4 DEF IdInv, UsedInv, CallInv, Called
  <2>6. \A j \in Callbacks : cpc'[j] = "woken" => cpc[j] = "woken" /\ job'[j] = job[j]
    BY <1>4 DEF EndCall
  <2>7. UsedInv'
    BY <1>4, <2>1, <2>5, <2>6 DEF IdInv, UsedInv, Used, InHand
  <2> QED
    BY <1>4, <2>1, <2>2, <2>3, <2>7 DEF IdInv, idVars
<1>5. ASSUME NEW k \in Callbacks, FetchQueue(k)
      PROVE  IdInv'
  <2>1. CASE queue = None
    <3>1. EndCall(k) /\ UNCHANGED <<idVars, rpc, rid, returned>>
      BY <1>5, <2>1 DEF FetchQueue, readerVars
    <3> QED
      BY <1>4, <3>1
  <2>2. CASE queue # None
    <3>1. UNCHANGED <<idVars, job, cpc, result, returned, rpc, rid>>
      BY <1>5, <2>2 DEF FetchQueue, readerVars
    <3> QED
      BY <3>1, IdKept
  <2> QED
    BY <2>1, <2>2
<1>6. ASSUME NEW k \in Callbacks, Return(k)
      PROVE  IdInv'
  <2>1. /\ EndCall(k) /\ UNCHANGED <<idVars, rpc, rid>>
        /\ cpc[k] = "woken"
        /\ returned' = returned \cup {[id |-> job[k], msg |-> result[k]]}
    BY <1>6 DEF Return, readerVars
  <2> QED
    BY <1>4, <2>1
<1>7. ASSUME NEW c \in Conns, TakeWaiter(c)
      PROVE  IdInv'
  <2> DEFINE id == pending_srv_id
  <2>1. /\ id \in services_waiting
        /\ services_waiting' = services_waiting \ {id}
        /\ rid' = [rid EXCEPT ![c] = id]
        /\ rpc' = [rpc EXCEPT ![c] = "resume"]
        /\ UNCHANGED <<next_srv_id, job, cpc, result, returned>>
    BY <1>7 DEF TakeWaiter, callVars
  <2>2. Issued' = Issued /\ id \in Issued
    BY <2>1 DEF Issued, IdInv
  <2>3. CallInv' /\ CallsDistinct'
    BY <2>1, <2>2 DEF IdInv, CallInv, CallsDistinct
  <2>4. HandInv'
    BY <2>1, <2>2 DEF IdInv, HandInv
  <2>5. \A x : Used(x) => Used(x)'
    BY <2>1 DEF Used, InHand
  <2>6. UsedInv'
    BY <2>1, <2>2, <2>5 DEF IdInv, UsedInv
  <2> QED
    BY <2>1, <2>2, <2>3, <2>4, <2>6 DEF IdInv
<1>8. ASSUME NEW c \in Conns, Resume(c)
      PROVE  IdInv'
  <2>1. /\ rpc[c] = "resume"
        /\ rpc' = [rpc EXCEPT ![c] = "clear"]
        /\ UNCHANGED <<idVars, rid, job, returned>>
    BY <1>8 DEF Resume, callVars
  <2>2. \A k \in Callbacks :
          \/ cpc'[k] = cpc[k] /\ result'[k] = result[k]
          \/ job[k] = rid[c] /\ cpc'[k] = cpc[k]
          \/ job[k] = rid[c] /\ cpc[k] = "waiting" /\ cpc'[k] = "woken"
    BY <1>8 DEF Resume
  <2>3. Issued' = Issued /\ services_waiting' = services_waiting /\ rid[c] \in Issued
    BY <2>1 DEF idVars, Issued, IdInv, HandInv
  <2>4. \A k \in Callbacks : job[k] = rid[c] => cpc[k] \in Called
    BY <2>3 DEF IdInv, CallInv, Issued
  <2>5. CallInv' /\ CallsDistinct'
    BY <2>1, <2>2, <2>3, <2>4 DEF IdInv, CallInv, CallsDistinct, Called
  <2>6. HandInv'
    BY <2>1, <2>3 DEF IdInv, HandInv
  <2>7. Used(rid[c])'
    BY <2>1, <2>3 DEF Used, InHand, IdInv, HandInv
  <2>8. \A x : Used(x) => Used(x)'
    BY <2>1, <2>3 DEF Used, InHand
  <2>9. UsedInv'
    BY <2>1, <2>2, <2>3, <2>7, <2>8 DEF IdInv, UsedInv
  <2> QED
    BY <2>1, <2>3, <2>5, <2>6, <2>9 DEF IdInv, idVars
<1>9. CASE UNCHANGED vars
  BY <1>9, IdKept DEF vars, readerVars, callVars
<1> QED
  BY <1>1, <1>2, <1>3, <1>5, <1>6, <1>7, <1>8, <1>9
     DEF Next, ReaderStep, CallbackStep, Quiet

-----------------------------------------------------------------------------
(* A call that waits can be found by its response.                         *)

\* The call of k has an entry, or a result, or is in a client thread's hand.
Found(k) ==
  \/ job[k] \in services_waiting
  \/ result[k] # NoMessage
  \/ \E c \in Conns : InHand(c, job[k])

Sought == {"put", "sleep", "waiting"}

LEMMA FoundStep ==
  TypeInv /\ IdInv /\ NotForgotten /\ [Next]_vars => NotForgotten'
<1> SUFFICES ASSUME TypeInv, IdInv, NotForgotten, [Next]_vars,
                    NEW k \in Callbacks, cpc'[k] \in Sought
             PROVE  Found(k)'
  BY DEF NotForgotten, Found, InHand, Sought
<1> USE DEF TypeInv, TypeOK
<1>0. cpc[k] \in Sought => Found(k)
  BY DEF NotForgotten, Found, InHand, Sought
<1>1. ASSUME NEW c \in Conns, Quiet(c)
      PROVE  Found(k)'
  BY <1>0, <1>1, QuietKeeps DEF Found, InHand, idVars
<1>2. ASSUME NEW j \in Callbacks, BeginCall(j) \/ Put(j) \/ Sleep(j)
      PROVE  Found(k)'
  <2>1. /\ UNCHANGED <<idVars, job, result, rpc, rid>>
        /\ cpc'[k] \in Sought => cpc[k] \in Sought
    BY <1>2 DEF BeginCall, Put, Sleep, readerVars, Sought
  <2> QED
    BY <1>0, <2>1 DEF Found, InHand, idVars
<1>3. ASSUME NEW j \in Callbacks, AllocSrvId(j)
      PROVE  Found(k)'
  <2>1. UNCHANGED <<result, rpc, rid>>
    BY <1>3 DEF AllocSrvId, readerVars
  <2>2. CASE k = j
    BY <1>3, <2>2 DEF AllocSrvId, Found
  <2>3. CASE k # j
    BY <1>0, <1>3, <2>1, <2>3 DEF AllocSrvId, Found, InHand
  <2> QED
    BY <2>2, <2>3
<1>4. ASSUME NEW j \in Callbacks, FetchQueue(j) \/ Return(j)
      PROVE  Found(k)'
  <2>1. UNCHANGED <<idVars, rpc, rid>>
    BY <1>4 DEF FetchQueue, Return, readerVars
  <2>2. \/ UNCHANGED <<cpc, job, result>>
        \/ EndCall(j)
    BY <1>4 DEF FetchQueue, Return
  <2>3. cpc'[k] = cpc[k] /\ job'[k] = job[k] /\ result'[k] = result[k]
    BY <2>2 DEF EndCall, Sought
  <2> QED
    BY <1>0, <2>1, <2>3 DEF Found, InHand, idVars
<1>5. ASSUME NEW c \in Conns, TakeWaiter(c)
      PROVE  Found(k)'
  <2>1. rpc[c] = "respond"
    BY <1>5 DEF TakeWaiter
  <2> QED
    BY <1>0, <1>5, <2>1 DEF TakeWaiter, Found, InHand, callVars
<1>6. ASSUME NEW c \in Conns, Resume(c)
      PROVE  Found(k)'
  <2>1. rmsg[c] # NoMessage
    BY <1>6 DEF Resume, ReadInv, Holding, Proper, NoMessage, Message
  <2>2. cpc[k] \in Sought
    BY <1>6 DEF Resume, Sought
  <2>3. /\ UNCHANGED <<idVars, job, rid>>
        /\ rpc' = [rpc EXCEPT ![c] = "clear"]
        /\ result'[k] = IF job[k] = rid[c] THEN rmsg[c] ELSE result[k]
    BY <1>6 DEF Resume, callVars
  <2> QED
    BY <1>0, <2>1, <2>2, <2>3 DEF Found, InHand, idVars
<1>7. CASE UNCHANGED vars
  BY <1>0, <1>7 DEF vars, readerVars, callVars, idVars, Found, InHand
<1> QED
  BY <1>1, <1>2, <1>3, <1>4, <1>5, <1>6, <1>7
     DEF Next, ReaderStep, CallbackStep, Quiet

-----------------------------------------------------------------------------
Inv == TypeInv /\ IdInv /\ NotForgotten

LEMMA Invariance == Spec => []Inv
<1>1. Init => NotForgotten
  BY DEF Init, NotForgotten
<1> QED
  BY <1>1, TypeInit, TypeStep, IdInit, IdStep, FoundStep, PTL DEF Spec, Inv

\* The client threads and callbacks keep to their types however they interleave.
THEOREM TypeCorrect == Spec => []TypeOK
  BY Invariance, PTL DEF Inv, TypeInv

\* Two calls in progress never share a srv_id.
THEOREM CallsAreDistinct == Spec => []CallsDistinct
  BY Invariance, PTL DEF Inv, IdInv

\* A call that waits is never dropped from the table but by the response to it.
THEOREM CallsAreFound == Spec => []NotForgotten
  BY Invariance, PTL DEF Inv

\* A call that has returned is not woken again, by whatever connection.
THEOREM CallsReturnOnce == Spec => []ReturnsOnce
<1>1. IdInv => ReturnsOnce
  BY DEF IdInv, UsedInv, Used, InHand, ReturnsOnce
<1> QED
  BY <1>1, Invariance, PTL DEF Inv

-----------------------------------------------------------------------------
(* What a call returns and what a service is handed, while one connection  *)
(* is all there is. With two connections neither holds.                    *)

OneConnection == \A c, d \in Conns : c = d

-----------------------------------------------------------------------------
(* What is read comes in pairs.                                            *)

Announces(m) == m.kind \in {"response", "request"}
IsPayload(m) == m.kind \in {"answer", "question"}

\* n may be read after m: a payload after its command, and only there.
Follows(m, n) ==
  /\ m.kind = "response" => n = Message("answer", m.id)
  /\ m.kind = "request"  => n = Message("question", m.id)
  /\ ~Announces(m) => ~IsPayload(n)

\* s may be read after m, and ends with a whole message.
Paired(m, s) ==
  /\ \A i \in 1 .. Len(s) : Follows(IF i = 1 THEN m ELSE s[i - 1], s[i])
  /\ ~Announces(IF s = <<>> THEN m ELSE s[Len(s)])

LEMMA PairedRead ==
  ASSUME NEW m, NEW s \in Seq(Messages), s # <<>>, Paired(m, s)
  PROVE  Follows(m, Head(s)) /\ Paired(Head(s), Tail(s))
<1> DEFINE t == Tail(s)
<1>1. /\ t \in Seq(Messages) /\ Len(t) = Len(s) - 1
      /\ \A i \in 1 .. Len(t) : t[i] = s[i + 1]
  BY HeadTailProperties
<1>2. Len(s) \in Nat \ {0} /\ (t = <<>> <=> Len(s) = 1)
  <2>1. Len(s) \in Nat /\ Len(s) # 0
    BY EmptySeq, LenProperties
  <2>2. t = <<>> <=> Len(t) = 0
    BY <1>1, EmptySeq
  <2> HIDE DEF t
  <2> QED
    BY <1>1, <2>1, <2>2
<1>3. Head(s) = s[1]
  BY <1>2
<1> HIDE DEF t
<1>4. Follows(m, s[1])
  BY <1>2 DEF Paired
<1>5. ASSUME NEW i \in 1 .. Len(t)
      PROVE  Follows(IF i = 1 THEN s[1] ELSE t[i - 1], t[i])
  <2>1. i + 1 \in 1 .. Len(s) /\ i + 1 # 1 /\ (i + 1) - 1 = i
    BY <1>1, <1>2
  <2>2. Follows(s[i], s[i + 1])
    BY <2>1 DEF Paired
  <2>3. (IF i = 1 THEN s[1] ELSE t[i - 1]) = s[i]
    BY <1>1, <1>2
  <2> QED
    BY <1>1, <2>2, <2>3
<1>6. (IF t = <<>> THEN s[1] ELSE t[Len(t)]) = s[Len(s)]
  <2>1. CASE t = <<>>
    BY <1>2, <2>1
  <2>2. CASE t # <<>>
    BY <1>1, <1>2, <2>2
  <2> QED
    BY <2>1, <2>2
<1>7. ~Announces(s[Len(s)])
  BY DEF Paired
<1> QED
  BY <1>3, <1>4, <1>5, <1>6, <1>7 DEF Paired, t

LEMMA PairedSent ==
  ASSUME NEW m, NEW s \in Seq(Messages), NEW t \in Seq(Messages), t # <<>>,
         Paired(m, s), \A n : ~Announces(n) => Paired(n, t)
  PROVE  Paired(m, s \o t)
<1> DEFINE u == s \o t
           last == IF s = <<>> THEN m ELSE s[Len(s)]
<1>1. /\ u \in Seq(Messages) /\ Len(u) = Len(s) + Len(t)
      /\ \A i \in 1 .. Len(s) + Len(t) :
           u[i] = IF i <= Len(s) THEN s[i] ELSE t[i - Len(s)]
  BY ConcatProperties
<1>2. /\ Len(s) \in Nat /\ Len(t) \in Nat \ {0}
      /\ s = <<>> <=> Len(s) = 0
  BY EmptySeq, LenProperties
<1>3. u # <<>>
  BY <1>1, <1>2, EmptySeq
<1>4. Paired(last, t)
  BY DEF Paired
<1> HIDE DEF u
<1>5. ASSUME NEW i \in 1 .. Len(u)
      PROVE  Follows(IF i = 1 THEN m ELSE u[i - 1], u[i])
  <2>1. CASE i <= Len(s)
    <3>1. i \in 1 .. Len(s) /\ u[i] = s[i] /\ (i # 1 => u[i - 1] = s[i - 1])
      BY <1>1, <1>2, <2>1
    <3> QED
      BY <3>1 DEF Paired
  <2>2. CASE i > Len(s)
    <3> DEFINE j == i - Len(s)
    <3>1. j \in 1 .. Len(t) /\ u[i] = t[j]
      BY <1>1, <1>2, <2>2
    <3>2. Follows(IF j = 1 THEN last ELSE t[j - 1], t[j])
      BY <1>4, <3>1 DEF Paired
    <3>3. (IF i = 1 THEN m ELSE u[i - 1]) = (IF j = 1 THEN last ELSE t[j - 1])
      <4>1. CASE j # 1
        <5>1. i # 1 /\ i - 1 \in 1 .. Len(u) /\ i - 1 > Len(s)
          BY <1>1, <1>2, <2>2, <4>1
        <5>2. (i - 1) - Len(s) = j - 1
          BY <1>1, <1>2
        <5>3. u[i - 1] = t[(i - 1) - Len(s)]
          BY <1>1, <1>2, <5>1
        <5> QED
          BY <4>1, <5>1, <5>2, <5>3
      <4>2. CASE j = 1 /\ s = <<>>
        BY <1>2, <4>2
      <4>3. CASE j = 1 /\ s # <<>>
        BY <1>1, <1>2, <4>3
      <4> QED
        BY <4>1, <4>2, <4>3
    <3> QED
      BY <3>1, <3>2, <3>3
  <2> QED
    BY <1>1, <1>2, <2>1, <2>2
<1>6. u[Len(u)] = t[Len(t)]
  BY <1>1, <1>2
<1>7. ~Announces(t[Len(t)])
  BY <1>4 DEF Paired
<1> QED
  BY <1>3, <1>5, <1>6, <1>7 DEF Paired, u

LEMMA UnityPairs ==
  ASSUME NEW id \in Nat
  PROVE  \A t \in {Response(id), Request(id), <<Other>>} :
           /\ t \in Seq(Messages) /\ t # <<>>
           /\ \A n : ~Announces(n) => Paired(n, t)
<1>1. ASSUME NEW a \in Messages, NEW b \in Messages, NEW n, ~Announces(n),
             ~IsPayload(a), Follows(a, b), ~Announces(b)
      PROVE  Paired(n, <<a, b>>)
  <2>1. /\ Len(<<a, b>>) = 2 /\ <<a, b>> # <<>>
        /\ <<a, b>>[1] = a /\ <<a, b>>[2] = b
    OBVIOUS
  <2>2. Follows(n, a)
    BY <1>1 DEF Follows, Announces
  <2>3. ASSUME NEW i \in 1 .. 2
        PROVE  Follows(IF i = 1 THEN n ELSE <<a, b>>[i - 1], <<a, b>>[i])
    <3>1. CASE i = 1
      BY <2>1, <2>2, <3>1
    <3>2. CASE i = 2
      BY <1>1, <2>1, <3>2
    <3> QED
      BY <3>1, <3>2
  <2> QED
    BY <1>1, <2>1, <2>3 DEF Paired
<1>2. /\ Message("response", id) \in Messages /\ Message("answer", id) \in Messages
      /\ Message("request", id) \in Messages /\ Message("question", id) \in Messages
      /\ Other \in Messages
  BY DEF Message, Messages, Other
<1>3. \A n : ~Announces(n) => Paired(n, Response(id))
  BY <1>1, <1>2 DEF Response, Follows, Announces, IsPayload, Message
<1>4. \A n : ~Announces(n) => Paired(n, Request(id))
  BY <1>1, <1>2 DEF Request, Follows, Announces, IsPayload, Message
<1>5. \A n : ~Announces(n) => Paired(n, <<Other>>)
  <2>1. /\ Len(<<Other>>) = 1 /\ <<Other>> # <<>> /\ <<Other>>[1] = Other
        /\ 1 .. 1 = {1}
    OBVIOUS
  <2>2. \A n : ~Announces(n) => Follows(n, Other)
    BY DEF Follows, Announces, IsPayload, Other, Message
  <2>3. ~Announces(Other)
    BY DEF Announces, Other, Message
  <2> QED
    BY <2>1, <2>2, <2>3 DEF Paired
<1>6. /\ Response(id) \in Seq(Messages) /\ Response(id) # <<>>
      /\ Request(id) \in Seq(Messages) /\ Request(id) # <<>>
      /\ <<Other>> \in Seq(Messages) /\ <<Other>> # <<>>
  BY <1>2 DEF Response, Request
<1> QED
  BY <1>3, <1>4, <1>5, <1>6

-----------------------------------------------------------------------------
(* The invariant.                                                          *)

\* pending_srv_id and its flag are what the command m set.
SetBy(m) ==
  /\ Announces(m) => /\ pending_srv_id = m.id
                     /\ pending_srv_is_request <=> m.kind = "request"
  /\ ~Announces(m) => pending_srv_id = None

\* They are what the payload m needs.
FitsTo(m) ==
  /\ IsPayload(m) => /\ pending_srv_id = m.id
                     /\ pending_srv_is_request <=> m.kind = "question"
  /\ ~IsPayload(m) => pending_srv_id = None

\* The client thread of c at each place, having read rmsg[c] last.
PairInv(c) ==
  /\ rpc[c] # "done" => Paired(rmsg[c], inbox[c])
  /\ rpc[c] \in {"none", "read"} => SetBy(rmsg[c])
  /\ rpc[c] = "dispatch" => FitsTo(rmsg[c])
  /\ rpc[c] \in {"command", "flag"} => Announces(rmsg[c])
  /\ rpc[c] = "flag" => pending_srv_id = rmsg[c].id
  /\ rpc[c] = "payload" => IsPayload(rmsg[c]) /\ FitsTo(rmsg[c])
  /\ rpc[c] = "serve" => rmsg[c].kind = "question" /\ pending_srv_id = rmsg[c].id
  /\ rpc[c] = "report" => IsPayload(rmsg[c])
  /\ rpc[c] = "respond" => rmsg[c].kind = "answer" /\ pending_srv_id = rmsg[c].id
  /\ rpc[c] = "resume" => rmsg[c].kind = "answer" /\ rid[c] = rmsg[c].id
  /\ rpc[c] = "clear" => IsPayload(rmsg[c])

\* A thread is woken with the answer to its call.
WokenInv == \A k \in Callbacks : cpc[k] = "woken" => result[k] = Message("answer", job[k])

MatchInv ==
  /\ \A c \in Conns : PairInv(c)
  /\ WokenInv
  /\ AnswersMatch
  /\ RequestsMatch

LEMMA MatchInit == Init => MatchInv
<1> SUFFICES ASSUME Init
             PROVE  MatchInv
  OBVIOUS
<1>1. Paired(NoMessage, <<>>)
  BY DEF Paired, NoMessage, Message, Announces
<1>2. \A c \in Conns : PairInv(c)
  BY <1>1 DEF Init, PairInv, SetBy, Announces, NoMessage, Message
<1> QED
  BY <1>2 DEF Init, MatchInv, WokenInv, AnswersMatch, RequestsMatch

\* What leaves the client threads and the results alone.
LEMMA MatchKept ==
  ASSUME MatchInv, UNCHANGED <<inbox, rpc, rmsg, rid, pendingVars, returned, served>>,
         WokenInv'
  PROVE  MatchInv'
  BY DEF MatchInv, PairInv, SetBy, FitsTo, AnswersMatch, RequestsMatch, pendingVars

\* More arrives on the one connection.
LEMMA MatchSent ==
  ASSUME TypeInv, MatchInv, OneConnection, NEW c \in Conns, NEW id \in Nat,
         NEW t \in {Response(id), Request(id), <<Other>>},
         inbox' = [inbox EXCEPT ![c] = @ \o t],
         UNCHANGED <<readerVars, pendingVars, callVars, result, returned, served>>
  PROVE  MatchInv'
<1>1. /\ t \in Seq(Messages) /\ t # <<>>
      /\ \A n : ~Announces(n) => Paired(n, t)
  BY UnityPairs
<1>2. inbox[c] \in Seq(Messages) /\ inbox'[c] = inbox[c] \o t
  BY DEF TypeInv, TypeOK
<1>3. rpc[c] # "done" => Paired(rmsg[c], inbox'[c])
  BY <1>1, <1>2, PairedSent DEF MatchInv, PairInv
<1>4. PairInv(c)'
  BY <1>3 DEF MatchInv, PairInv, SetBy, FitsTo, readerVars, pendingVars
<1>5. \A d \in Conns : d = c
  BY DEF OneConnection
<1>6. WokenInv'
  BY DEF MatchInv, WokenInv, callVars
<1> QED
  BY <1>4, <1>5, <1>6 DEF MatchInv, AnswersMatch, RequestsMatch

\* The client thread of the one connection makes a step and wakes nobody.
LEMMA MatchRead ==
  ASSUME MatchInv, OneConnection, NEW c \in Conns, PairInv(c)', RequestsMatch',
         UNCHANGED <<callVars, result, returned>>
  PROVE  MatchInv'
  BY DEF MatchInv, OneConnection, WokenInv, AnswersMatch, callVars

LEMMA ReaderMatch ==
  ASSUME TypeInv, MatchInv, OneConnection, NEW c \in Conns, ReaderStep(c)
  PROVE  MatchInv'
<1> USE ServiceAssumption DEF TypeInv, TypeOK
<1>0. PairInv(c) /\ rmsg[c] \in Messages /\ rmsg[c].id \in Nat
  BY DEF MatchInv, Messages
<1>1. CASE Read(c)
  <2>1. /\ rpc[c] = "read" /\ inbox[c] # <<>> /\ inbox[c] \in Seq(Messages)
        /\ rmsg'[c] = Head(inbox[c]) /\ inbox'[c] = Tail(inbox[c])
        /\ rpc'[c] = "dispatch"
    BY <1>1 DEF Read
  <2>2. Follows(rmsg[c], rmsg'[c]) /\ Paired(rmsg'[c], inbox'[c])
    BY <1>0, <2>1, PairedRead DEF PairInv
  <2>3. FitsTo(rmsg[c])'
    BY <1>0, <1>1, <2>1, <2>2 DEF Read, PairInv, SetBy, FitsTo, Follows, Announces,
                                  IsPayload, Message, pendingVars
  <2>4. PairInv(c)'
    BY <2>1, <2>2, <2>3 DEF PairInv
  <2>5. RequestsMatch'
    BY <1>1 DEF Read, MatchInv, RequestsMatch
  <2> QED
    BY <1>1, <2>4, <2>5, MatchRead DEF Read
<1>2. CASE ReadEnds(c)
  <2>1. PairInv(c)' /\ RequestsMatch'
    BY <1>2 DEF ReadEnds, PairInv, MatchInv, RequestsMatch
  <2> QED
    BY <1>2, <2>1, MatchRead DEF ReadEnds
<1>3. CASE DispatchPayload(c)
  <2>1. PairInv(c)' /\ RequestsMatch'
    BY <1>0, <1>3 DEF DispatchPayload, PairInv, FitsTo, MatchInv, RequestsMatch,
                      pendingVars
  <2> QED
    BY <1>3, <2>1, MatchRead DEF DispatchPayload
<1>4. CASE DispatchCommand(c)
  <2>1. PairInv(c)' /\ RequestsMatch'
    BY <1>0, <1>4 DEF DispatchCommand, PairInv, Announces, MatchInv, RequestsMatch
  <2> QED
    BY <1>4, <2>1, MatchRead DEF DispatchCommand
<1>5. CASE SetPending(c)
  <2>1. PairInv(c)' /\ RequestsMatch'
    BY <1>0, <1>5 DEF SetPending, PairInv, MatchInv, RequestsMatch
  <2> QED
    BY <1>5, <2>1, MatchRead DEF SetPending
<1>6. CASE SetFlag(c)
  <2>0. /\ Announces(rmsg[c]) /\ pending_srv_id' = rmsg[c].id /\ rmsg' = rmsg
        /\ pending_srv_is_request' = (rmsg[c].kind = "request")
    BY <1>0, <1>6 DEF SetFlag, PairInv
  <2>1. SetBy(rmsg[c])'
    BY <2>0, Zenon DEF SetBy, Announces
  <2>2. PairInv(c)' /\ RequestsMatch'
    BY <1>0, <1>6, <2>1 DEF SetFlag, PairInv, MatchInv, RequestsMatch
  <2> QED
    BY <1>6, <2>2, MatchRead DEF SetFlag
<1>7. CASE DispatchOther(c)
  <2>1. PairInv(c)' /\ RequestsMatch'
    BY <1>0, <1>7 DEF DispatchOther, PairInv, SetBy, Announces, MatchInv,
                      RequestsMatch, pendingVars
  <2> QED
    BY <1>7, <2>1, MatchRead DEF DispatchOther
<1>8. CASE TestFlag(c)
  <2>1. PairInv(c)' /\ RequestsMatch'
    BY <1>0, <1>8 DEF TestFlag, PairInv, FitsTo, IsPayload, MatchInv, RequestsMatch,
                      pendingVars
  <2> QED
    BY <1>8, <2>1, MatchRead DEF TestFlag
<1>9. CASE ServeRequest(c)
  <2>1. rmsg[c].kind = "question" /\ pending_srv_id = rmsg[c].id
    BY <1>0, <1>9 DEF ServeRequest, PairInv
  <2>2. rmsg[c] = Message("question", pending_srv_id)
    BY <1>0, <2>1 DEF Messages, Message
  <2>3. RequestsMatch'
    BY <1>9, <2>2 DEF ServeRequest, MatchInv, RequestsMatch
  <2>4. PairInv(c)'
    BY <1>0, <1>9, <2>1 DEF ServeRequest, PairInv, IsPayload
  <2> QED
    BY <1>9, <2>3, <2>4, MatchRead DEF ServeRequest
<1>10. CASE TakeWaiter(c)
  <2>1. PairInv(c)' /\ RequestsMatch'
    BY <1>0, <1>10 DEF TakeWaiter, PairInv, MatchInv, RequestsMatch
  <2> QED
    BY <1>10, <2>1, MatchRead DEF TakeWaiter
<1>11. CASE NoWaiter(c) \/ PutErrorRaises(c)
  <2>1. PairInv(c)' /\ RequestsMatch'
    BY <1>11 DEF NoWaiter, PutErrorRaises, HandlerRaises, PairInv, MatchInv, RequestsMatch
  <2> QED
    BY <1>11, <2>1, MatchRead DEF NoWaiter, PutErrorRaises, HandlerRaises
<1>14. CASE TestErrorQueue(c) \/ PutError(c)
  <2>1. PairInv(c)' /\ RequestsMatch'
    BY <1>0, <1>14 DEF TestErrorQueue, PutError, PairInv, IsPayload, MatchInv, RequestsMatch
  <2> QED
    BY <1>14, <2>1, MatchRead DEF TestErrorQueue, PutError
<1>12. CASE Resume(c)
  <2>1. rmsg[c].kind = "answer" /\ rid[c] = rmsg[c].id
    BY <1>0, <1>12 DEF Resume, PairInv
  <2>2. rmsg[c] = Message("answer", rid[c])
    BY <1>0, <2>1 DEF Messages, Message
  <2>3. WokenInv'
    <3> SUFFICES ASSUME NEW k \in Callbacks, cpc'[k] = "woken"
                 PROVE  result'[k] = Message("answer", job'[k])
      BY DEF WokenInv
    <3>1. /\ result'[k] = IF job[k] = rid[c] THEN rmsg[c] ELSE result[k]
          /\ job'[k] = job[k] /\ (job[k] # rid[c] => cpc'[k] = cpc[k])
      BY <1>12 DEF Resume
    <3> QED
      BY <2>2, <3>1 DEF MatchInv, WokenInv
  <2>4. PairInv(c)'
    BY <1>0, <1>12, <2>1 DEF Resume, PairInv, IsPayload
  <2> QED
    BY <1>12, <2>3, <2>4 DEF Resume, MatchInv, OneConnection, AnswersMatch,
                             RequestsMatch
<1>13. CASE ClearPending(c)
  <2>0. ~Announces(rmsg[c]) /\ pending_srv_id' = None /\ rmsg' = rmsg
    BY <1>0, <1>13 DEF ClearPending, PairInv, Announces, IsPayload
  <2>1. SetBy(rmsg[c])'
    BY <2>0, Zenon DEF SetBy, Announces
  <2>2. PairInv(c)' /\ RequestsMatch'
    BY <1>0, <1>13, <2>1 DEF ClearPending, PairInv, MatchInv, RequestsMatch
  <2> QED
    BY <1>13, <2>2, MatchRead DEF ClearPending
<1> QED
  BY <1>1, <1>2, <1>3, <1>4, <1>5, <1>6, <1>7, <1>8, <1>9, <1>10, <1>11, <1>12,
     <1>13, <1>14 DEF ReaderStep

LEMMA MatchStep ==
  TypeInv /\ MatchInv /\ OneConnection /\ [Next]_vars => MatchInv'
<1> SUFFICES ASSUME TypeInv, MatchInv, OneConnection, [Next]_vars
             PROVE  MatchInv'
  OBVIOUS
<1>1. ASSUME NEW c \in Conns, Connect(c)
      PROVE  MatchInv'
  <2>1. rpc[c] = "none"
    BY <1>1 DEF Connect, TypeInv, ReadInv
  <2>2. PairInv(c)' /\ RequestsMatch'
    BY <1>1, <2>1 DEF Connect, MatchInv, PairInv, SetBy, RequestsMatch, pendingVars,
                      TypeInv, TypeOK
  <2> QED
    BY <1>1, <2>2, MatchRead DEF Connect
<1>2. ASSUME NEW c \in Conns, Break(c) \/ SenderEnds(c)
      PROVE  MatchInv'
  BY <1>2, MatchKept DEF Break, SenderEnds, readerVars, callVars, MatchInv, WokenInv
<1>3. ASSUME NEW c \in Conns, UnityAnswers(c) \/ UnityAnswersTwice(c)
      PROVE  MatchInv'
  <2>1. Head(outbox[c]) \in Nat
    BY <1>3, HeadTailProperties DEF UnityAnswers, UnityAnswersTwice, TypeInv, TypeOK
  <2> QED
    BY <1>3, <2>1, MatchSent DEF UnityAnswers, UnityAnswersTwice
<1>4. ASSUME NEW c \in Conns, UnitySends(c)
      PROVE  MatchInv'
  <2>1. sent' \in Nat
    BY <1>4 DEF UnitySends, TypeInv, TypeOK
  <2> QED
    BY <1>4, <2>1, MatchSent DEF UnitySends
<1>5. ASSUME NEW c \in Conns, ReaderStep(c)
      PROVE  MatchInv'
  BY <1>5, ReaderMatch
<1>6. ASSUME NEW k \in Callbacks,
             BeginCall(k) \/ AllocSrvId(k) \/ FetchQueue(k) \/ Put(k) \/ Sleep(k)
      PROVE  MatchInv'
  <2>1. UNCHANGED <<inbox, readerVars, pendingVars, returned, served>>
    BY <1>6 DEF BeginCall, AllocSrvId, FetchQueue, Put, Sleep
  <2>2. \A j \in Callbacks : cpc'[j] = "woken" =>
          cpc[j] = "woken" /\ job'[j] = job[j] /\ result'[j] = result[j]
    BY <1>6 DEF BeginCall, AllocSrvId, FetchQueue, Put, Sleep, EndCall, TypeInv, TypeOK
  <2>3. WokenInv'
    BY <2>2 DEF MatchInv, WokenInv
  <2> QED
    BY <2>1, <2>3, MatchKept DEF readerVars
<1>7. ASSUME NEW k \in Callbacks, Return(k)
      PROVE  MatchInv'
  <2>1. result[k] = Message("answer", job[k])
    BY <1>7 DEF Return, MatchInv, WokenInv
  <2>2. AnswersMatch'
    BY <1>7, <2>1 DEF Return, MatchInv, AnswersMatch
  <2>3. WokenInv'
    BY <1>7 DEF Return, EndCall, MatchInv, WokenInv, TypeInv, TypeOK
  <2> QED
    BY <1>7, <2>2, <2>3 DEF Return, MatchInv, PairInv, SetBy, FitsTo, RequestsMatch,
                            readerVars, pendingVars
<1>8. CASE UNCHANGED vars
  BY <1>8, MatchKept DEF vars, readerVars, callVars, MatchInv, WokenInv
<1> QED
  BY <1>1, <1>2, <1>3, <1>4, <1>5, <1>6, <1>7, <1>8 DEF Next, CallbackStep

LEMMA MatchInvariant == Spec => [](OneConnection => MatchInv)
<1> DEFINE Both == TypeInv /\ (OneConnection => MatchInv)
<1>1. Init => Both
  BY TypeInit, MatchInit
<1>2. Both /\ [Next]_vars => Both'
  <2>1. OneConnection' <=> OneConnection
    BY DEF OneConnection
  <2> QED
    BY <2>1, TypeStep, MatchStep
<1>3. Both => (OneConnection => MatchInv)
  OBVIOUS
<1> HIDE DEF Both
<1> QED
  BY <1>1, <1>2, <1>3, PTL DEF Spec

\* On one connection a call returns what Unity answered to it, however many threads
\* call at once, whatever else Unity sends and wherever the connection breaks.
THEOREM AnswersAreTheirs == Spec => [](OneConnection => AnswersMatch)
<1>1. (OneConnection => MatchInv) => (OneConnection => AnswersMatch)
  BY DEF MatchInv
<1> QED
  BY <1>1, MatchInvariant, PTL

\* On one connection a RosService is handed what Unity asked of it.
THEOREM RequestsAreTheirs == Spec => [](OneConnection => RequestsMatch)
<1>1. (OneConnection => MatchInv) => (OneConnection => RequestsMatch)
  BY DEF MatchInv
<1> QED
  BY <1>1, MatchInvariant, PTL

-----------------------------------------------------------------------------
(* On one connection, a call is a RemoteCall. Besides what is shown above: *)
(* a result comes from a client thread that took the call from the table,  *)
(* and there is no answer to what was not asked.                           *)

ResultOf(k) ==
  /\ result[k] \in {NoMessage, AnswerTo(job[k])}
  /\ result[k] # NoMessage => Used(job[k])
  /\ cpc[k] \in {"idle", "alloc", "put"} => result[k] = NoMessage
  /\ cpc[k] \in Called => \A r \in returned : r.id # job[k]

ResultInv == \A k \in Callbacks : ResultOf(k)

\* The calls that were asked and did not fail.
Answerable == Waiting \cup Answered \cup Returned

AskedInv ==
  /\ next_srv_id <= 1001 + MaxCalls
  /\ \A c \in Conns : \A i \in DOMAIN outbox[c] : outbox[c][i] \in Answerable
  /\ \A c \in Conns, id \in Nat : OnItsWay(c, AnswerTo(id)) => id \in Answerable

\* What RemoteCall sees of the calls, the answers on their way aside.
Mapped == <<Issued, Asking, Waiting, Answered, Returned>>

LEMMA IssuedIds == TypeInv /\ AskedInv => Issued \subseteq CallIds
BY ServiceAssumption DEF TypeInv, TypeOK, AskedInv, Issued, CallIds

LEMMA AnswerIsNot == ASSUME NEW id PROVE AnswerTo(id) # NoMessage
BY DEF AnswerTo, NoMessage, Message

LEMMA RefInit == Init => ResultInv /\ AskedInv /\ Calls!Init
<1> SUFFICES ASSUME Init PROVE ResultInv /\ AskedInv /\ Calls!Init
  OBVIOUS
<1>1. Issued = {} /\ Asking = {} /\ Waiting = {} /\ Answered = {} /\ Returned = {}
  BY DEF Init, Issued, Asking, Waiting, Answered, Returned, Asked
<1>2. \A c \in Conns, id \in Nat : ~OnItsWay(c, AnswerTo(id))
  BY DEF Init, OnItsWay
<1>3. Arriving = {}
  BY <1>2 DEF Arriving, CallIds
<1>4. ResultInv
  BY DEF Init, ResultInv, ResultOf, Called
<1>5. AskedInv
  BY <1>2, ServiceAssumption DEF Init, AskedInv
<1> QED
  BY <1>1, <1>3, <1>4, <1>5 DEF Calls!Init

\* A step that moves no call and adds no request and no answer.
LEMMA RefKept ==
  ASSUME TypeInv, AskedInv, Mapped' = Mapped, outbox' = outbox,
         next_srv_id' = next_srv_id,
         \A c \in Conns, id \in Nat :
           OnItsWay(c, AnswerTo(id))' => OnItsWay(c, AnswerTo(id))
  PROVE  AskedInv' /\ Calls!Lose
<1>1. Arriving' \in SUBSET Arriving
  BY ServiceAssumption DEF Arriving, CallIds
<1>2. Answerable' = Answerable
  BY DEF Mapped, Answerable
<1>3. AskedInv'
  BY <1>2 DEF AskedInv
<1> QED
  BY <1>1, <1>3 DEF Calls!Lose, Mapped

\* Where the calls are, and what they have, decides what RemoteCall sees.
LEMMA MappedKept ==
  ASSUME TypeInv, UNCHANGED <<next_srv_id, job, result, returned>>,
         \A k \in Callbacks :
           /\ cpc'[k] = "put" <=> cpc[k] = "put"
           /\ cpc'[k] \in {"sleep", "waiting", "woken"} <=>
                cpc[k] \in {"sleep", "waiting", "woken"}
  PROVE  Mapped' = Mapped
<1>1. Issued' = Issued /\ Returned' = Returned
  BY DEF Issued, Returned
<1>2. Asking' = Asking
  BY DEF Asking
<1>3. Waiting' = Waiting /\ Answered' = Answered
  BY DEF Waiting, Answered, Asked
<1> QED
  BY <1>1, <1>2, <1>3 DEF Mapped

\* ... and ResultInv, as long as no id is taken.
LEMMA ResultKept ==
  ASSUME ResultInv, UNCHANGED <<services_waiting, job, result, returned>>,
         \A c \in Conns : rpc'[c] = "resume" => rpc[c] = "resume" /\ rid'[c] = rid[c],
         \A k \in Callbacks :
           /\ cpc'[k] \in {"idle", "alloc", "put"} => cpc[k] \in {"idle", "alloc", "put"}
           /\ cpc'[k] \in Called => cpc[k] \in Called
  PROVE  ResultInv'
<1>1. \A id : Used(id) => Used(id)'
  BY DEF Used, InHand
<1> QED
  BY <1>1 DEF ResultInv, ResultOf

\* m is in what was there before, or in what was added.
Occurs(m, s) == \E i \in DOMAIN s : s[i] = m

LEMMA WayExtended ==
  ASSUME NEW s \in Seq(Messages), NEW t \in Seq(Messages), NEW m
  PROVE  Occurs(m, s \o t) <=> Occurs(m, s) \/ Occurs(m, t)
<1>1. /\ Len(s) \in Nat /\ Len(t) \in Nat
      /\ DOMAIN (s \o t) = 1 .. Len(s) + Len(t)
      /\ DOMAIN s = 1 .. Len(s) /\ DOMAIN t = 1 .. Len(t)
  BY ConcatProperties, LenProperties
<1>2. /\ \A i \in 1 .. Len(s) : (s \o t)[i] = s[i]
      /\ \A i \in 1 .. Len(t) : (s \o t)[Len(s) + i] = t[i]
  BY <1>1, ConcatProperties
<1>3. ASSUME NEW i \in DOMAIN (s \o t), (s \o t)[i] = m
      PROVE  \/ \E j \in DOMAIN s : s[j] = m
             \/ \E j \in DOMAIN t : t[j] = m
  <2>1. CASE i \in 1 .. Len(s)
    BY <1>1, <1>2, <1>3, <2>1
  <2>2. CASE i \notin 1 .. Len(s)
    <3>1. i - Len(s) \in 1 .. Len(t) /\ Len(s) + (i - Len(s)) = i
      BY <1>1, <2>2
    <3> QED
      BY <1>1, <1>2, <1>3, <3>1
  <2> QED
    BY <2>1, <2>2
<1>4. ASSUME NEW i \in DOMAIN s, s[i] = m
      PROVE  \E j \in DOMAIN (s \o t) : (s \o t)[j] = m
  BY <1>1, <1>2, <1>4
<1>5. ASSUME NEW i \in DOMAIN t, t[i] = m
      PROVE  \E j \in DOMAIN (s \o t) : (s \o t)[j] = m
  <2>1. Len(s) + i \in DOMAIN (s \o t)
    BY <1>1
  <2> QED
    BY <1>1, <1>2, <1>5, <2>1
<1> QED
  BY <1>3, <1>4, <1>5 DEF Occurs

LEMMA WayRead ==
  ASSUME NEW s \in Seq(Messages), s # <<>>, NEW i \in DOMAIN Tail(s)
  PROVE  i + 1 \in DOMAIN s /\ Tail(s)[i] = s[i + 1]
BY HeadTailProperties, LenProperties

\* What touches no call, and puts no answer on its way.
Aside(c) ==
  \/ Connect(c) \/ Break(c) \/ SenderEnds(c) \/ UnitySends(c)
  \/ Read(c) \/ ReadEnds(c) \/ NoWaiter(c) \/ PutErrorRaises(c)
  \/ DispatchPayload(c) \/ DispatchCommand(c) \/ DispatchOther(c)
  \/ SetPending(c) \/ SetFlag(c) \/ TestFlag(c) \/ ClearPending(c)
  \/ ServeRequest(c) \/ TestErrorQueue(c) \/ PutError(c)

LEMMA AsideWay ==
  ASSUME TypeInv, NEW c \in Conns, Aside(c) \/ TakeWaiter(c),
         NEW d \in Conns, NEW id \in Nat, OnItsWay(d, AnswerTo(id))'
  PROVE  OnItsWay(d, AnswerTo(id))
<1> USE DEF TypeInv, TypeOK
<1>1. CASE Connect(c)
  BY <1>1 DEF Connect, OnItsWay, AnswerTo
<1>2. CASE Break(c) \/ SenderEnds(c)
  BY <1>2 DEF Break, SenderEnds, OnItsWay, AnswerTo, readerVars
<1>3. CASE UnitySends(c)
  <2>1. sent' \in Nat
    BY <1>3 DEF UnitySends
  <2>2. PICK t \in {Request(sent'), <<Other>>} : inbox' = [inbox EXCEPT ![c] = @ \o t]
    BY <1>3 DEF UnitySends
  <2>3. t \in Seq(Messages) /\ \A i \in DOMAIN t : t[i] # AnswerTo(id)
    <3>1. t \in Seq(Messages)
      BY <2>1, <2>2, UnityPairs
    <3>2. ASSUME NEW i \in DOMAIN t PROVE t[i].kind # "answer"
      <4>1. CASE t = Request(sent')
        <5> DEFINE a == Message("request", sent')
                   b == Message("question", sent')
        <5>1. a.kind # "answer" /\ b.kind # "answer"
          BY DEF Message
        <5>2. t = <<a, b>>
          BY <4>1 DEF Request
        <5> HIDE DEF a, b
        <5>3. i \in {1, 2} /\ t[1] = a /\ t[2] = b
          BY <3>2, <5>2
        <5> QED
          BY <5>1, <5>3
      <4>2. CASE t = <<Other>>
        BY <3>2, <4>2 DEF Other, Message
      <4> QED
        BY <2>2, <4>1, <4>2
    <3> QED
      BY <3>1, <3>2 DEF AnswerTo, Message
  <2>4. inbox[c] \in Seq(Messages) /\ inbox'[c] = inbox[c] \o t
    BY <2>2
  <2>5. (\E i \in DOMAIN inbox'[c] : inbox'[c][i] = AnswerTo(id)) =>
          \E i \in DOMAIN inbox[c] : inbox[c][i] = AnswerTo(id)
    BY <2>3, <2>4, WayExtended DEF Occurs
  <2>6. d # c => inbox'[d] = inbox[d]
    BY <2>2
  <2>7. AnswerTo(id)' = AnswerTo(id) /\ rpc' = rpc /\ rmsg' = rmsg
    BY <1>3 DEF UnitySends, readerVars, AnswerTo
  <2> QED
    BY <2>5, <2>6, <2>7 DEF OnItsWay
<1>4. CASE Read(c)
  <2>1. CASE d = c
    <3>1. /\ inbox[c] \in Seq(Messages) /\ inbox[c] # <<>>
          /\ rmsg'[c] = Head(inbox[c]) /\ inbox'[c] = Tail(inbox[c])
      BY <1>4 DEF Read
    <3>2. 1 \in DOMAIN inbox[c] /\ Head(inbox[c]) = inbox[c][1]
      BY <3>1, HeadTailProperties, LenProperties
    <3>3. \A i \in DOMAIN Tail(inbox[c]) :
            i + 1 \in DOMAIN inbox[c] /\ Tail(inbox[c])[i] = inbox[c][i + 1]
      BY <3>1, WayRead
    <3> QED
      BY <2>1, <3>1, <3>2, <3>3 DEF OnItsWay, AnswerTo
  <2>2. CASE d # c
    BY <1>4, <2>2 DEF Read, OnItsWay, AnswerTo
  <2> QED
    BY <2>1, <2>2
<1>5. CASE ReadEnds(c) \/ NoWaiter(c) \/ PutErrorRaises(c)
  <2>1. /\ inbox' = [inbox EXCEPT ![c] = <<>>] /\ rpc' = [rpc EXCEPT ![c] = "done"]
        /\ rmsg' = rmsg
    BY <1>5 DEF ReadEnds, NoWaiter, PutErrorRaises, HandlerRaises
  <2>2. d # c
    <3>1. inbox'[c] = <<>> /\ rpc'[c] = "done" /\ DOMAIN <<>> = {}
      BY <2>1
    <3>2. ~OnItsWay(c, AnswerTo(id))'
      BY <3>1 DEF OnItsWay
    <3> QED
      BY <3>2
  <2> QED
    BY <2>1, <2>2 DEF OnItsWay, AnswerTo
<1>6. CASE DispatchPayload(c) \/ DispatchCommand(c) \/ DispatchOther(c) \/ TestFlag(c)
  BY <1>6 DEF DispatchPayload, DispatchCommand, DispatchOther, TestFlag, OnItsWay, AnswerTo
<1>7. CASE \/ SetPending(c) \/ SetFlag(c) \/ ServeRequest(c) \/ TestErrorQueue(c)
           \/ PutError(c) \/ ClearPending(c) \/ TakeWaiter(c)
  BY <1>7 DEF SetPending, SetFlag, ServeRequest, TestErrorQueue, PutError, ClearPending,
              TakeWaiter, OnItsWay, AnswerTo
<1> QED
  BY <1>1, <1>2, <1>3, <1>4, <1>5, <1>6, <1>7 DEF Aside

LEMMA AsideRef ==
  ASSUME TypeInv, ResultInv, AskedInv, NEW c \in Conns, Aside(c)
  PROVE  ResultInv' /\ AskedInv' /\ Calls!Lose
<1>1. /\ UNCHANGED <<idVars, job, cpc, result, returned, rid>>
      /\ \A d \in Conns : rpc'[d] = "resume" <=> rpc[d] = "resume"
  BY QuietKeeps DEF Aside, Quiet
<1>2. outbox' = outbox
  BY DEF Aside, Connect, Break, SenderEnds, UnitySends, Read, ReadEnds, NoWaiter,
         PutErrorRaises, HandlerRaises, TestErrorQueue, PutError, DispatchPayload, DispatchCommand, DispatchOther, SetPending, SetFlag, TestFlag,
         ServeRequest, ClearPending
<1>3. Mapped' = Mapped
  BY <1>1, MappedKept DEF idVars
<1>4. ResultInv'
  BY <1>1, ResultKept DEF idVars
<1>5. AskedInv' /\ Calls!Lose
  BY <1>1, <1>2, <1>3, AsideWay, RefKept DEF idVars
<1> QED
  BY <1>4, <1>5

LEMMA TakeRef ==
  ASSUME TypeInv, ResultInv, AskedInv, NEW c \in Conns, TakeWaiter(c)
  PROVE  ResultInv' /\ AskedInv' /\ Calls!Lose
<1>1. /\ UNCHANGED <<next_srv_id, job, cpc, result, returned, outbox>>
      /\ services_waiting' = services_waiting \ {pending_srv_id}
      /\ pending_srv_id \in services_waiting
      /\ rpc' = [rpc EXCEPT ![c] = "resume"]
      /\ rid' = [rid EXCEPT ![c] = pending_srv_id]
  BY DEF TakeWaiter, callVars
<1>2. Mapped' = Mapped
  BY <1>1, MappedKept
<1>3. \A id : Used(id) => Used(id)'
  BY <1>1 DEF TypeInv, TypeOK, Used, InHand
<1>4. ResultInv'
  BY <1>1, <1>3 DEF ResultInv, ResultOf
<1> QED
  BY <1>1, <1>2, <1>4, AsideWay, RefKept

LEMMA AnswerableIds == Answerable \subseteq CallIds
BY DEF Answerable, Waiting, Answered, Returned

\* Unity answers, or answers and will answer again.
LEMMA AnswerRef ==
  ASSUME TypeInv, ResultInv, AskedInv, NEW c \in Conns,
         UnityAnswers(c) \/ UnityAnswersTwice(c)
  PROVE  ResultInv' /\ AskedInv' /\ \E id \in CallIds : Calls!Answer(id)
<1> DEFINE id == Head(outbox[c])
<1> USE DEF TypeInv, TypeOK
<1>1. /\ outbox[c] # <<>> /\ outbox[c] \in Seq(Nat)
      /\ inbox' = [inbox EXCEPT ![c] = @ \o Response(id)]
      /\ UNCHANGED <<idVars, rpc, rmsg, rid, cpc, job, result, returned>>
  BY DEF UnityAnswers, UnityAnswersTwice, readerVars, callVars
<1>2. id = outbox[c][1] /\ 1 \in DOMAIN outbox[c] /\ id \in Nat
  BY <1>1, HeadTailProperties, LenProperties
<1>3. id \in Answerable /\ id \in CallIds
  BY <1>2, AnswerableIds DEF AskedInv
<1>4. Mapped' = Mapped /\ ResultInv'
  BY <1>1, MappedKept, ResultKept DEF idVars
<1>5. Answerable' = Answerable
  BY <1>4 DEF Mapped, Answerable
<1>6. ASSUME NEW d \in Conns, NEW x \in Nat
      PROVE  OnItsWay(d, AnswerTo(x))' <=> (OnItsWay(d, AnswerTo(x)) \/ (d = c /\ x = id))
  <2>0. AnswerTo(x)' = AnswerTo(x) /\ rpc' = rpc /\ rmsg' = rmsg
    BY <1>1 DEF AnswerTo
  <2>1. CASE d = c
    <3> DEFINE u == Response(id)
               m == AnswerTo(x)
    <3>1. /\ u \in Seq(Messages) /\ DOMAIN u = {1, 2}
          /\ u[1].kind = "response" /\ u[2] = AnswerTo(id)
      <4>1. u \in Seq(Messages)
        BY <1>2, UnityPairs
      <4>2. u = <<Message("response", id), AnswerTo(id)>>
        BY DEF Response, AnswerTo
      <4>3. Message("response", id).kind = "response"
        BY DEF Message
      <4> HIDE DEF u, id
      <4> QED
        BY <4>1, <4>2, <4>3
    <3>2. m.kind = "answer" /\ (AnswerTo(id) = m <=> x = id)
      BY DEF AnswerTo, Message
    <3>3. inbox[c] \in Seq(Messages) /\ inbox'[c] = inbox[c] \o u
      BY <1>1
    <3> HIDE DEF u, m, id
    <3>4. (\E i \in DOMAIN u : u[i] = m) <=> x = id
      BY <3>1, <3>2
    <3>5. (\E i \in DOMAIN inbox'[c] : inbox'[c][i] = m) <=>
            \/ \E i \in DOMAIN inbox[c] : inbox[c][i] = m
            \/ x = id
      <4>1. (\E i \in DOMAIN (inbox[c] \o u) : (inbox[c] \o u)[i] = m) <=>
              \/ \E i \in DOMAIN inbox[c] : inbox[c][i] = m
              \/ \E i \in DOMAIN u : u[i] = m
        <5>1. u \in Seq(Messages) /\ inbox[c] \in Seq(Messages)
          BY <3>1, <3>3
        <5>2. Occurs(m, inbox[c] \o u) <=> Occurs(m, inbox[c]) \/ Occurs(m, u)
          BY <5>1, WayExtended
        <5> QED
          BY <5>2, Zenon DEF Occurs
      <4> QED
        BY <3>3, <3>4, <4>1, Zenon
    <3>6. OnItsWay(d, AnswerTo(x))' <=>
            \/ \E i \in DOMAIN inbox'[c] : inbox'[c][i] = m
            \/ /\ rpc[c] \in {"dispatch", "payload", "serve", "respond", "resume"}
               /\ rmsg[c] = m
      BY <2>0, <2>1 DEF OnItsWay, AnswerTo, m
    <3>7. OnItsWay(d, AnswerTo(x)) <=>
            \/ \E i \in DOMAIN inbox[c] : inbox[c][i] = m
            \/ /\ rpc[c] \in {"dispatch", "payload", "serve", "respond", "resume"}
               /\ rmsg[c] = m
      BY <2>1 DEF OnItsWay, m
    <3> QED
      BY <2>1, <3>5, <3>6, <3>7, Zenon
  <2>2. CASE d # c
    <3>1. inbox'[d] = inbox[d]
      BY <1>1, <2>2
    <3> QED
      BY <2>0, <2>2, <3>1 DEF OnItsWay, AnswerTo
  <2> QED
    BY <2>1, <2>2
<1>7. Arriving' = Arriving \cup {id}
  <2>1. \A x \in CallIds : x \in Nat
    BY ServiceAssumption DEF CallIds
  <2>2. CallIds' = CallIds
    BY DEF CallIds
  <2> HIDE DEF id
  <2> QED
    BY <1>3, <1>6, <2>1, <2>2, Zenon DEF Arriving
<1>8. Calls!Answer(id)
  BY <1>3, <1>4, <1>7 DEF Calls!Answer, Answerable, Mapped
<1>9. \A d \in Conns : \A i \in DOMAIN outbox'[d] : outbox'[d][i] \in Answerable
  <2>1. \A i \in DOMAIN Tail(outbox[c]) :
          i + 1 \in DOMAIN outbox[c] /\ Tail(outbox[c])[i] = outbox[c][i + 1]
    BY <1>1, HeadTailProperties, LenProperties
  <2>2. outbox' \in {outbox, [outbox EXCEPT ![c] = Tail(@)]}
    BY DEF UnityAnswers, UnityAnswersTwice
  <2>3. CASE outbox' = outbox
    BY <2>3 DEF AskedInv
  <2>4. CASE outbox' = [outbox EXCEPT ![c] = Tail(@)]
    BY <2>1, <2>4 DEF AskedInv
  <2> QED
    BY <2>2, <2>3, <2>4
<1>10. AskedInv'
  <2>1. next_srv_id' = next_srv_id
    BY <1>1 DEF idVars
  <2>2. \A d \in Conns, x \in Nat : OnItsWay(d, AnswerTo(x))' => x \in Answerable
    <3> HIDE DEF id
    <3> QED
      BY <1>3, <1>6 DEF AskedInv
  <2> QED
    BY <1>5, <1>9, <2>1, <2>2 DEF AskedInv
<1> QED
  BY <1>3, <1>4, <1>8, <1>10

\* The steps of the callbacks. They leave alone what Unity has sent.
LEMMA CallbackWay ==
  ASSUME UNCHANGED <<inbox, rpc, rmsg>>
  PROVE  /\ \A c \in Conns, id \in Nat :
              OnItsWay(c, AnswerTo(id))' <=> OnItsWay(c, AnswerTo(id))
         /\ Arriving' = Arriving
<1>1. \A c \in Conns : \A id : OnItsWay(c, AnswerTo(id))' <=> OnItsWay(c, AnswerTo(id))
  BY DEF OnItsWay, AnswerTo
<1>2. CallIds' = CallIds
  BY DEF CallIds
<1> QED
  BY <1>1, <1>2 DEF Arriving

\* A step that adds no request and no answer, and of what may be answered loses none.
LEMMA AskedKept ==
  ASSUME AskedInv, next_srv_id' <= 1001 + MaxCalls, outbox' = outbox,
         UNCHANGED <<inbox, rpc, rmsg>>, Answerable \subseteq Answerable'
  PROVE  AskedInv'
BY CallbackWay DEF AskedInv

LEMMA AllocRef ==
  ASSUME TypeInv, IdInv, ResultInv, AskedInv, NEW k \in Callbacks, AllocSrvId(k)
  PROVE  ResultInv' /\ AskedInv' /\ \E id \in CallIds : Calls!Issue(id)
<1> DEFINE id == next_srv_id
<1>1. /\ cpc[k] = "alloc" /\ next_srv_id < 1001 + MaxCalls
      /\ id \in Nat /\ id >= 1001
      /\ job' = [job EXCEPT ![k] = id] /\ next_srv_id' = id + 1
      /\ services_waiting' = services_waiting \cup {id}
      /\ cpc' = [cpc EXCEPT ![k] = "put"]
      /\ UNCHANGED <<inbox, outbox, rpc, rmsg, rid, result, returned>>
  BY DEF AllocSrvId, readerVars, IdInv, TypeInv, TypeOK
<1>2. /\ cpc'[k] = "put" /\ job'[k] = id
      /\ \A j \in Callbacks \ {k} : cpc'[j] = cpc[j] /\ job'[j] = job[j]
  BY <1>1 DEF TypeInv, TypeOK
<1>3. id \in CallIds /\ id \notin Issued /\ Issued' = Issued \cup {id}
  BY <1>1, ServiceAssumption DEF CallIds, Issued
<1> HIDE DEF id
<1>4. Asking' = Asking \cup {id}
  <2>1. CallIds' = CallIds
    BY DEF CallIds
  <2> QED
    BY <1>1, <1>2, <1>3, <2>1 DEF Asking
<1>5. Waiting' = Waiting /\ Answered' = Answered /\ Returned' = Returned
  <2>1. \A j \in Callbacks : \A x : Asked(j, x)' <=> Asked(j, x)
    BY <1>1, <1>2 DEF Asked
  <2>2. CallIds' = CallIds /\ \A x : AnswerTo(x)' = AnswerTo(x)
    BY DEF CallIds, AnswerTo
  <2> QED
    BY <1>1, <2>1, <2>2 DEF Waiting, Answered, Returned
<1>6. Calls!Issue(id)
  BY <1>1, <1>3, <1>4, <1>5, CallbackWay DEF Calls!Issue
<1>7. AskedInv'
  <2>1. next_srv_id' <= 1001 + MaxCalls /\ Answerable' = Answerable
    BY <1>1, <1>5, ServiceAssumption DEF Answerable, id
  <2> QED
    BY <1>1, <2>1, AskedKept
<1>8. ResultInv'
  <2> SUFFICES ASSUME NEW j \in Callbacks PROVE ResultOf(j)'
    BY DEF ResultInv
  <2>0. ResultOf(j)
    BY DEF ResultInv
  <2>1. CASE j = k
    <3>1. result'[j] = NoMessage
      BY <1>1, <2>0, <2>1 DEF ResultOf
    <3>2. \A r \in returned' : r.id # job'[j]
      BY <1>1, <1>2, <1>3, <2>1 DEF IdInv, UsedInv
    <3> QED
      BY <3>1, <3>2 DEF ResultOf, NoMessage
  <2>2. CASE j # k
    <3>1. job'[j] = job[j] /\ cpc'[j] = cpc[j] /\ result' = result /\ returned' = returned
      BY <1>1, <1>2, <2>2
    <3>2. result[j] # NoMessage => job[j] # id
      BY <1>3 DEF IdInv, CallInv
    <3>3. Used(job[j]) /\ job[j] # id => Used(job[j])'
      BY <1>1, <3>1 DEF Used, InHand
    <3>4. AnswerTo(job[j])' = AnswerTo(job[j]) /\ NoMessage' = NoMessage
      BY <3>1 DEF AnswerTo, NoMessage
    <3> QED
      BY <2>0, <3>1, <3>2, <3>3, <3>4 DEF ResultOf
  <2> QED
    BY <2>1, <2>2
<1> QED
  BY <1>3, <1>6, <1>7, <1>8

\* A call is over: of the others nothing changes.
LEMMA EndKeepsOthers ==
  ASSUME TypeInv, NEW k \in Callbacks, EndCall(k)
  PROVE  /\ cpc'[k] = "idle" /\ job'[k] = 0 /\ result'[k] = NoMessage
         /\ \A j \in Callbacks \ {k} :
              cpc'[j] = cpc[j] /\ job'[j] = job[j] /\ result'[j] = result[j]
BY DEF EndCall, TypeInv, TypeOK

LEMMA EndResult ==
  ASSUME TypeInv, IdInv, ResultInv, NEW k \in Callbacks, EndCall(k), cpc[k] \in Called,
         UNCHANGED <<services_waiting, rpc, rid>>,
         \A r \in returned' : r \in returned \/ r.id = job[k]
  PROVE  ResultInv'
<1> SUFFICES ASSUME NEW j \in Callbacks PROVE ResultOf(j)'
  BY DEF ResultInv
<1>1. CASE j = k
  BY <1>1, EndKeepsOthers DEF ResultOf, Called, NoMessage
<1>2. CASE j # k
  <2>1. cpc'[j] = cpc[j] /\ job'[j] = job[j] /\ result'[j] = result[j]
    BY <1>2, EndKeepsOthers
  <2>2. ResultOf(j)
    BY DEF ResultInv
  <2>3. Used(job[j]) <=> Used(job[j])'
    BY <2>1 DEF Used, InHand
  <2>4. AnswerTo(job[j])' = AnswerTo(job[j]) /\ NoMessage' = NoMessage
    BY <2>1 DEF AnswerTo, NoMessage
  <2>5. cpc[j] \in Called => job[j] # job[k]
    BY <1>2 DEF IdInv, CallsDistinct
  <2> QED
    BY <2>1, <2>2, <2>3, <2>4, <2>5 DEF ResultOf
<1> QED
  BY <1>1, <1>2

\* The queue is gone: the call fails, or nothing happens yet.
LEMMA FetchRef ==
  ASSUME TypeInv, IdInv, ResultInv, AskedInv, NEW k \in Callbacks, FetchQueue(k)
  PROVE  ResultInv' /\ AskedInv' /\ (Calls!Lose \/ \E id \in CallIds : Calls!GiveUp(id))
<1>1. /\ cpc[k] = "put"
      /\ UNCHANGED <<inbox, outbox, rpc, rmsg, rid, services_waiting, next_srv_id, returned>>
      /\ EndCall(k) \/ UNCHANGED <<cpc, job, result>>
  BY DEF FetchQueue, readerVars, idVars
<1>2. CASE EndCall(k)
  <2> DEFINE id == job[k]
  <2>1. /\ cpc'[k] = "idle"
        /\ \A j \in Callbacks \ {k} :
             cpc'[j] = cpc[j] /\ job'[j] = job[j] /\ result'[j] = result[j]
    BY <1>2, EndKeepsOthers
  <2>2. id \in CallIds
    BY <1>1, IssuedIds DEF IdInv, CallInv, Called
  <2>3. \A j \in Callbacks \ {k} : cpc[j] = "put" => job[j] # id
    BY <1>1 DEF IdInv, CallsDistinct, Called
  <2>4. CallIds' = CallIds /\ \A x : AnswerTo(x)' = AnswerTo(x)
    BY DEF CallIds, AnswerTo
  <2> HIDE DEF id
  <2>5. id \in Asking /\ Asking' = Asking \ {id}
    BY <1>1, <2>1, <2>2, <2>3, <2>4 DEF Asking, id
  <2>6. Issued' = Issued /\ Waiting' = Waiting /\ Answered' = Answered /\ Returned' = Returned
    <3>1. /\ \A j \in Callbacks \ {k} : \A x : Asked(j, x)' <=> Asked(j, x)
          /\ \A x : ~Asked(k, x) /\ ~Asked(k, x)'
      BY <1>1, <2>1 DEF Asked
    <3>2. Issued' = Issued /\ Returned' = Returned
      BY <1>1, <2>4 DEF Issued, Returned
    <3>3. Waiting' = Waiting
      BY <2>1, <2>4, <3>1 DEF Waiting
    <3>4. Answered' = Answered
      BY <2>1, <2>4, <3>1 DEF Answered
    <3> QED
      BY <3>2, <3>3, <3>4
  <2>7. Calls!GiveUp(id)
    BY <1>1, <2>5, <2>6, CallbackWay DEF Calls!GiveUp
  <2>8. next_srv_id' <= 1001 + MaxCalls /\ Answerable' = Answerable
    BY <1>1, <2>6 DEF AskedInv, Answerable
  <2>9. AskedInv'
    BY <1>1, <2>8, AskedKept
  <2>10. ResultInv'
    BY <1>1, <1>2, EndResult DEF Called
  <2> QED
    BY <2>2, <2>7, <2>9, <2>10
<1>3. CASE UNCHANGED <<cpc, job, result>>
  BY <1>1, <1>3, MappedKept, ResultKept, CallbackWay, RefKept
<1> QED
  BY <1>1, <1>2, <1>3

\* The request is sent.
LEMMA PutRef ==
  ASSUME TypeInv, IdInv, ResultInv, AskedInv, NEW k \in Callbacks, Put(k)
  PROVE  ResultInv' /\ AskedInv' /\ \E id \in CallIds : Calls!Ask(id)
<1> DEFINE id == job[k]
<1>1. /\ cpc[k] = "put" /\ held[k] \in Conns
      /\ outbox' = [outbox EXCEPT ![held[k]] = Append(@, id)]
      /\ UNCHANGED <<inbox, rpc, rmsg, rid, services_waiting, next_srv_id, job, result,
                     returned>>
      /\ cpc'[k] = "sleep"
      /\ \A j \in Callbacks \ {k} : cpc'[j] = cpc[j]
  BY DEF Put, readerVars, idVars, TypeInv, TypeOK
<1>2. id \in CallIds
  BY <1>1, IssuedIds DEF IdInv, CallInv, Called
<1>3. \A j \in Callbacks \ {k} : cpc[j] \in Called => job[j] # id
  BY <1>1 DEF IdInv, CallsDistinct, Called
<1>4. CallIds' = CallIds /\ \A x : AnswerTo(x)' = AnswerTo(x)
  BY DEF CallIds, AnswerTo
<1>5. result[k] # AnswerTo(id)
  BY <1>1, AnswerIsNot DEF ResultInv, ResultOf
<1> HIDE DEF id
<1>6. id \in Asking /\ Asking' = Asking \ {id}
  BY <1>1, <1>2, <1>3, <1>4 DEF Asking, Called, id
<1>7. /\ Issued' = Issued /\ Waiting' = Waiting \cup {id}
      /\ Answered' = Answered /\ Returned' = Returned
  <2>1. /\ \A j \in Callbacks \ {k} : \A x : Asked(j, x)' <=> Asked(j, x)
        /\ \A x : ~Asked(k, x) /\ (Asked(k, x)' <=> x = id)
    BY <1>1 DEF Asked, id
  <2>2. Issued' = Issued /\ Returned' = Returned
    BY <1>1, <1>4 DEF Issued, Returned
  <2>3. Waiting' = Waiting \cup {id}
    BY <1>1, <1>2, <1>4, <1>5, <2>1 DEF Waiting
  <2>4. Answered' = Answered
    BY <1>1, <1>4, <1>5, <2>1 DEF Answered
  <2> QED
    BY <2>2, <2>3, <2>4
<1>8. Calls!Ask(id)
  BY <1>1, <1>6, <1>7, CallbackWay DEF Calls!Ask
<1>9. AskedInv'
  <2>1. id \in Answerable' /\ Answerable \subseteq Answerable'
    BY <1>7 DEF Answerable
  <2>2. \A c \in Conns : \A i \in DOMAIN outbox'[c] : outbox'[c][i] \in Answerable'
    <3> SUFFICES ASSUME NEW c \in Conns, NEW i \in DOMAIN outbox'[c]
                 PROVE  outbox'[c][i] \in Answerable'
      OBVIOUS
    <3>1. outbox[c] \in Seq(Nat) /\ outbox[held[k]] \in Seq(Nat) /\ id \in Nat
      BY <1>1 DEF TypeInv, TypeOK, id
    <3>2. CASE c = held[k]
      <4>1. outbox'[c] = Append(outbox[c], id)
        BY <1>1, <3>2 DEF TypeInv, TypeOK
      <4>2. outbox'[c][i] = id \/ (i \in DOMAIN outbox[c] /\ outbox'[c][i] = outbox[c][i])
        BY <3>1, <4>1, AppendProperties, LenProperties
      <4> QED
        BY <2>1, <4>2 DEF AskedInv
    <3>3. CASE c # held[k]
      <4>1. outbox'[c] = outbox[c]
        BY <1>1, <3>3 DEF TypeInv, TypeOK
      <4> QED
        BY <2>1, <4>1 DEF AskedInv
    <3> QED
      BY <3>2, <3>3
  <2>3. \A c \in Conns, x \in Nat : OnItsWay(c, AnswerTo(x))' => x \in Answerable'
    BY <1>1, <2>1, CallbackWay DEF AskedInv
  <2> QED
    BY <1>1, <2>2, <2>3 DEF AskedInv
<1>10. ResultInv'
  BY <1>1, ResultKept DEF Called
<1> QED
  BY <1>2, <1>8, <1>9, <1>10

\* Nobody else has an answer for this id, and the caller waits for it.
LEMMA HandWaits ==
  ASSUME TypeInv, IdInv, ResultInv, AskedInv, NEW c \in Conns, NEW id \in Nat,
         InHand(c, id), rmsg[c] = AnswerTo(id)
  PROVE  \E k \in Callbacks : Asked(k, id) /\ result[k] = NoMessage
<1>1. ~Used(id)
  BY DEF Used
<1>2. id \in Answerable
  BY DEF AskedInv, OnItsWay, InHand
<1>3. id \notin Returned
  BY <1>1 DEF Returned, IdInv, UsedInv
<1>4. PICK k \in Callbacks : Asked(k, id)
  BY <1>2, <1>3 DEF Answerable, Waiting, Answered
<1>5. result[k] = NoMessage
  BY <1>1, <1>4 DEF ResultInv, ResultOf, Asked
<1> QED
  BY <1>4, <1>5

\* A client thread hands over the answer it holds.
LEMMA ResumeRef ==
  ASSUME TypeInv, IdInv, MatchInv, ResultInv, AskedInv, NEW c \in Conns, Resume(c)
  PROVE  ResultInv' /\ AskedInv' /\ \E id \in CallIds : Calls!Deliver(id)
<1> DEFINE id == rid[c]
<1>1. /\ rpc[c] = "resume" /\ rpc' = [rpc EXCEPT ![c] = "clear"]
      /\ UNCHANGED <<inbox, outbox, rmsg, rid, services_waiting, next_srv_id, job, returned>>
      /\ InHand(c, id)
  BY DEF Resume, idVars, callVars, InHand
<1>2. id \in Nat /\ id \in Issued /\ id \in CallIds /\ rmsg[c] = AnswerTo(id)
  <2>1. rmsg[c].kind = "answer" /\ rid[c] = rmsg[c].id
    BY <1>1 DEF MatchInv, PairInv
  <2>2. rmsg[c] \in Messages
    BY DEF TypeInv, TypeOK
  <2>3. rid[c] \in Issued
    BY <1>1 DEF IdInv, HandInv
  <2> QED
    BY <2>1, <2>2, <2>3, IssuedIds DEF Messages, AnswerTo, Message, Issued
<1>3. PICK k \in Callbacks : Asked(k, id) /\ result[k] = NoMessage
  BY <1>1, <1>2, HandWaits
<1>4. \A j \in Callbacks \ {k} : job[j] # id
  <2>1. \A j \in Callbacks : job[j] = id => cpc[j] \in Called
    BY <1>2 DEF IdInv, CallInv, Issued
  <2> QED
    BY <1>3, <2>1 DEF IdInv, CallsDistinct, Called, Asked
<1>5. /\ result'[k] = AnswerTo(id) /\ job[k] = id
      /\ cpc'[k] = cpc[k] \/ (cpc[k] = "waiting" /\ cpc'[k] = "woken")
      /\ \A j \in Callbacks \ {k} : cpc'[j] = cpc[j] /\ result'[j] = result[j]
  BY <1>2, <1>3, <1>4 DEF Resume, Asked
<1>6. CallIds' = CallIds /\ \A x : AnswerTo(x)' = AnswerTo(x)
  BY DEF CallIds, AnswerTo
<1>7. AnswerTo(id) # NoMessage
  BY AnswerIsNot
<1> HIDE DEF id
<1>8. \A j \in Callbacks : \A x : Asked(j, x)' <=> Asked(j, x)
  BY <1>1, <1>3, <1>5 DEF Asked
<1>9. Issued' = Issued /\ Asking' = Asking /\ Returned' = Returned
  <2>1. Issued' = Issued /\ Returned' = Returned
    BY <1>1, <1>6 DEF Issued, Returned
  <2>2. \A j \in Callbacks : cpc'[j] = "put" <=> cpc[j] = "put"
    BY <1>3, <1>5 DEF Asked
  <2> QED
    BY <1>1, <1>6, <2>1, <2>2 DEF Asking
<1>10. \A j \in Callbacks \ {k} : ~Asked(j, id)
  BY <1>4 DEF Asked
<1>11. \A x : Asked(k, x) <=> x = id
  BY <1>3 DEF Asked
<1>12. id \in Waiting /\ Waiting' = Waiting \ {id}
  BY <1>2, <1>3, <1>5, <1>6, <1>7, <1>8, <1>10, <1>11 DEF Waiting
<1>13. Answered' = Answered \cup {id}
  BY <1>2, <1>3, <1>5, <1>6, <1>7, <1>8, <1>10, <1>11 DEF Answered
<1>14. \A x \in Nat : x # id => AnswerTo(x) # AnswerTo(id)
  BY DEF AnswerTo, Message
<1>15. /\ OnItsWay(c, AnswerTo(id))
       /\ \A d \in Conns, x \in Nat :
            /\ OnItsWay(d, AnswerTo(x))' => OnItsWay(d, AnswerTo(x))
            /\ x # id /\ OnItsWay(d, AnswerTo(x)) => OnItsWay(d, AnswerTo(x))'
  <2>1. OnItsWay(c, AnswerTo(id))
    BY <1>1, <1>2 DEF OnItsWay
  <2>2. ASSUME NEW d \in Conns, NEW x \in Nat
        PROVE  /\ OnItsWay(d, AnswerTo(x))' => OnItsWay(d, AnswerTo(x))
               /\ x # id /\ OnItsWay(d, AnswerTo(x)) => OnItsWay(d, AnswerTo(x))'
    <3>1. CASE d = c
      BY <1>1, <1>2, <1>14, <3>1 DEF OnItsWay, AnswerTo, TypeInv, TypeOK
    <3>2. CASE d # c
      BY <1>1, <3>2 DEF OnItsWay, AnswerTo, TypeInv, TypeOK
    <3> QED
      BY <3>1, <3>2
  <2> QED
    BY <2>1, <2>2
<1>16. id \in Arriving /\ Arriving' \in {Arriving, Arriving \ {id}}
  <2>1. \A x \in CallIds : x \in Nat
    BY ServiceAssumption DEF CallIds
  <2>2. id \in Arriving /\ Arriving' \in SUBSET Arriving /\ Arriving \ {id} \in SUBSET Arriving'
    BY <1>2, <1>6, <1>15, <2>1 DEF Arriving
  <2> QED
    BY <2>2
<1>17. Calls!Deliver(id)
  BY <1>9, <1>12, <1>13, <1>16 DEF Calls!Deliver
<1>18. AskedInv'
  <2>1. Answerable' = Answerable
    BY <1>9, <1>12, <1>13 DEF Answerable
  <2> QED
    BY <1>1, <1>15, <2>1 DEF AskedInv
<1>19. ResultInv'
  <2> SUFFICES ASSUME NEW j \in Callbacks PROVE ResultOf(j)'
    BY DEF ResultInv
  <2>0. ResultOf(j)
    BY DEF ResultInv
  <2>1. Used(job[j]) => Used(job[j])'
    BY <1>1 DEF Used, InHand, TypeInv, TypeOK
  <2>2. CASE j # k
    <3>1. AnswerTo(job[j])' = AnswerTo(job[j]) /\ NoMessage' = NoMessage
      BY <1>1 DEF AnswerTo, NoMessage
    <3>2. /\ cpc'[j] = cpc[j] /\ result'[j] = result[j]
          /\ job' = job /\ returned' = returned
      BY <1>1, <1>5, <2>2
    <3> QED
      BY <2>0, <2>1, <3>1, <3>2 DEF ResultOf
  <2>3. CASE j = k
    <3>1. result'[j] = AnswerTo(job'[j])
      BY <1>1, <1>5, <2>3
    <3>2. Used(id)'
      BY <1>1 DEF IdInv, HandInv, Used, InHand, TypeInv, TypeOK, id
    <3>3. Used(job[j])'
      BY <1>1, <1>5, <2>3, <3>2 DEF Used, InHand, id
    <3>4. cpc'[j] \notin {"idle", "alloc", "put"} /\ cpc[j] \in Called
      BY <1>3, <1>5, <2>3 DEF Asked, Called
    <3> QED
      BY <1>1, <2>0, <3>1, <3>3, <3>4 DEF ResultOf, AnswerTo
  <2> QED
    BY <2>2, <2>3
<1> QED
  BY <1>2, <1>17, <1>18, <1>19

\* A call that was woken returns the answer to it.
LEMMA ReturnRef ==
  ASSUME TypeInv, IdInv, MatchInv, ResultInv, AskedInv, NEW k \in Callbacks, Return(k)
  PROVE  ResultInv' /\ AskedInv' /\ \E id \in CallIds : Calls!Return(id)
<1> DEFINE id == job[k]
<1>1. /\ cpc[k] = "woken" /\ EndCall(k)
      /\ UNCHANGED <<inbox, outbox, rpc, rmsg, rid, services_waiting, next_srv_id>>
      /\ returned' = returned \cup {[id |-> id, msg |-> result[k]]}
  BY DEF Return, readerVars, idVars
<1>2. result[k] = AnswerTo(id)
  BY <1>1 DEF MatchInv, WokenInv, AnswerTo
<1>3. /\ cpc'[k] = "idle"
      /\ \A j \in Callbacks \ {k} :
           cpc'[j] = cpc[j] /\ job'[j] = job[j] /\ result'[j] = result[j]
  BY <1>1, EndKeepsOthers
<1>4. id \in CallIds
  BY <1>1, IssuedIds DEF IdInv, CallInv, Called
<1>5. \A j \in Callbacks \ {k} : ~Asked(j, id)
  BY <1>1 DEF IdInv, CallsDistinct, Called, Asked
<1>6. CallIds' = CallIds /\ \A x : AnswerTo(x)' = AnswerTo(x)
  BY DEF CallIds, AnswerTo
<1>7. \A x : (Asked(k, x) <=> x = id) /\ ~Asked(k, x)'
  BY <1>1, <1>3 DEF Asked
<1> HIDE DEF id
<1>8. \A j \in Callbacks \ {k} : \A x : Asked(j, x)' <=> Asked(j, x)
  BY <1>3 DEF Asked
<1>9. Issued' = Issued /\ Asking' = Asking
  BY <1>1, <1>3, <1>6 DEF Issued, Asking
<1>10. Waiting' = Waiting
  BY <1>2, <1>3, <1>5, <1>6, <1>7, <1>8 DEF Waiting
<1>11. id \in Answered /\ Answered' = Answered \ {id}
  BY <1>2, <1>3, <1>4, <1>5, <1>6, <1>7, <1>8 DEF Answered
<1>12. Returned' = Returned \cup {id}
  <2>1. \A x : [id |-> x, msg |-> AnswerTo(x)] = [id |-> id, msg |-> result[k]] <=> x = id
    BY <1>2
  <2> QED
    BY <1>1, <1>4, <1>6, <2>1, Zenon DEF Returned
<1>13. Calls!Return(id)
  BY <1>1, <1>9, <1>10, <1>11, <1>12, CallbackWay DEF Calls!Return
<1>14. AskedInv'
  <2>1. next_srv_id' <= 1001 + MaxCalls /\ Answerable \subseteq Answerable'
    BY <1>1, <1>10, <1>11, <1>12 DEF AskedInv, Answerable
  <2> QED
    BY <1>1, <2>1, AskedKept
<1>15. ResultInv'
  BY <1>1, EndResult DEF Called, id
<1> QED
  BY <1>4, <1>13, <1>14, <1>15

LEMMA RefStep ==
  TypeInv /\ IdInv /\ MatchInv /\ ResultInv /\ AskedInv /\ [Next]_vars =>
    ResultInv' /\ AskedInv' /\ [Calls!Next]_Calls!callVars
<1> SUFFICES ASSUME TypeInv, IdInv, MatchInv, ResultInv, AskedInv, [Next]_vars
             PROVE  ResultInv' /\ AskedInv' /\ [Calls!Next]_Calls!callVars
  OBVIOUS
<1>1. ASSUME NEW c \in Conns, Aside(c)
      PROVE  ResultInv' /\ AskedInv' /\ Calls!Next
  BY <1>1, AsideRef DEF Calls!Next
<1>2. ASSUME NEW c \in Conns, UnityAnswers(c) \/ UnityAnswersTwice(c)
      PROVE  ResultInv' /\ AskedInv' /\ Calls!Next
  BY <1>2, AnswerRef DEF Calls!Next
<1>3. ASSUME NEW c \in Conns, TakeWaiter(c)
      PROVE  ResultInv' /\ AskedInv' /\ Calls!Next
  BY <1>3, TakeRef DEF Calls!Next
<1>4. ASSUME NEW c \in Conns, Resume(c)
      PROVE  ResultInv' /\ AskedInv' /\ Calls!Next
  BY <1>4, ResumeRef DEF Calls!Next
<1>5. ASSUME NEW k \in Callbacks, AllocSrvId(k)
      PROVE  ResultInv' /\ AskedInv' /\ Calls!Next
  BY <1>5, AllocRef DEF Calls!Next
<1>6. ASSUME NEW k \in Callbacks, FetchQueue(k)
      PROVE  ResultInv' /\ AskedInv' /\ Calls!Next
  BY <1>6, FetchRef DEF Calls!Next
<1>7. ASSUME NEW k \in Callbacks, Put(k)
      PROVE  ResultInv' /\ AskedInv' /\ Calls!Next
  BY <1>7, PutRef DEF Calls!Next
<1>8. ASSUME NEW k \in Callbacks, Return(k)
      PROVE  ResultInv' /\ AskedInv' /\ Calls!Next
  BY <1>8, ReturnRef DEF Calls!Next
<1>9. ASSUME NEW k \in Callbacks, BeginCall(k) \/ Sleep(k)
      PROVE  ResultInv' /\ AskedInv' /\ Calls!Next
  <2>1. /\ UNCHANGED <<inbox, outbox, rpc, rmsg, rid, services_waiting, next_srv_id, job,
                       result, returned>>
        /\ \A j \in Callbacks :
             /\ cpc'[j] = "put" <=> cpc[j] = "put"
             /\ cpc'[j] \in {"sleep", "waiting", "woken"} <=>
                  cpc[j] \in {"sleep", "waiting", "woken"}
             /\ cpc'[j] \in {"idle", "alloc", "put"} => cpc[j] \in {"idle", "alloc", "put"}
             /\ cpc'[j] \in Called => cpc[j] \in Called
    BY <1>9 DEF BeginCall, Sleep, readerVars, idVars, Called, TypeInv, TypeOK
  <2>2. Mapped' = Mapped
    BY <2>1, MappedKept
  <2>3. ResultInv'
    BY <2>1, ResultKept
  <2>4. AskedInv' /\ Calls!Lose
    BY <2>1, <2>2, CallbackWay, RefKept
  <2> QED
    BY <2>3, <2>4 DEF Calls!Next
<1>10. CASE UNCHANGED vars
  <2>1. UNCHANGED <<inbox, outbox, rpc, rmsg, rid, services_waiting, next_srv_id, job,
                    result, returned, cpc>>
    BY <1>10 DEF vars, readerVars, idVars, callVars
  <2>2. Mapped' = Mapped
    BY <2>1, MappedKept
  <2>3. ResultInv'
    BY <2>1, ResultKept
  <2>4. AskedInv' /\ Calls!Lose
    BY <2>1, <2>2, CallbackWay, RefKept
  <2> QED
    BY <2>3, <2>4 DEF Calls!Next
<1> QED
  BY <1>1, <1>2, <1>3, <1>4, <1>5, <1>6, <1>7, <1>8, <1>9, <1>10
     DEF Next, ReaderStep, CallbackStep, Aside

\* On one connection a call of a Unity service is a RemoteCall, whatever the number of
\* calls at once and wherever the connection breaks: an answer reaches the call whose
\* request it answers, once, and only that is returned.
THEOREM ImplementsCalls == OneConnection /\ Spec => CallSpec
<1> DEFINE All == TypeInv /\ IdInv /\ MatchInv /\ ResultInv /\ AskedInv
<1> SUFFICES ASSUME OneConnection PROVE Spec => CallSpec
  OBVIOUS
<1>1. Init => All /\ Calls!Init
  BY TypeInit, IdInit, MatchInit, RefInit
<1>2. All /\ [Next]_vars => All' /\ [Calls!Next]_Calls!callVars
  BY TypeStep, IdStep, MatchStep, RefStep
<1> HIDE DEF All
<1> QED
  BY <1>1, <1>2, PTL DEF Spec, CallSpec, Calls!Spec
=============================================================================
