------------------------ MODULE UnityTcpSenderProofs ------------------------
(***************************************************************************)
(* Theorems about UnityTcpSender, for any sets of connections, threads and *)
(* topics and any bounds.                                                  *)
(***************************************************************************)
EXTENDS UnityTcpSender, SequenceTheorems, TLAPS

\* Names of one-line expressions of the code.
USE DEF NextId, Enqueue, Halted, ClearedSlots, PutFrame, QueueReleased

-----------------------------------------------------------------------------
(* Type correctness.                                                       *)

\* A thread inside send_unity_message has a topic.
HasTopic ==
  \A k \in Callers :
    cpc[k] \in {"register", "map", "frame", "store"} => job[k].topic \in Topics

TypeInv == TypeOK /\ HasTopic

\* What a call hands over is an item.
LEMMA ItemOfType ==
  ASSUME TypeOK, NEW k \in Callers
  PROVE  ItemOf(k) \in Items
  BY DEF TypeOK, ItemOf, TopicMap, Frame, Command, Item, Items, Kinds, Jobs

\* A slot is overwritten or added.
LEMMA StoreSlotType ==
  ASSUME NEW S, NEW s \in Seq(S), NEW f \in S
  PROVE  StoreSlot(s, f) \in Seq(S)
<1> DEFINE at == {i \in DOMAIN s : s[i].id = f.id}
<1>1. CASE at = {}
  BY <1>1 DEF StoreSlot
<1>2. CASE at # {}
  <2> DEFINE e(i) == IF i \in at THEN f ELSE s[i]
  <2>1. Len(s) \in Nat /\ DOMAIN s = 1 .. Len(s)
    BY LenProperties
  <2>2. \A i \in 1 .. Len(s) : e(i) \in S
    BY ElementOfSeq
  <2>3. StoreSlot(s, f) = [i \in 1 .. Len(s) |-> e(i)]
    BY <1>2, <2>1 DEF StoreSlot
  <2> HIDE DEF e
  <2> QED
    BY <2>1, <2>2, <2>3, IsASeq
<1> QED
  BY <1>1, <1>2

\* However a sendall raises, some of the batch has gone and the sender ends.
LEMMA BreaksOff ==
  ASSUME TypeOK, NEW c \in Conns, SendRefused(c) \/ SendFails(c)
  PROVE  /\ spc[c] \in {"send", "sendall"}
         /\ \E n \in 0 .. Len(batch_buffer[c]) : BreakOff(c, n)
<1>1. Len(batch_buffer[c]) \in Nat
  BY LenProperties DEF TypeOK
<1>2. CASE SendRefused(c)
  <2>1. 0 \in 0 .. Len(batch_buffer[c])
    BY <1>1
  <2> QED
    BY <1>2, <2>1 DEF SendRefused
<1>3. CASE SendFails(c)
  BY <1>3 DEF SendFails
<1> QED
  BY <1>2, <1>3

\* The steps that only move the sender or change the state of the socket.
Aside(c) == ConnectionFails(c) \/ SendNothing(c) \/ BeginSend(c)

LEMMA TypeInit == Init => TypeInv
  BY SenderAssumption
     DEF Init, TypeInv, TypeOK, HasTopic, NoJob, Jobs, Running, PutSites

LEMMA TypeStep == TypeInv /\ [Next]_vars => TypeInv'
<1> SUFFICES ASSUME TypeInv, [Next]_vars
             PROVE  TypeInv'
  OBVIOUS
<1> USE SenderAssumption DEF TypeInv, TypeOK, HasTopic
<1>1. ASSUME NEW c \in Conns, Accept(c)
      PROVE  TypeInv'
  BY <1>1 DEF Accept, topicVars, callerVars
<1>2. ASSUME NEW c \in Conns, ClientExit(c)
      PROVE  TypeInv'
  BY <1>2 DEF ClientExit, senderVars, topicVars, callerVars
<1>3. ASSUME NEW k \in Callers, NEW t \in Topics, SendMessage(k, t)
      PROVE  TypeInv'
  BY <1>3 DEF SendMessage, BeginCall, connVars, senderVars, topicVars, Jobs,
              PutSites
<1>4. ASSUME NEW k \in Callers, SendCommand(k)
      PROVE  TypeInv'
  BY <1>4 DEF SendCommand, BeginCall, connVars, senderVars, topicVars, Jobs,
              PutSites
<1>5. ASSUME NEW k \in Callers, KnownTopicId(k)
      PROVE  TypeInv'
  BY <1>5 DEF KnownTopicId, connVars, senderVars, topicVars, Jobs, PutSites,
              AfterId
<1>6. ASSUME NEW k \in Callers, NewTopicId(k)
      PROVE  TypeInv'
  <2>1. next_topic_id \in Nat /\ job[k].call \in Nat
    BY DEF Jobs
  <2>2. job' \in [Callers -> Jobs]
    BY <1>6, <2>1 DEF NewTopicId, Jobs
  <2>3. HasTopic'
    BY <1>6 DEF NewTopicId
  <2> QED
    BY <1>6, <2>1, <2>2, <2>3 DEF NewTopicId, connVars, senderVars, PutSites
<1>7. ASSUME NEW k \in Callers, FetchQueue(k)
      PROVE  TypeInv'
  BY <1>7 DEF FetchQueue, connVars, senderVars, topicVars
<1>8. ASSUME NEW k \in Callers, CallRaises(k)
      PROVE  TypeInv'
  BY <1>8 DEF CallRaises, Idle, NoJob, Jobs, connVars, senderVars, topicVars
<1>9. ASSUME NEW k \in Callers, Put(k)
      PROVE  TypeInv'
  <2>1. held[k] \in Conns /\ ItemOf(k) \in Items
    BY <1>9, ItemOfType DEF Put
  <2>2. local_queue' \in [Conns -> Seq(Items)]
    BY <1>9, <2>1 DEF Put
  <2>3. CASE cpc[k] = "map"
    BY <1>9, <2>2, <2>3 DEF Put, AfterId, PutSites, connVars, senderVars,
                            topicVars
  <2>4. CASE cpc[k] # "map"
    <3>1. Idle(k)
      BY <1>9, <2>4 DEF Put
    <3> QED
      BY <1>9, <2>2, <3>1 DEF Put, Idle, NoJob, Jobs, connVars, senderVars,
                              topicVars
  <2> QED
    BY <2>3, <2>4
<1>10. ASSUME NEW k \in Callers, StoreFrame(k)
       PROVE  TypeInv'
  <2>1. Frame(job[k].topic, job[k].id, job[k].call) \in Items
    BY DEF Frame, Item, Items, Kinds, Jobs
  <2>2. stream_slots' \in Seq(Items)
    BY <1>10, <2>1, StoreSlotType DEF StoreFrame
  <2> QED
    BY <1>10, <2>2 DEF StoreFrame, Idle, NoJob, Jobs, connVars, senderVars,
                       topicVars
<1>11. ASSUME NEW c \in Conns, StartLoop(c)
       PROVE  TypeInv'
  <2>1. <<Handshake>> \in Seq(Items)
    BY DEF Handshake, Item, Items, Kinds
  <2> QED
    BY <1>11, <2>1 DEF StartLoop, Running, connVars, topicVars, callerVars
<1>12. ASSUME NEW c \in Conns, DrainQueue(c)
       PROVE  TypeInv'
  <2>1. batch_buffer[c] \o local_queue[c] \in Seq(Items)
    BY ConcatProperties
  <2> QED
    BY <1>12, <2>1 DEF DrainQueue, Running, connVars, topicVars, callerVars
<1>13. ASSUME NEW c \in Conns, SeeHalt(c)
       PROVE  TypeInv'
  BY <1>13 DEF SeeHalt, Running, connVars, topicVars, callerVars
<1>14. ASSUME NEW c \in Conns, TakeSlots(c)
       PROVE  TypeInv'
  BY <1>14 DEF TakeSlots, Running, connVars, topicVars, callerVars
<1>15. ASSUME NEW c \in Conns, SerializeFrame(c)
       PROVE  TypeInv'
  <2>1. Head(pending[c]) \in Items /\ Tail(pending[c]) \in Seq(Items)
    BY <1>15, HeadTailProperties DEF SerializeFrame
  <2> QED
    BY <1>15, <2>1 DEF SerializeFrame, connVars, topicVars, callerVars
<1>16. ASSUME NEW c \in Conns, SendBatch(c)
       PROVE  TypeInv'
  <2>1. wire[c] \o batch_buffer[c] \in Seq(Items)
    BY ConcatProperties
  <2> QED
    BY <1>16, <2>1 DEF SendBatch, Running, connVars, topicVars, callerVars
<1>17. ASSUME NEW c \in Conns, SendRefused(c) \/ SendFails(c)
       PROVE  TypeInv'
  <2>1. PICK n \in 0 .. Len(batch_buffer[c]) : BreakOff(c, n)
    BY <1>17, BreaksOff
  <2>2. SubSeq(batch_buffer[c], 1, n) \in Seq(Items)
    <3>1. \A i \in 1 .. n : batch_buffer[c][i] \in Items
      BY LenProperties, ElementOfSeq
    <3> QED
      BY <3>1, SubSeqProperties
  <2>3. wire' \in [Conns -> Seq(Items)]
    BY <2>1, <2>2, ConcatProperties DEF BreakOff
  <2> QED
    BY <2>1, <2>3 DEF BreakOff, Running, topicVars, callerVars
<1>18. ASSUME NEW c \in Conns, ReleaseQueue(c)
       PROVE  TypeInv'
  BY <1>18 DEF ReleaseQueue, connVars, topicVars, callerVars
<1>19. ASSUME UNCHANGED vars
       PROVE  TypeInv'
  BY <1>19 DEF vars, connVars, senderVars, topicVars, callerVars
<1>20. ASSUME NEW c \in Conns, Aside(c)
       PROVE  TypeInv'
  BY <1>20 DEF Aside, ConnectionFails, SendNothing, BeginSend, Running,
               connVars, senderVars, topicVars, callerVars
<1> QED
  BY <1>1, <1>2, <1>3, <1>4, <1>5, <1>6, <1>7, <1>8, <1>9, <1>10, <1>11, <1>12,
     <1>13, <1>14, <1>15, <1>16, <1>17, <1>18, <1>19, <1>20
     DEF Aside, Next, CallerStep, SenderStep, SendEnds

\* Every variable keeps its type: in particular no thread ever holds a queue
\* that is not one, and a thread that looks an id up has a topic to look up.
THEOREM TypeCorrect == Spec => []TypeOK
<1>1. TypeInv => TypeOK
  BY DEF TypeInv
<1> QED
  BY <1>1, TypeInit, TypeStep, PTL DEF Spec

-----------------------------------------------------------------------------
(* self.queue is the queue of a running sender thread.                     *)

Started(c) == spc[c] \notin {"none", "start"}

QueueInv ==
  /\ \A c \in Conns : conn[c] = "new" => spc[c] = "none"
  /\ QueueHasSender
  /\ \A k \in Callers : held[k] # None => Started(held[k])

LEMMA QueueInit == Init => QueueInv
  BY DEF Init, QueueInv, QueueHasSender

LEMMA QueueStep == TypeInv /\ QueueInv /\ [Next]_vars => QueueInv'
<1> SUFFICES ASSUME TypeInv, QueueInv, [Next]_vars
             PROVE  QueueInv'
  OBVIOUS
<1> USE SenderAssumption
    DEF TypeInv, TypeOK, QueueInv, QueueHasSender, Running, Started
<1>1. ASSUME NEW c \in Conns, Accept(c)
      PROVE  QueueInv'
  BY <1>1 DEF Accept, topicVars, callerVars
<1>2. ASSUME NEW c \in Conns, ClientExit(c)
      PROVE  QueueInv'
  BY <1>2 DEF ClientExit, senderVars, topicVars, callerVars
<1>3. ASSUME NEW k \in Callers,
             \/ \E t \in Topics : SendMessage(k, t)
             \/ SendCommand(k)
             \/ KnownTopicId(k)
             \/ NewTopicId(k)
      PROVE  QueueInv'
  BY <1>3 DEF SendMessage, SendCommand, BeginCall, KnownTopicId, NewTopicId,
              connVars, senderVars
<1>4. ASSUME NEW k \in Callers, FetchQueue(k)
      PROVE  QueueInv'
  BY <1>4 DEF FetchQueue, connVars, senderVars
<1>5. ASSUME NEW k \in Callers, CallRaises(k) \/ Put(k) \/ StoreFrame(k)
      PROVE  QueueInv'
  BY <1>5 DEF CallRaises, Put, StoreFrame, Idle, connVars, senderVars
<1>6. ASSUME NEW c \in Conns, StartLoop(c)
      PROVE  QueueInv'
  BY <1>6 DEF StartLoop, connVars, callerVars
<1>7. ASSUME NEW c \in Conns, DrainQueue(c) \/ SeeHalt(c) \/ TakeSlots(c)
      PROVE  QueueInv'
  BY <1>7 DEF DrainQueue, SeeHalt, TakeSlots, connVars, callerVars
<1>8. ASSUME NEW c \in Conns, SerializeFrame(c)
      PROVE  QueueInv'
  BY <1>8 DEF SerializeFrame, connVars, callerVars
<1>9. ASSUME NEW c \in Conns, SendBatch(c) \/ Aside(c)
      PROVE  QueueInv'
  BY <1>9 DEF SendBatch, Aside, ConnectionFails, SendNothing, BeginSend,
              connVars, senderVars, callerVars
<1>10. ASSUME NEW c \in Conns, ReleaseQueue(c)
       PROVE  QueueInv'
  BY <1>10 DEF ReleaseQueue, connVars, callerVars
<1>11. ASSUME UNCHANGED vars
       PROVE  QueueInv'
  BY <1>11 DEF vars, connVars, senderVars, callerVars
<1>12. ASSUME NEW c \in Conns, SendRefused(c) \/ SendFails(c)
       PROVE  QueueInv'
  <2>1. PICK n \in 0 .. Len(batch_buffer[c]) : BreakOff(c, n)
    BY <1>12, BreaksOff
  <2>2. /\ spc[c] \in {"send", "sendall"}
        /\ spc' = [spc EXCEPT ![c] = "release"]
        /\ UNCHANGED <<queue, conn, held>>
    BY <1>12, <2>1, BreaksOff DEF BreakOff, callerVars
  <2> QED
    BY <2>2
<1> QED
  BY <1>1, <1>2, <1>3, <1>4, <1>5, <1>6, <1>7, <1>8, <1>9, <1>10, <1>11, <1>12
     DEF Aside, Next, CallerStep, SenderStep, SendEnds

\* No call ever finds, in self.queue, the queue of a sender that has ended.
THEOREM QueueAlwaysServed == Spec => []QueueHasSender
<1>1. TypeInv /\ QueueInv => QueueHasSender
  BY DEF QueueInv
<1> QED
  BY <1>1, TypeInit, TypeStep, QueueInit, QueueStep, PTL DEF Spec

-----------------------------------------------------------------------------
(* The handshake comes first.                                              *)

Plain == {m \in Items : m.kind # "handshake"}

\* The sequences of items that start with the only handshake in them.
Greeted ==
  {s \in Seq(Items) : /\ s # <<>>
                      /\ \A i \in 1 .. Len(s) : s[i].kind = "handshake" <=> i = 1}

\* Until something has been sent the handshake waits, first in the queue and
\* then first in the batch.
HandshakeInv ==
  \A c \in Conns :
    /\ wire[c] \in Greeted \cup {<<>>}
    /\ pending[c] \in Seq(Plain)
    /\ spc[c] \in {"none", "start"} => wire[c] = <<>>
    /\ spc[c] \notin {"slots", "send", "sendall"} => batch_buffer[c] = <<>>
    /\ spc[c] = "loop" =>
         local_queue[c] \in (IF wire[c] = <<>> THEN Greeted ELSE Seq(Plain))
    /\ spc[c] \in {"slots", "send", "sendall"} =>
         /\ local_queue[c] \in Seq(Plain)
         /\ batch_buffer[c] \in (IF wire[c] = <<>> THEN Greeted ELSE Seq(Plain))

SlotsPlain == stream_slots \in Seq(Plain)

LEMMA GreetedConcat ==
  ASSUME NEW s \in Greeted, NEW t \in Seq(Plain)
  PROVE  s \o t \in Greeted
<1>1. s \in Seq(Items) /\ t \in Seq(Items) /\ s # <<>>
  BY SeqMonotonic DEF Greeted, Plain
<1>2. /\ s \o t \in Seq(Items)
      /\ Len(s \o t) = Len(s) + Len(t)
      /\ \A i \in 1 .. Len(s) + Len(t) :
           (s \o t)[i] = IF i <= Len(s) THEN s[i] ELSE t[i - Len(s)]
  BY <1>1, ConcatProperties
<1>3. Len(s) \in Nat \ {0} /\ Len(t) \in Nat
  BY <1>1, EmptySeq, LenProperties
<1>4. \A i \in 1 .. Len(t) : t[i].kind # "handshake"
  BY ElementOfSeq DEF Plain
<1>5. \A i \in 1 .. Len(s) : s[i].kind = "handshake" <=> i = 1
  BY DEF Greeted
<1>6. \A i \in 1 .. Len(s \o t) : (s \o t)[i].kind = "handshake" <=> i = 1
  BY <1>2, <1>3, <1>4, <1>5
<1>7. s \o t # <<>>
  BY <1>1, ConcatEqualIffEmpty
<1> QED
  BY <1>2, <1>6, <1>7 DEF Greeted

LEMMA GreetedAppend ==
  ASSUME NEW s \in Greeted, NEW e \in Plain
  PROVE  Append(s, e) \in Greeted
<1>1. <<e>> \in Seq(Plain) /\ s \in Seq(Items)
  BY DEF Greeted
<1>2. s \o <<e>> \in Greeted
  BY <1>1, GreetedConcat
<1>3. s \o <<e>> = Append(s, e)
  BY <1>1
<1> QED
  BY <1>2, <1>3

LEMMA GreetedPrefix ==
  ASSUME NEW s \in Greeted, NEW n \in 1 .. Len(s)
  PROVE  SubSeq(s, 1, n) \in Greeted
<1>1. s \in Seq(Items) /\ Len(s) \in Nat
  BY LenProperties DEF Greeted
<1>2. \A i \in 1 .. n : s[i] \in Items
  BY <1>1, ElementOfSeq
<1>3. /\ SubSeq(s, 1, n) \in Seq(Items)
      /\ Len(SubSeq(s, 1, n)) = n
      /\ \A i \in 1 .. n : SubSeq(s, 1, n)[i] = s[i]
  BY <1>1, <1>2, SubSeqProperties
<1>4. SubSeq(s, 1, n) # <<>>
  BY <1>1, <1>3, EmptySeq
<1>5. \A i \in 1 .. n : s[i].kind = "handshake" <=> i = 1
  BY <1>1 DEF Greeted
<1> QED
  BY <1>1, <1>3, <1>4, <1>5 DEF Greeted

LEMMA SeqPrefix ==
  ASSUME NEW S, NEW s \in Seq(S), NEW n \in 0 .. Len(s)
  PROVE  SubSeq(s, 1, n) \in Seq(S)
<1>1. \A i \in 1 .. n : s[i] \in S
  BY LenProperties, ElementOfSeq
<1> QED
  BY <1>1, LenProperties, SubSeqProperties

\* What a put adds is not a handshake.
LEMMA ItemOfPlain ==
  ASSUME TypeOK, NEW k \in Callers
  PROVE  ItemOf(k) \in Plain
<1>1. ItemOf(k) \in Items
  BY ItemOfType
<1>2. ItemOf(k).kind # "handshake"
  BY DEF ItemOf, TopicMap, Frame, Command, Item
<1> QED
  BY <1>1, <1>2 DEF Plain

LEMMA HandshakeInit == Init => HandshakeInv /\ SlotsPlain
  BY EmptySeq DEF Init, HandshakeInv, SlotsPlain

LEMMA HandshakeStep ==
  TypeInv /\ QueueInv /\ HandshakeInv /\ SlotsPlain /\ [Next]_vars
    => HandshakeInv' /\ SlotsPlain'
<1> SUFFICES ASSUME TypeInv, QueueInv, HandshakeInv, SlotsPlain, [Next]_vars
             PROVE  HandshakeInv' /\ SlotsPlain'
  OBVIOUS
<1> USE SenderAssumption DEF TypeInv, TypeOK
<1>1. ASSUME NEW c \in Conns, Accept(c)
      PROVE  HandshakeInv' /\ SlotsPlain'
  BY <1>1 DEF Accept, QueueInv, HandshakeInv, SlotsPlain
<1>2. ASSUME NEW c \in Conns, ClientExit(c)
      PROVE  HandshakeInv' /\ SlotsPlain'
  BY <1>2 DEF ClientExit, HandshakeInv, SlotsPlain, senderVars
<1>3. ASSUME NEW k \in Callers,
             \/ \E t \in Topics : SendMessage(k, t)
             \/ SendCommand(k)
             \/ KnownTopicId(k)
             \/ NewTopicId(k)
             \/ FetchQueue(k)
             \/ CallRaises(k)
      PROVE  HandshakeInv' /\ SlotsPlain'
  <2>1. UNCHANGED <<senderVars, local_queue, stream_slots>>
    BY <1>3 DEF SendMessage, SendCommand, BeginCall, KnownTopicId, NewTopicId,
                FetchQueue, CallRaises
  <2> QED
    BY <2>1 DEF HandshakeInv, SlotsPlain, senderVars
<1>4. ASSUME NEW k \in Callers, Put(k)
      PROVE  HandshakeInv' /\ SlotsPlain'
  <2> DEFINE q == local_queue[held[k]]
  <2>1. held[k] \in Conns /\ ItemOf(k) \in Plain
    BY <1>4, ItemOfPlain DEF Put
  <2>2. q \in Seq(Plain) => Append(q, ItemOf(k)) \in Seq(Plain)
    BY <2>1
  <2>3. q \in Greeted => Append(q, ItemOf(k)) \in Greeted
    BY <2>1, GreetedAppend
  <2>4. UNCHANGED <<wire, batch_buffer, pending, spc, stream_slots>>
    BY <1>4 DEF Put, senderVars
  <2>5. \A c \in Conns :
          local_queue'[c] = IF c = held[k] THEN Append(q, ItemOf(k))
                                           ELSE local_queue[c]
    BY <1>4, <2>1 DEF Put
  <2> QED
    BY <2>2, <2>3, <2>4, <2>5 DEF HandshakeInv, SlotsPlain
<1>5. ASSUME NEW k \in Callers, StoreFrame(k)
      PROVE  HandshakeInv' /\ SlotsPlain'
  <2>1. Frame(job[k].topic, job[k].id, job[k].call) \in Plain
    BY DEF Frame, Item, Items, Kinds, Jobs, Plain
  <2>2. stream_slots' \in Seq(Plain)
    BY <1>5, <2>1, StoreSlotType DEF StoreFrame, SlotsPlain
  <2> QED
    BY <1>5, <2>2 DEF StoreFrame, HandshakeInv, SlotsPlain, senderVars
<1>6. ASSUME NEW c \in Conns, StartLoop(c)
      PROVE  HandshakeInv' /\ SlotsPlain'
  <2>1. <<Handshake>> \in Greeted
    BY DEF Greeted, Handshake, Item, Items, Kinds
  <2> QED
    BY <1>6, <2>1 DEF StartLoop, HandshakeInv, SlotsPlain
<1>7. ASSUME NEW c \in Conns, DrainQueue(c)
      PROVE  HandshakeInv' /\ SlotsPlain'
  <2>1. batch_buffer[c] \o local_queue[c] = local_queue[c]
    BY <1>7, ConcatEmptySeq DEF DrainQueue, HandshakeInv
  <2> QED
    BY <1>7, <2>1, EmptySeq DEF DrainQueue, HandshakeInv, SlotsPlain
<1>8. ASSUME NEW c \in Conns, SeeHalt(c)
      PROVE  HandshakeInv' /\ SlotsPlain'
  BY <1>8 DEF SeeHalt, HandshakeInv, SlotsPlain
<1>9. ASSUME NEW c \in Conns, TakeSlots(c)
      PROVE  HandshakeInv' /\ SlotsPlain'
  BY <1>9, EmptySeq DEF TakeSlots, HandshakeInv, SlotsPlain
<1>10. ASSUME NEW c \in Conns, SerializeFrame(c)
       PROVE  HandshakeInv' /\ SlotsPlain'
  <2> DEFINE f == Head(pending[c])
             b == batch_buffer[c]
  <2>1. f \in Plain /\ Tail(pending[c]) \in Seq(Plain)
    BY <1>10, HeadTailProperties DEF SerializeFrame, HandshakeInv
  <2>2. b \in Seq(Plain) => Append(b, f) \in Seq(Plain)
    BY <2>1
  <2>3. b \in Greeted => Append(b, f) \in Greeted
    BY <2>1, GreetedAppend
  <2>4. \A d \in Conns :
          batch_buffer'[d] = IF d = c /\ Packs(f) THEN Append(b, f)
                                                  ELSE batch_buffer[d]
    BY <1>10 DEF SerializeFrame
  <2>5. \A d \in Conns : pending'[d] \in Seq(Plain)
    BY <1>10, <2>1 DEF SerializeFrame, HandshakeInv
  <2>6. spc[c] = "send" /\ UNCHANGED <<wire, spc, local_queue, stream_slots>>
    BY <1>10 DEF SerializeFrame
  <2> HIDE DEF f
  <2> QED
    BY <2>2, <2>3, <2>4, <2>5, <2>6 DEF HandshakeInv, SlotsPlain
<1>11. ASSUME NEW c \in Conns, SendBatch(c)
       PROVE  HandshakeInv' /\ SlotsPlain'
  <2> DEFINE w == wire[c] \o batch_buffer[c]
  <2>1. w \in Greeted
    <3>1. CASE wire[c] = <<>>
      <4>1. batch_buffer[c] \in Greeted
        BY <1>11, <3>1 DEF SendBatch, HandshakeInv
      <4> QED
        BY <3>1, <4>1, ConcatEmptySeq
    <3>2. CASE wire[c] # <<>>
      BY <1>11, <3>2, GreetedConcat DEF SendBatch, HandshakeInv
    <3> QED
      BY <3>1, <3>2
  <2>2. w # <<>>
    BY <2>1 DEF Greeted
  <2>3. \A d \in Conns : wire'[d] = IF d = c THEN w ELSE wire[d]
    BY <1>11 DEF SendBatch
  <2> HIDE DEF w
  <2> QED
    BY <1>11, <2>1, <2>2, <2>3 DEF SendBatch, HandshakeInv, SlotsPlain
<1>12. ASSUME NEW c \in Conns, SendRefused(c) \/ SendFails(c)
       PROVE  HandshakeInv' /\ SlotsPlain'
  <2>0. spc[c] \in {"send", "sendall"}
    BY <1>12, BreaksOff
  <2>1. PICK n \in 0 .. Len(batch_buffer[c]) : BreakOff(c, n)
    BY <1>12, BreaksOff
  <2> DEFINE p == SubSeq(batch_buffer[c], 1, n)
             w == wire[c] \o p
  <2>2. w \in Greeted \cup {<<>>}
    <3>1. CASE wire[c] = <<>> /\ n = 0
      BY <3>1, SubSeqEmpty, ConcatEmptySeq, EmptySeq
    <3>2. CASE wire[c] = <<>> /\ n # 0
      <4>1. batch_buffer[c] \in Greeted
        BY <2>0, <3>2 DEF HandshakeInv
      <4>2. n \in 1 .. Len(batch_buffer[c])
        BY <3>2
      <4>3. p \in Greeted
        BY <4>1, <4>2, GreetedPrefix
      <4>4. p \in Seq(Items)
        BY <4>3 DEF Greeted
      <4> QED
        BY <3>2, <4>3, <4>4, ConcatEmptySeq
    <3>3. CASE wire[c] # <<>>
      <4>1. batch_buffer[c] \in Seq(Plain)
        BY <2>0, <3>3 DEF HandshakeInv
      <4>2. p \in Seq(Plain)
        BY <4>1, SeqPrefix
      <4> QED
        BY <3>3, <4>2, GreetedConcat DEF HandshakeInv
    <3> QED
      BY <3>1, <3>2, <3>3
  <2>3. \A d \in Conns : wire'[d] = IF d = c THEN w ELSE wire[d]
    BY <2>1 DEF BreakOff
  <2> HIDE DEF w
  <2> QED
    BY <2>0, <2>1, <2>2, <2>3 DEF BreakOff, HandshakeInv, SlotsPlain
<1>13. ASSUME NEW c \in Conns, ReleaseQueue(c)
       PROVE  HandshakeInv' /\ SlotsPlain'
  BY <1>13 DEF ReleaseQueue, HandshakeInv, SlotsPlain
<1>14. ASSUME UNCHANGED vars
       PROVE  HandshakeInv' /\ SlotsPlain'
  BY <1>14 DEF vars, senderVars, HandshakeInv, SlotsPlain
<1>15. ASSUME NEW c \in Conns, ConnectionFails(c) \/ BeginSend(c)
       PROVE  HandshakeInv' /\ SlotsPlain'
  BY <1>15 DEF ConnectionFails, BeginSend, HandshakeInv, SlotsPlain, senderVars
<1>16. ASSUME NEW c \in Conns, SendNothing(c)
       PROVE  HandshakeInv' /\ SlotsPlain'
  <2>1. local_queue[c] \in Seq(Plain) /\ wire[c] # <<>>
    BY <1>16 DEF SendNothing, HandshakeInv, Greeted
  <2> QED
    BY <1>16, <2>1 DEF SendNothing, HandshakeInv, SlotsPlain
<1> QED
  BY <1>1, <1>2, <1>3, <1>4, <1>5, <1>6, <1>7, <1>8, <1>9, <1>10, <1>11, <1>12,
     <1>13, <1>14, <1>15, <1>16 DEF Next, CallerStep, SenderStep, SendEnds

LEMMA HandshakeHolds == TypeInv /\ HandshakeInv => HandshakeFirst
<1> SUFFICES ASSUME TypeInv, HandshakeInv,
                    NEW c \in Conns, NEW i \in DOMAIN wire[c]
             PROVE  wire[c][i].kind = "handshake" <=> i = 1
  BY DEF HandshakeFirst
<1>1. wire[c] \in Seq(Items)
  BY DEF TypeInv, TypeOK
<1>2. i \in 1 .. Len(wire[c]) /\ wire[c] # <<>>
  BY <1>1, LenProperties, EmptySeq
<1>3. wire[c] \in Greeted
  BY <1>2 DEF HandshakeInv
<1> QED
  BY <1>2, <1>3 DEF Greeted

\* Whatever the threads do, Unity reads the handshake, once, before anything
\* else on a connection.
THEOREM HandshakeComesFirst == Spec => []HandshakeFirst
  BY TypeInit, TypeStep, QueueInit, QueueStep, HandshakeInit, HandshakeStep,
     HandshakeHolds, PTL DEF Spec

-----------------------------------------------------------------------------
(* What is sent decodes to what ROS sent.                                  *)

\* No two topics share an id, and the next one is fresh.
IdsUnique ==
  /\ \A t \in Topics : topic_to_id[t] < next_topic_id
  /\ \A t, u \in Topics :
       topic_to_id[t] = topic_to_id[u] /\ t # u => topic_to_id[t] = 0

Identified(m) ==
  m.topic \in Topics /\ m.id # 0 /\ topic_to_id[m.topic] = m.id

\* The items whose id, if they have one, is that of their topic ...
Decodable == {m \in Items : m.kind \in {"topic_map", "frame"} => Identified(m)}

\* ... and fits the format, if it is a frame.
Sendable == {m \in Decodable : m.kind = "frame" => Packs(m)}

DecodableFrames == {m \in Decodable : m.kind = "frame"}

\* The id a call has looked up is that of its topic.
CallsIdentified ==
  \A k \in Callers :
    /\ cpc[k] \in {"map", "frame", "store"} => Identified(job[k])
    /\ cpc[k] = "frame" /\ held[k] # None => Packs(job[k])

\* Everything on its way is sendable, except that the frames in the slots have
\* not been serialized yet.
DecodeInv ==
  /\ stream_slots \in Seq(DecodableFrames)
  /\ \A c \in Conns :
       /\ pending[c] \in Seq(DecodableFrames)
       /\ local_queue[c]  \in Seq(Sendable)
       /\ batch_buffer[c] \in Seq(Sendable)
       /\ wire[c]         \in Seq(Sendable)

\* What a put adds is sendable.
LEMMA ItemOfSendable ==
  ASSUME TypeOK, CallsIdentified, NEW k \in Callers,
         cpc[k] \in PutSites, held[k] # None
  PROVE  ItemOf(k) \in Sendable
<1>1. ItemOf(k) \in Items
  BY ItemOfType
<1>2. CASE cpc[k] = "map"
  BY <1>1, <1>2 DEF CallsIdentified, Sendable, Decodable, Identified, ItemOf,
                    TopicMap, Item
<1>3. CASE cpc[k] = "frame"
  BY <1>1, <1>3 DEF CallsIdentified, Sendable, Decodable, Identified, ItemOf,
                    Frame, Item, Packs
<1>4. CASE cpc[k] = "command"
  BY <1>1, <1>4 DEF Sendable, Decodable, ItemOf, Command, Item
<1> QED
  BY <1>2, <1>3, <1>4 DEF PutSites

\* A step of a connection: no caller moves.
Wiring(c) ==
  \/ Accept(c) \/ ClientExit(c) \/ ConnectionFails(c)
  \/ SenderStep(c) \/ SendEnds(c)

LEMMA WiringKeepsCalls ==
  ASSUME NEW c \in Conns, Wiring(c)
  PROVE  UNCHANGED <<topicVars, callerVars>>
  BY DEF Wiring, Accept, ClientExit, ConnectionFails, SenderStep, SendEnds,
         StartLoop, DrainQueue, SeeHalt, TakeSlots, SerializeFrame, SendNothing,
         BeginSend, SendRefused, SendBatch, SendFails, BreakOff, ReleaseQueue

\* A thread that holds a queue is about to put.
HeldAtPut ==
  \A k \in Callers : held[k] # None => cpc[k] \in PutSites

LEMMA HeldStep == TypeInv /\ HeldAtPut /\ [Next]_vars => HeldAtPut'
<1> SUFFICES ASSUME TypeInv, HeldAtPut, [Next]_vars
             PROVE  HeldAtPut'
  OBVIOUS
<1> USE DEF TypeInv, TypeOK, HeldAtPut, PutSites
<1>1. ASSUME NEW c \in Conns, Wiring(c)
      PROVE  HeldAtPut'
  BY <1>1, WiringKeepsCalls DEF callerVars
<1>2. ASSUME NEW k \in Callers, NEW t \in Topics, SendMessage(k, t)
      PROVE  HeldAtPut'
  BY <1>2 DEF SendMessage, BeginCall
<1>3. ASSUME NEW k \in Callers, SendCommand(k)
      PROVE  HeldAtPut'
  BY <1>3 DEF SendCommand, BeginCall
<1>4. ASSUME NEW k \in Callers, KnownTopicId(k) \/ NewTopicId(k)
      PROVE  HeldAtPut'
  BY <1>4 DEF KnownTopicId, NewTopicId, AfterId
<1>5. ASSUME NEW k \in Callers, FetchQueue(k)
      PROVE  HeldAtPut'
  BY <1>5 DEF FetchQueue
<1>6. ASSUME NEW k \in Callers, CallRaises(k) \/ Put(k) \/ StoreFrame(k)
      PROVE  HeldAtPut'
  BY <1>6 DEF CallRaises, Put, StoreFrame, Idle
<1>7. ASSUME UNCHANGED vars
      PROVE  HeldAtPut'
  BY <1>7 DEF vars, callerVars
<1> QED
  BY <1>1, <1>2, <1>3, <1>4, <1>5, <1>6, <1>7 DEF Next, CallerStep, Wiring

\* An id, once given, is never changed: what decodes goes on decoding.
LEMMA IdsStable ==
  ASSUME TypeInv, [Next]_vars
  PROVE  \A t \in Topics : topic_to_id[t] # 0 => topic_to_id'[t] = topic_to_id[t]
<1>1. CASE \E k \in Callers : NewTopicId(k)
  BY <1>1 DEF NewTopicId, TypeInv, TypeOK
<1>2. CASE \E c \in Conns : Wiring(c)
  BY <1>2, WiringKeepsCalls DEF topicVars
<1>3. CASE /\ ~\E k \in Callers : NewTopicId(k)
           /\ ~\E c \in Conns : Wiring(c)
  BY <1>3 DEF Next, CallerStep, Wiring, SendMessage, SendCommand, BeginCall,
              KnownTopicId, FetchQueue, CallRaises, Put, StoreFrame, vars,
              topicVars
<1> QED
  BY <1>1, <1>2, <1>3

LEMMA DecodesOn ==
  ASSUME TypeInv, [Next]_vars
  PROVE  /\ \A m : Identified(m) => Identified(m)'
         /\ Decodable \subseteq Decodable'
         /\ Sendable \subseteq Sendable'
         /\ DecodableFrames \subseteq DecodableFrames'
<1>1. \A m : Identified(m) => Identified(m)'
  BY IdsStable DEF Identified
<1>2. Decodable \subseteq Decodable'
  BY <1>1 DEF Decodable
<1> QED
  BY <1>1, <1>2 DEF Sendable, DecodableFrames, Packs

\* The callers keep their ids right.
LEMMA CallsStep ==
  TypeInv /\ HeldAtPut /\ IdsUnique /\ CallsIdentified /\ [Next]_vars
    => IdsUnique' /\ CallsIdentified'
<1> SUFFICES ASSUME TypeInv, HeldAtPut, IdsUnique, CallsIdentified, [Next]_vars
             PROVE  IdsUnique' /\ CallsIdentified'
  OBVIOUS
<1> USE SenderAssumption DEF TypeInv, TypeOK
<1>1. ASSUME NEW c \in Conns, Wiring(c)
      PROVE  IdsUnique' /\ CallsIdentified'
  <2>1. UNCHANGED <<topicVars, callerVars>>
    BY <1>1, WiringKeepsCalls
  <2> QED
    BY <2>1 DEF IdsUnique, CallsIdentified, Identified, topicVars, callerVars
<1>2. ASSUME NEW k \in Callers, NEW t \in Topics, SendMessage(k, t)
      PROVE  IdsUnique' /\ CallsIdentified'
  BY <1>2 DEF SendMessage, BeginCall, topicVars, IdsUnique, CallsIdentified,
              Identified
<1>3. ASSUME NEW k \in Callers, SendCommand(k)
      PROVE  IdsUnique' /\ CallsIdentified'
  BY <1>3 DEF SendCommand, BeginCall, topicVars, IdsUnique, CallsIdentified,
              Identified
<1>4. ASSUME NEW k \in Callers, KnownTopicId(k)
      PROVE  IdsUnique' /\ CallsIdentified'
  <2>1. held[k] = None /\ job[k].topic \in Topics
    BY <1>4 DEF KnownTopicId, HeldAtPut, PutSites, HasTopic
  <2> QED
    BY <1>4, <2>1 DEF KnownTopicId, topicVars, IdsUnique, CallsIdentified,
                      Identified
<1>5. ASSUME NEW k \in Callers, NewTopicId(k)
      PROVE  IdsUnique' /\ CallsIdentified'
  <2> DEFINE t == job[k].topic
  <2>1. held[k] = None /\ t \in Topics
    BY <1>5 DEF NewTopicId, HeldAtPut, PutSites, HasTopic
  <2>2. IdsUnique'
    BY <1>5, <2>1 DEF NewTopicId, IdsUnique
  <2>3. \A j \in Callers \ {k} :
          cpc[j] \in {"map", "frame", "store"} => Identified(job[j])'
    BY <1>5, DecodesOn DEF NewTopicId, CallsIdentified, Identified
  <2> QED
    BY <1>5, <2>1, <2>2, <2>3 DEF NewTopicId, CallsIdentified, Identified
<1>6. ASSUME NEW k \in Callers, FetchQueue(k)
      PROVE  IdsUnique' /\ CallsIdentified'
  <2>1. IdsUnique' /\ UNCHANGED <<cpc, job, topic_to_id>>
    BY <1>6 DEF FetchQueue, topicVars, IdsUnique
  <2>2. \A j \in Callers : j # k => held'[j] = held[j]
    BY <1>6 DEF FetchQueue
  <2>3. cpc[k] = "frame" => Packs(job[k])
    BY <1>6 DEF FetchQueue, Serializable
  <2> QED
    BY <2>1, <2>2, <2>3 DEF CallsIdentified, Identified, Packs
<1>7. ASSUME NEW k \in Callers, CallRaises(k) \/ StoreFrame(k)
      PROVE  IdsUnique' /\ CallsIdentified'
  <2>1. Idle(k) /\ UNCHANGED topicVars
    BY <1>7 DEF CallRaises, StoreFrame
  <2> QED
    BY <2>1 DEF Idle, topicVars, IdsUnique, CallsIdentified, Identified
<1>8. ASSUME NEW k \in Callers, Put(k)
      PROVE  IdsUnique' /\ CallsIdentified'
  <2>1. CASE cpc[k] = "map"
    BY <1>8, <2>1 DEF Put, topicVars, IdsUnique, CallsIdentified, Identified
  <2>2. CASE cpc[k] # "map"
    <3>1. Idle(k) /\ UNCHANGED topicVars
      BY <1>8, <2>2 DEF Put
    <3> QED
      BY <3>1 DEF Idle, topicVars, IdsUnique, CallsIdentified, Identified
  <2> QED
    BY <2>1, <2>2
<1>9. ASSUME UNCHANGED vars
      PROVE  IdsUnique' /\ CallsIdentified'
  BY <1>9 DEF vars, topicVars, callerVars, IdsUnique, CallsIdentified,
              Identified
<1> QED
  BY <1>1, <1>2, <1>3, <1>4, <1>5, <1>6, <1>7, <1>8, <1>9
     DEF Next, CallerStep, Wiring

LEMMA DecodeInit == Init => HeldAtPut /\ IdsUnique /\ CallsIdentified /\ DecodeInv
  BY EmptySeq DEF Init, HeldAtPut, IdsUnique, CallsIdentified, DecodeInv

LEMMA DecodeStep ==
  TypeInv /\ HeldAtPut /\ CallsIdentified /\ DecodeInv /\ [Next]_vars
    => DecodeInv'
<1> SUFFICES ASSUME TypeInv, HeldAtPut, CallsIdentified, DecodeInv, [Next]_vars
             PROVE  DecodeInv'
  OBVIOUS
<1> USE DEF TypeInv, TypeOK
\* What a step leaves alone stays right, though the ids may change.
<1>1. /\ stream_slots \in Seq(DecodableFrames')
      /\ \A c \in Conns :
           /\ pending[c] \in Seq(DecodableFrames')
           /\ local_queue[c]  \in Seq(Sendable')
           /\ batch_buffer[c] \in Seq(Sendable')
           /\ wire[c]         \in Seq(Sendable')
  BY DecodesOn, SeqMonotonic DEF DecodeInv
<1>2. ASSUME UNCHANGED <<stream_slots, pending, local_queue, batch_buffer, wire>>
      PROVE  DecodeInv'
  BY <1>1, <1>2 DEF DecodeInv
<1>3. ASSUME NEW c \in Conns, Accept(c) \/ ClientExit(c) \/ SeeHalt(c)
                                \/ ReleaseQueue(c) \/ Aside(c)
      PROVE  DecodeInv'
  BY <1>2, <1>3 DEF Accept, ClientExit, SeeHalt, ReleaseQueue, Aside,
                    ConnectionFails, SendNothing, BeginSend, senderVars
<1>4. ASSUME NEW k \in Callers,
             \/ \E t \in Topics : SendMessage(k, t)
             \/ SendCommand(k)
             \/ KnownTopicId(k)
             \/ NewTopicId(k)
             \/ FetchQueue(k)
             \/ CallRaises(k)
      PROVE  DecodeInv'
  BY <1>2, <1>4 DEF SendMessage, SendCommand, BeginCall, KnownTopicId,
                    NewTopicId, FetchQueue, CallRaises, senderVars
<1>5. ASSUME NEW k \in Callers, Put(k)
      PROVE  DecodeInv'
  <2>1. held[k] \in Conns /\ ItemOf(k) \in Sendable'
    BY <1>5, ItemOfSendable, DecodesOn DEF Put, HeldAtPut
  <2>2. Append(local_queue[held[k]], ItemOf(k)) \in Seq(Sendable')
    BY <1>1, <2>1
  <2>3. \A c \in Conns : local_queue'[c] \in Seq(Sendable')
    BY <1>1, <1>5, <2>1, <2>2 DEF Put
  <2> QED
    BY <1>1, <1>5, <2>3 DEF Put, DecodeInv, senderVars
<1>6. ASSUME NEW k \in Callers, StoreFrame(k)
      PROVE  DecodeInv'
  <2> DEFINE f == Frame(job[k].topic, job[k].id, job[k].call)
  <2>1. f \in DecodableFrames
    BY <1>6 DEF StoreFrame, CallsIdentified, Identified, DecodableFrames,
                Decodable, Frame, Item, Items, Kinds, Jobs
  <2>2. stream_slots' \in Seq(DecodableFrames')
    BY <1>1, <1>6, <2>1, StoreSlotType, DecodesOn DEF StoreFrame
  <2> QED
    BY <1>1, <1>6, <2>2 DEF StoreFrame, DecodeInv, senderVars
<1>7. ASSUME NEW c \in Conns, StartLoop(c)
      PROVE  DecodeInv'
  <2>1. <<Handshake>> \in Seq(Sendable')
    BY DEF Sendable, Decodable, Handshake, Item, Items, Kinds
  <2> QED
    BY <1>1, <1>7, <2>1 DEF StartLoop, DecodeInv
<1>8. ASSUME NEW c \in Conns, DrainQueue(c)
      PROVE  DecodeInv'
  <2>1. batch_buffer[c] \o local_queue[c] \in Seq(Sendable')
    BY <1>1, ConcatProperties
  <2> QED
    BY <1>1, <1>8, <2>1, EmptySeq DEF DrainQueue, DecodeInv
<1>9. ASSUME NEW c \in Conns, TakeSlots(c)
      PROVE  DecodeInv'
  BY <1>1, <1>9, EmptySeq DEF TakeSlots, DecodeInv
<1>10. ASSUME NEW c \in Conns, SerializeFrame(c)
       PROVE  DecodeInv'
  <2> DEFINE f == Head(pending[c])
  <2>1. f \in DecodableFrames' /\ Tail(pending[c]) \in Seq(DecodableFrames')
    BY <1>1, <1>10, HeadTailProperties DEF SerializeFrame
  <2>2. Packs(f) => f \in Sendable'
    BY <2>1 DEF DecodableFrames, Sendable, Packs
  <2>3. Packs(f) => Append(batch_buffer[c], f) \in Seq(Sendable')
    BY <1>1, <2>2
  <2> HIDE DEF f
  <2>4. \A d \in Conns :
          /\ batch_buffer'[d] = IF d = c /\ Packs(f)
                                THEN Append(batch_buffer[c], f)
                                ELSE batch_buffer[d]
          /\ pending'[d] = IF d = c THEN Tail(pending[c]) ELSE pending[d]
    BY <1>10 DEF SerializeFrame, f
  <2>5. UNCHANGED <<stream_slots, local_queue, wire>>
    BY <1>10 DEF SerializeFrame
  <2> QED
    BY <1>1, <2>1, <2>3, <2>4, <2>5 DEF DecodeInv
<1>11. ASSUME NEW c \in Conns, SendBatch(c)
       PROVE  DecodeInv'
  <2>1. wire[c] \o batch_buffer[c] \in Seq(Sendable')
    BY <1>1, ConcatProperties
  <2> QED
    BY <1>1, <1>11, <2>1, EmptySeq DEF SendBatch, DecodeInv
<1>12. ASSUME NEW c \in Conns, SendRefused(c) \/ SendFails(c)
       PROVE  DecodeInv'
  <2>1. PICK n \in 0 .. Len(batch_buffer[c]) : BreakOff(c, n)
    BY <1>12, BreaksOff
  <2>2. SubSeq(batch_buffer[c], 1, n) \in Seq(Sendable')
    BY <1>1, SeqPrefix
  <2>3. wire[c] \o SubSeq(batch_buffer[c], 1, n) \in Seq(Sendable')
    BY <1>1, <2>2, ConcatProperties
  <2>4. \A d \in Conns : wire'[d] \in Seq(Sendable')
    BY <1>1, <2>1, <2>3 DEF BreakOff
  <2> QED
    BY <1>1, <2>1, <2>4, EmptySeq DEF BreakOff, DecodeInv
<1>13. ASSUME UNCHANGED vars
       PROVE  DecodeInv'
  BY <1>2, <1>13 DEF vars, senderVars
<1> QED
  BY <1>3, <1>4, <1>5, <1>6, <1>7, <1>8, <1>9, <1>10, <1>11, <1>12, <1>13
     DEF Aside, Next, CallerStep, SenderStep, SendEnds

\* However the calls of any number of threads interleave, every id Unity reads
\* names the topic the message was sent on, and no other.
THEOREM EveryItemDecodes == Spec => []WireDecodes
<1>1. TypeInv /\ IdsUnique /\ DecodeInv => WireDecodes
  <2> SUFFICES ASSUME TypeInv, IdsUnique, DecodeInv,
                      NEW c \in Conns, NEW i \in DOMAIN wire[c],
                      wire[c][i].kind \in {"topic_map", "frame"}
               PROVE  /\ \A t \in Topics :
                           topic_to_id[t] = wire[c][i].id <=> t = wire[c][i].topic
                      /\ wire[c][i].kind = "frame" => Packs(wire[c][i])
    BY DEF WireDecodes
  <2>1. wire[c] \in Seq(Sendable)
    BY DEF DecodeInv
  <2>2. wire[c][i] \in Sendable
    BY <2>1, LenProperties, ElementOfSeq
  <2>3. Identified(wire[c][i])
    BY <2>2 DEF Sendable, Decodable
  <2>4. wire[c][i].kind = "frame" => Packs(wire[c][i])
    BY <2>2 DEF Sendable
  <2> QED
    BY <2>3, <2>4 DEF Identified, IdsUnique
<1> QED
  BY <1>1, TypeInit, TypeStep, HeldStep, CallsStep, DecodeInit, DecodeStep, PTL
     DEF Spec

-----------------------------------------------------------------------------
(* UnityTcpSender implements ReliableChannel on every connection.          *)

\* The refinement mapping, as the instance Channel spells it out.
Waiting  == [c \in Conns |-> batch_buffer[c] \o local_queue[c]]
Offered  == {ItemOf(k) : k \in {j \in Callers : held[j] # None}}
Frames   == [c \in Conns |-> {pending[c][i] : i \in DOMAIN pending[c]}]
StatusOf(pc) ==
  IF pc \in {"none", "start"} THEN "new"
  ELSE IF pc \in {"release", "done"} THEN "dead" ELSE "open"
Status   == [c \in Conns |-> StatusOf(spc[c])]

-----------------------------------------------------------------------------
(* Sequences cut where the batch ends.                                     *)

LEMMA CutPrefix ==
  ASSUME NEW S, NEW s \in Seq(S), NEW t \in Seq(S), NEW n \in 0 .. Len(s)
  PROVE  SubSeq(s \o t, 1, n) = SubSeq(s, 1, n)
<1>1. CASE n = 0
  BY <1>1, SubSeqEmpty
<1>2. CASE n # 0
  BY <1>2, LenProperties, SubSeqOfConcat1
<1> QED
  BY <1>1, <1>2

LEMMA CutConcat ==
  ASSUME NEW S, NEW s \in Seq(S), NEW t \in Seq(S)
  PROVE  /\ Len(s) \in 0 .. Len(s \o t)
         /\ SubSeq(s \o t, 1, Len(s)) = s
         /\ SubSeq(s \o t, Len(s) + 1, Len(s \o t)) = t
<1>1. Len(s) \in Nat /\ Len(t) \in Nat
  BY LenProperties
<1>2. Len(s \o t) = Len(s) + Len(t)
  BY ConcatProperties
<1>3. SubSeq(s \o t, 1, Len(s)) = s
  BY <1>1, CutPrefix, SubSeqFull
<1>4. SubSeq(s \o t, Len(s) + 1, Len(s) + Len(t)) = t
  <2>1. CASE t = <<>>
    BY <1>1, <2>1, SubSeqEmpty, EmptySeq
  <2>2. CASE t # <<>>
    <3>1. Len(t) \in Nat \ {0}
      BY <2>2, EmptySeq
    <3>2. SubSeq(s \o t, Len(s) + 1, Len(s) + Len(t)) = SubSeq(t, 1, Len(t))
      BY <1>1, <3>1, SubSeqOfConcat2
    <3> QED
      BY <3>2, SubSeqFull
  <2> QED
    BY <2>1, <2>2
<1> QED
  BY <1>1, <1>2, <1>3, <1>4

LEMMA AppendConcat ==
  ASSUME NEW S, NEW s \in Seq(S), NEW t \in Seq(S), NEW e \in S
  PROVE  /\ s \o Append(t, e) = Append(s \o t, e)
         /\ Append(s, e) \o t = s \o <<e>> \o t
<1>1. <<e>> \in Seq(S) /\ s \o t \in Seq(S)
  BY ConcatProperties
<1>2. /\ Append(t, e) = t \o <<e>>
      /\ Append(s, e) = s \o <<e>>
      /\ Append(s \o t, e) = (s \o t) \o <<e>>
  BY <1>1
<1> QED
  BY <1>1, <1>2, ConcatAssociative

-----------------------------------------------------------------------------
(* The steps.                                                              *)

RefInv == TypeInv /\ QueueInv /\ HandshakeInv /\ SlotsPlain

LEMMA ChannelInit == Init => Channel!Init
<1> SUFFICES ASSUME Init
             PROVE  Channel!Init
  OBVIOUS
<1>1. Waiting = [c \in Conns |-> <<>>]
  BY ConcatEmptySeq, EmptySeq DEF Init, Waiting
<1> QED
  BY <1>1 DEF Init, Waiting, Channel!Init

\* A step that leaves the mapped state alone.
LEMMA ChannelStutter ==
  ASSUME UNCHANGED <<Waiting, wire, Status>>
  PROVE  UNCHANGED Channel!chanVars
  BY DEF Waiting, Status, StatusOf, Channel!chanVars

LEMMA ChannelStep ==
  RefInv /\ [Next]_vars => [Channel!Next]_(Channel!chanVars)
<1> SUFFICES ASSUME RefInv, [Next]_vars
             PROVE  [Channel!Next]_(Channel!chanVars)
  OBVIOUS
<1> USE DEF RefInv, TypeInv, TypeOK
<1>1. ASSUME NEW c \in Conns, Accept(c)
      PROVE  UNCHANGED Channel!chanVars
  <2>1. UNCHANGED <<Waiting, wire>>
    BY <1>1 DEF Accept, Waiting
  <2>2. UNCHANGED Status
    BY <1>1 DEF Accept, Status, StatusOf, QueueInv
  <2> QED
    BY <2>1, <2>2, ChannelStutter
<1>2. ASSUME NEW c \in Conns, ClientExit(c) \/ TakeSlots(c) \/ ReleaseQueue(c)
      PROVE  UNCHANGED Channel!chanVars
  <2>1. UNCHANGED <<Waiting, wire>>
    BY <1>2 DEF ClientExit, TakeSlots, ReleaseQueue, senderVars, Waiting
  <2>2. UNCHANGED Status
    BY <1>2 DEF ClientExit, TakeSlots, ReleaseQueue, senderVars, Status, StatusOf
  <2> QED
    BY <2>1, <2>2, ChannelStutter
<1>3. ASSUME NEW k \in Callers,
             \/ \E t \in Topics : SendMessage(k, t)
             \/ SendCommand(k)
             \/ KnownTopicId(k)
             \/ NewTopicId(k)
             \/ FetchQueue(k)
             \/ CallRaises(k)
             \/ StoreFrame(k)
      PROVE  UNCHANGED Channel!chanVars
  <2>1. UNCHANGED <<senderVars, local_queue>>
    BY <1>3 DEF SendMessage, SendCommand, BeginCall, KnownTopicId, NewTopicId,
                FetchQueue, CallRaises, StoreFrame
  <2> QED
    BY <2>1, ChannelStutter DEF senderVars, Waiting, Status
<1>4. ASSUME NEW k \in Callers, Put(k)
      PROVE  Channel!Next
  <2> DEFINE m == ItemOf(k)
  <2>0. PICK h \in Conns : h = held[k]
    BY <1>4 DEF Put
  <2>1. m \in Items /\ StatusOf(spc[h]) # "new"
    BY <1>4, <2>0, ItemOfType DEF Put, QueueInv, Started, StatusOf
  <2>2. UNCHANGED <<wire, batch_buffer, spc>>
    BY <1>4 DEF Put, senderVars
  <2>3. batch_buffer[h] \o Append(local_queue[h], m)
          = Append(batch_buffer[h] \o local_queue[h], m)
    BY <2>1, AppendConcat
  <2>4. Waiting' = [Waiting EXCEPT ![h] = Append(@, m)]
    BY <1>4, <2>0, <2>2, <2>3 DEF Put, Waiting
  <2>5. m \in Offered
    BY <1>4 DEF Put, Offered
  <2>6. Channel!Accept(h)
    BY <2>1, <2>2, <2>4, <2>5
       DEF Channel!Accept, Waiting, Offered, StatusOf
  <2> QED
    BY <2>6 DEF Channel!Next
<1>5. ASSUME NEW c \in Conns, StartLoop(c)
      PROVE  Channel!Next
  <2>1. batch_buffer[c] \o <<Handshake>> = <<Handshake>>
    <3>1. <<Handshake>> \in Seq(Items)
      BY DEF Handshake, Item, Items, Kinds
    <3>2. batch_buffer[c] = <<>>
      BY <1>5 DEF StartLoop, HandshakeInv
    <3> QED
      BY <3>1, <3>2, ConcatEmptySeq
  <2>2. Waiting' = [Waiting EXCEPT ![c] = <<Handshake>>]
    BY <1>5, <2>1 DEF StartLoop, Waiting
  <2>3. Status' = [Status EXCEPT ![c] = "open"] /\ Status[c] = "new"
    BY <1>5 DEF StartLoop, Status, StatusOf
  <2>4. Channel!Open(c)
    BY <1>5, <2>2, <2>3 DEF StartLoop, Channel!Open, Waiting, Status, StatusOf
  <2> QED
    BY <2>4 DEF Channel!Next
<1>6. ASSUME NEW c \in Conns, DrainQueue(c)
      PROVE  UNCHANGED Channel!chanVars
  <2>1. (batch_buffer[c] \o local_queue[c]) \o <<>>
          = batch_buffer[c] \o local_queue[c]
    BY ConcatProperties, ConcatEmptySeq
  <2>2. UNCHANGED <<Waiting, wire>>
    BY <1>6, <2>1 DEF DrainQueue, Waiting
  <2>3. UNCHANGED Status
    BY <1>6 DEF DrainQueue, Status, StatusOf
  <2> QED
    BY <2>2, <2>3, ChannelStutter
<1>7. ASSUME NEW c \in Conns, SerializeFrame(c)
      PROVE  [Channel!Next]_(Channel!chanVars)
  <2> DEFINE f == Head(pending[c])
             b == batch_buffer[c]
             q == local_queue[c]
  <2>1. f \in Items /\ f \in Frames[c] /\ Status[c] = "open"
    <3>1. f = pending[c][1] /\ 1 \in DOMAIN pending[c]
      BY <1>7, LenProperties, EmptySeq DEF SerializeFrame
    <3> QED
      BY <1>7, <3>1, HeadTailProperties
         DEF SerializeFrame, Frames, Status, StatusOf
  <2>2. UNCHANGED <<wire, Status, local_queue>>
    BY <1>7 DEF SerializeFrame, Status
  <2>5. b \in Seq(Items) /\ q \in Seq(Items)
    OBVIOUS
  <2>3. CASE Packs(f)
    <3>1. batch_buffer' = [batch_buffer EXCEPT ![c] = Append(@, f)]
      BY <1>7, <2>3 DEF SerializeFrame
    <3>2. Waiting[c] = b \o q
      BY DEF Waiting
    <3>3. /\ Len(b) \in 0 .. Len(Waiting[c])
          /\ SubSeq(Waiting[c], 1, Len(b)) = b
          /\ SubSeq(Waiting[c], Len(b) + 1, Len(Waiting[c])) = q
      BY <3>2, CutConcat
    <3>4. Append(b, f) \o q = b \o <<f>> \o q
      <4> HIDE DEF f, b, q, RefInv, TypeInv, TypeOK
      <4>1. f \in Items
        BY <2>1
      <4> QED
        BY <2>5, <4>1, AppendConcat
    <3>5. Waiting' = [Waiting EXCEPT
                        ![c] = SubSeq(@, 1, Len(b)) \o <<f>>
                                 \o SubSeq(@, Len(b) + 1, Len(@))]
      BY <2>2, <3>1, <3>2, <3>3, <3>4 DEF Waiting
    <3>6. Channel!Overtake(c)
      <4> HIDE DEF f, b
      <4>1. \E g \in Frames[c], n \in 0 .. Len(Waiting[c]) :
              Waiting' = [Waiting EXCEPT ![c] = SubSeq(@, 1, n) \o <<g>>
                                                  \o SubSeq(@, n + 1, Len(@))]
        BY <2>1, <3>3, <3>5
      <4> QED
        BY <2>1, <2>2, <4>1
           DEF Channel!Overtake, Waiting, Frames, Status, StatusOf
    <3> QED
      BY <3>6 DEF Channel!Next
  <2>4. CASE ~Packs(f)
    <3>1. UNCHANGED batch_buffer
      BY <1>7, <2>4 DEF SerializeFrame
    <3> QED
      BY <2>2, <3>1, ChannelStutter DEF Waiting
  <2> QED
    BY <2>3, <2>4
<1>8. ASSUME NEW c \in Conns, SeeHalt(c)
      PROVE  Channel!Next
  <2> DEFINE W == Waiting[c]
  <2>1. W \in Seq(Items)
    BY ConcatProperties DEF Waiting
  <2>2. SubSeq(W, 1, 0) = <<>> /\ SubSeq(W, 0 + 1, Len(W)) = W /\ 0 \in 0 .. Len(W)
    BY <2>1, SubSeqEmpty, SubSeqFull, LenProperties
  <2>3. wire[c] \o SubSeq(W, 1, 0) = wire[c]
    BY <2>2, ConcatEmptySeq
  <2>4. UNCHANGED <<Waiting, wire>>
    BY <1>8 DEF SeeHalt, Waiting
  <2>5. Status' = [Status EXCEPT ![c] = "dead"] /\ Status[c] = "open"
    BY <1>8 DEF SeeHalt, Status, StatusOf
  <2>6. wire' = [wire EXCEPT ![c] = @ \o SubSeq(W, 1, 0)]
    BY <2>3, <2>4
  <2>7. Waiting' = [Waiting EXCEPT ![c] = SubSeq(@, 0 + 1, Len(@))]
    BY <2>2, <2>4 DEF Waiting
  <2>8. Channel!Fail(c)
    <3>1. 0 \in 0 .. 0
      OBVIOUS
    <3> QED
      BY <2>2, <2>5, <2>6, <2>7, <3>1
         DEF Channel!Fail, Waiting, Status, StatusOf
  <2> QED
    BY <2>8 DEF Channel!Next
<1>9. ASSUME NEW c \in Conns, SendBatch(c)
      PROVE  [Channel!Next]_(Channel!chanVars)
  <2> DEFINE b == batch_buffer[c]
             q == local_queue[c]
  <2>1. UNCHANGED Status /\ Status[c] = "open"
    BY <1>9 DEF SendBatch, Status, StatusOf
  <2>2. <<>> \o q = q /\ Waiting[c] = b \o q
    BY ConcatEmptySeq DEF Waiting
  <2>3. Waiting' = [Waiting EXCEPT ![c] = q]
    BY <1>9, <2>2 DEF SendBatch, Waiting
  <2>4. CASE b = <<>>
    <3>1. wire[c] \o b = wire[c] /\ b \o q = q
      BY <2>2, <2>4, ConcatEmptySeq
    <3>2. UNCHANGED <<Waiting, wire>>
      BY <1>9, <2>2, <2>3, <3>1 DEF SendBatch, Waiting
    <3> QED
      BY <2>1, <3>2, ChannelStutter
  <2>5. CASE b # <<>>
    <3>1. /\ Len(b) \in 1 .. Len(Waiting[c])
          /\ SubSeq(Waiting[c], 1, Len(b)) = b
          /\ SubSeq(Waiting[c], Len(b) + 1, Len(Waiting[c])) = q
      <4>1. b \in Seq(Items) /\ q \in Seq(Items)
        OBVIOUS
      <4>2. Len(b) \in Nat \ {0}
        BY <2>5, <4>1, EmptySeq
      <4> HIDE DEF b, q
      <4>3. /\ Len(b) \in 0 .. Len(b \o q)
            /\ SubSeq(b \o q, 1, Len(b)) = b
            /\ SubSeq(b \o q, Len(b) + 1, Len(b \o q)) = q
        BY <4>1, CutConcat
      <4>4. Len(b \o q) \in Nat
        BY <4>1, ConcatProperties, LenProperties
      <4> QED
        BY <2>2, <4>2, <4>3, <4>4
    <3>2. wire' = [wire EXCEPT ![c] = @ \o SubSeq(Waiting[c], 1, Len(b))]
      BY <1>9, <3>1 DEF SendBatch
    <3>3. Waiting' = [Waiting EXCEPT ![c] = SubSeq(@, Len(b) + 1, Len(@))]
      BY <2>3, <3>1
    <3>4. Channel!Deliver(c)
      BY <2>1, <3>1, <3>2, <3>3 DEF Channel!Deliver, Waiting, Status, StatusOf
    <3> QED
      BY <3>4 DEF Channel!Next
  <2> QED
    BY <2>4, <2>5
<1>10. ASSUME NEW c \in Conns, SendRefused(c) \/ SendFails(c)
       PROVE  Channel!Next
  <2> DEFINE b == batch_buffer[c]
             q == local_queue[c]
  <2>0. spc[c] \in {"send", "sendall"}
    BY <1>10, BreaksOff
  <2>1. PICK n \in 0 .. Len(b) : BreakOff(c, n)
    BY <1>10, BreaksOff
  <2>2. Status' = [Status EXCEPT ![c] = "dead"] /\ Status[c] = "open"
    BY <2>0, <2>1 DEF BreakOff, Status, StatusOf
  <2>3. <<>> \o q = q /\ Waiting[c] = b \o q
    BY ConcatEmptySeq DEF Waiting
  <2>4. /\ Len(b) \in 0 .. Len(Waiting[c])
        /\ SubSeq(Waiting[c], Len(b) + 1, Len(Waiting[c])) = q
        /\ SubSeq(Waiting[c], 1, n) = SubSeq(b, 1, n)
    <3>1. b \in Seq(Items) /\ q \in Seq(Items)
      OBVIOUS
    <3> HIDE DEF b, q
    <3>2. /\ Len(b) \in 0 .. Len(b \o q)
          /\ SubSeq(b \o q, Len(b) + 1, Len(b \o q)) = q
      BY <3>1, CutConcat
    <3>3. SubSeq(b \o q, 1, n) = SubSeq(b, 1, n)
      BY <2>1, <3>1, CutPrefix
    <3> QED
      BY <2>3, <3>2, <3>3
  <2>5. Waiting' = [Waiting EXCEPT ![c] = SubSeq(@, Len(b) + 1, Len(@))]
    BY <2>1, <2>3, <2>4 DEF BreakOff, Waiting
  <2>6. wire' = [wire EXCEPT ![c] = @ \o SubSeq(Waiting[c], 1, n)]
    BY <2>1, <2>4 DEF BreakOff
  <2>7. Channel!Fail(c)
    BY <2>2, <2>4, <2>5, <2>6 DEF Channel!Fail, Waiting, Status, StatusOf
  <2> QED
    BY <2>7 DEF Channel!Next
<1>11. ASSUME UNCHANGED vars
       PROVE  UNCHANGED Channel!chanVars
  BY <1>11, ChannelStutter DEF vars, senderVars, Waiting, Status
<1>12. ASSUME NEW c \in Conns, Aside(c)
       PROVE  UNCHANGED Channel!chanVars
  <2>1. UNCHANGED <<Waiting, wire>>
    BY <1>12 DEF Aside, ConnectionFails, SendNothing, BeginSend, senderVars,
                 Waiting
  <2>2. UNCHANGED Status
    BY <1>12 DEF Aside, ConnectionFails, SendNothing, BeginSend, senderVars,
                 Status, StatusOf
  <2> QED
    BY <2>1, <2>2, ChannelStutter
<1> QED
  BY <1>1, <1>2, <1>3, <1>4, <1>5, <1>6, <1>7, <1>8, <1>9, <1>10, <1>11, <1>12
     DEF Aside, Next, CallerStep, SenderStep, SendEnds

\* Every connection keeps the promise of ReliableChannel: what callers put into
\* its queue is delivered in order, once and without a gap until it fails, and
\* only the frames of streaming topics overtake.
THEOREM ImplementsChannel == Spec => ChannelSpec
<1>1. RefInv /\ [Next]_vars => RefInv'
  <2> SUFFICES ASSUME RefInv, [Next]_vars
               PROVE  RefInv'
    OBVIOUS
  <2> QED
    BY TypeStep, QueueStep, HandshakeStep DEF RefInv
<1> QED
  BY <1>1, TypeInit, TypeStep, QueueInit, QueueStep, HandshakeInit,
     HandshakeStep, ChannelInit, ChannelStep, PTL
     DEF Spec, ChannelSpec, Channel!Spec, RefInv
=============================================================================
