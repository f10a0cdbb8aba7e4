---------------------------- MODULE RosSubscriber ----------------------------
(***************************************************************************)
(* A topic that Unity subscribes to, up to UnityTcpSender: the executor's  *)
(* threads run RosSubscriber.send in a reentrant callback group, so that   *)
(* callbacks of one topic may overlap, and each checks and then sets       *)
(* _last_sent_time without a lock (subscriber.py). Unity may register the  *)
(* topic again, which makes another RosSubscriber, and connections come    *)
(* and go.                                                                 *)
(***************************************************************************)
EXTENDS Integers, TopicPolicy

CONSTANTS
  Threads,      \* threads the executor may have
  Names,        \* names of topics, each the set of the tokens found in it
  Offers,       \* QoS that the topic's publisher in ROS may have
  None,         \* Python's None
  MaxTime,      \* bound on the clock
  MaxMessages,  \* bound on the messages delivered
  MaxSubs       \* bound on the registrations

ASSUME SubscriberAssumption ==
  /\ IsFiniteSet(Threads)
  /\ \A n \in Names : n \subseteq STRING
  /\ Offers \subseteq QoS
  /\ MaxTime \in Nat /\ MaxMessages \in Nat /\ MaxSubs \in Nat \ {0}

VARIABLES
  name,             \* the topic's
  threads,          \* ROS_TCP_EXECUTOR_THREADS, which run at most
  offered,          \* QoS of the topic's publisher in ROS
  clock,            \* time.monotonic()
  since,            \* when the present connection began; None without one
  sub,              \* number of the RosSubscriber in the table
  qos,              \* QoS of its subscription; None once it is destroyed
  last_sent_time,   \* per RosSubscriber
  pc,               \* per thread, where it is in its callback
  local,            \* per thread, the locals of its callback
  delivered,        \* number of messages delivered; numbers them
  forwarded,        \* what went on to a connection, in order
  dropped           \* what was dropped as too soon

topicVars == <<name, threads, offered>>
vars == <<topicVars, clock, since, sub, qos, last_sent_time, pc, local, delivered,
          forwarded, dropped>>

NoLocals == [msg |-> 0, now |-> 0, sub |-> 0]
Interval == ThrottleInterval(name)

\* The clock has been running for longer than any interval.
Start == 100

Init ==
  /\ name \in Names
  /\ threads \in 1 .. Cardinality(Threads)
  /\ offered \in Offers
  /\ clock = Start
  /\ since = None
  /\ sub = 1
  /\ qos \in {SubscriberQoS(name, asked) : asked \in QoS}
  /\ last_sent_time = <<0>>
  /\ pc = [k \in Threads |-> "idle"]
  /\ local = [k \in Threads |-> NoLocals]
  /\ delivered = 0
  /\ forwarded = <<>>
  /\ dropped = {}

-----------------------------------------------------------------------------
Tick ==
  /\ clock < Start + MaxTime
  /\ clock' = clock + 1
  /\ UNCHANGED <<topicVars, since, sub, qos, last_sent_time, pc, local, delivered,
                 forwarded, dropped>>

\* self.queue of the sender is set, or reset.
Connect ==
  /\ since' = IF since = None THEN clock ELSE None
  /\ UNCHANGED <<topicVars, clock, sub, qos, last_sent_time, pc, local, delivered,
                 forwarded, dropped>>

\* SysCommands.subscribe: the old subscription is destroyed ...
Unregister ==
  /\ qos # None
  /\ qos' = None
  /\ UNCHANGED <<topicVars, clock, since, sub, last_sent_time, pc, local,
                 delivered, forwarded, dropped>>

\* Fault: the time belongs to the class.
SubscribeSharesTime ==
  /\ qos = None
  /\ sub < MaxSubs
  /\ sub' = sub + 1
  /\ qos' \in {SubscriberQoS(name, asked) : asked \in QoS}
  /\ UNCHANGED <<topicVars, clock, since, last_sent_time, pc, local, delivered,
                 forwarded, dropped>>

\* ... and another made, with an object and a throttle of its own.
Subscribe ==
  /\ qos = None
  /\ sub < MaxSubs
  /\ sub' = sub + 1
  /\ qos' \in {SubscriberQoS(name, asked) : asked \in QoS}
  /\ last_sent_time' = Append(last_sent_time, 0)
  /\ UNCHANGED <<topicVars, clock, since, pc, local, delivered, forwarded, dropped>>

-----------------------------------------------------------------------------
(* A callback: RosSubscriber.send.                                         *)

ThreadFree == Cardinality({k \in Threads : pc[k] # "idle"}) < threads

\* Fault: the rate has come to stand for the interval.
TooSoonHz(now, last) == now - last < 60 \div Interval

TooSoon(now, last) == now - last < Interval

\* Fault: the old subscription is not destroyed, and its object goes on.
DeliverToAll(k) ==
  /\ pc[k] = "idle"
  /\ ThreadFree
  /\ qos # None /\ Matches(offered, qos)
  /\ delivered < MaxMessages
  /\ delivered' = delivered + 1
  /\ \E s \in 1 .. sub :
       local' = [local EXCEPT ![k] = [msg |-> delivered', now |-> clock, sub |-> s]]
  /\ pc' = [pc EXCEPT ![k] = IF Interval > 0 THEN "test" ELSE "forward"]
  /\ UNCHANGED <<topicVars, clock, since, sub, qos, last_sent_time, forwarded,
                 dropped>>

\* The next message arrives; now = time.monotonic() if there is a throttle.
Deliver(k) ==
  /\ pc[k] = "idle"
  /\ ThreadFree
  /\ qos # None /\ Matches(offered, qos)
  /\ delivered < MaxMessages
  /\ delivered' = delivered + 1
  /\ local' = [local EXCEPT ![k] = [msg |-> delivered', now |-> clock, sub |-> sub]]
  /\ pc' = [pc EXCEPT ![k] = IF Interval > 0 THEN "test" ELSE "forward"]
  /\ UNCHANGED <<topicVars, clock, since, sub, qos, last_sent_time, forwarded,
                 dropped>>

Drop(k) ==
  /\ pc[k] = "test"
  /\ TooSoon(local[k].now, last_sent_time[local[k].sub])
  /\ dropped' = dropped \cup {[msg |-> local[k].msg, now |-> local[k].now,
                               sub |-> local[k].sub, since |-> since]}
  /\ pc' = [pc EXCEPT ![k] = "idle"]
  /\ local' = [local EXCEPT ![k] = NoLocals]
  /\ UNCHANGED <<topicVars, clock, since, sub, qos, last_sent_time, delivered,
                 forwarded>>

Pass(k) ==
  /\ pc[k] = "test"
  /\ ~TooSoon(local[k].now, last_sent_time[local[k].sub])
  /\ pc' = [pc EXCEPT ![k] = "stamp"]
  /\ UNCHANGED <<topicVars, clock, since, sub, qos, last_sent_time, local,
                 delivered, forwarded, dropped>>

\* Fault: the time is not kept.
StampNothing(k) ==
  /\ pc[k] = "stamp"
  /\ pc' = [pc EXCEPT ![k] = "forward"]
  /\ UNCHANGED <<topicVars, clock, since, sub, qos, last_sent_time, local,
                 delivered, forwarded, dropped>>

\* self._last_sent_time = now, which may be older than what another thread set.
Stamp(k) ==
  /\ pc[k] = "stamp"
  /\ last_sent_time' = [last_sent_time EXCEPT ![local[k].sub] = local[k].now]
  /\ pc' = [pc EXCEPT ![k] = "forward"]
  /\ UNCHANGED <<topicVars, clock, since, sub, qos, local, delivered, forwarded,
                 dropped>>

\* send_unity_message: without a connection the message is lost.
Forward(k) ==
  /\ pc[k] = "forward"
  /\ forwarded' = IF since = None THEN forwarded ELSE Append(forwarded, local[k])
  /\ pc' = [pc EXCEPT ![k] = "idle"]
  /\ local' = [local EXCEPT ![k] = NoLocals]
  /\ UNCHANGED <<topicVars, clock, since, sub, qos, last_sent_time, delivered,
                 dropped>>

-----------------------------------------------------------------------------
Next ==
  \/ Tick \/ Connect \/ Unregister \/ Subscribe
  \/ \E k \in Threads : Deliver(k) \/ Drop(k) \/ Pass(k) \/ Stamp(k) \/ Forward(k)

Spec == Init /\ [][Next]_vars

-----------------------------------------------------------------------------
(* Properties.                                                             *)

Times  == Start .. Start + MaxTime
Locals == [msg : Nat, now : Times \cup {0}, sub : 0 .. MaxSubs]
Drops  == [msg : Nat, now : Times, sub : 1 .. MaxSubs, since : Times \cup {None}]

TypeOK ==
  /\ name \in Names
  /\ threads \in 1 .. Cardinality(Threads)
  /\ offered \in Offers
  /\ clock \in Times
  /\ since \in Times \cup {None}
  /\ sub \in 1 .. MaxSubs
  /\ qos \in QoS \cup {None}
  /\ last_sent_time \in [1 .. sub -> Times \cup {0}]
  /\ pc \in [Threads -> {"idle", "test", "stamp", "forward"}]
  /\ local \in [Threads -> Locals]
  /\ delivered \in 0 .. MaxMessages
  /\ forwarded \in Seq(Locals)
  /\ dropped \in SUBSET Drops

\* The messages one RosSubscriber forwarded in the interval that ends at now.
Burst(s, now, interval) ==
  {i \in DOMAIN forwarded :
     /\ forwarded[i].sub = s
     /\ forwarded[i].now <= now
     /\ forwarded[i].now > now - interval}

\* Of n threads all may pass the test together, and each of them may later put
\* back an older time than the one that stands, after which all that are free pass
\* again. So in no interval does a RosSubscriber forward more than 1 + 2 + ... + n
\* messages; with one thread, more than one.
BurstBounded ==
  Interval > 0 =>
    \A s \in 1 .. sub, now \in Times :
      2 * Cardinality(Burst(s, now, Interval)) <= threads * (threads + 1)

\* The throttle takes its interval also for messages nobody is connected to
\* receive. Even so, with one thread, a message is dropped only within an interval
\* of one that was sent or of the beginning of the connection.
DropsAreDue ==
  threads = 1 =>
    \A d \in dropped : d.since # None =>
      \/ d.now < d.since + Interval
      \/ \E i \in DOMAIN forwarded :
           forwarded[i].sub = d.sub /\ d.now - forwarded[i].now < Interval

\* The messages of a RosSubscriber that went on after one of a later registration.
Late ==
  {j \in DOMAIN forwarded : \E i \in 1 .. j - 1 : forwarded[i].sub > forwarded[j].sub}

\* Two RosSubscribers forward one topic while callbacks of the old one are still
\* running. Each registration leaves at most one of them to every thread but the one
\* that carries a message of the new one; once those are through, nothing that Unity
\* receives is the old one's.
LateBounded == Cardinality(Late) <= (threads - 1) * (sub - 1)

\* subscriber.py:32, "Key is a topic substring, value is max Hz": no topic is
\* forwarded more often than any key in its name allows. With one thread.
MaxHz ==
  threads = 1 =>
    \A s \in 1 .. sub, now \in Times, i \in Entries(name) :
      Cardinality(Burst(s, now, ThrottleTable[i].interval)) <= 1
=============================================================================
