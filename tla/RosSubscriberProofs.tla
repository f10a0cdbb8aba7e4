------------------------- MODULE RosSubscriberProofs -------------------------
(***************************************************************************)
(* Safety of RosSubscriber, for any number of executor threads, any names  *)
(* and offers and any number of messages and registrations.                *)
(***************************************************************************)
EXTENDS RosSubscriber, FiniteSetTheorems, SequenceTheorems,
        WellFoundedInduction, TLAPS

-----------------------------------------------------------------------------
(* The invariant.                                                          *)

\* The threads that are inside a callback.
Busy == {k \in Threads : pc[k] # "idle"}

\* A thread in a callback has the time and the object it began with.
CallbackInv ==
  \A k \in Threads : pc[k] # "idle" =>
    /\ local[k].sub \in 1 .. sub
    /\ local[k].now \in Start .. clock
    /\ pc[k] \in {"test", "stamp"} => Interval > 0

\* No time is later than the clock.
PastInv ==
  /\ \A i \in DOMAIN forwarded :
       forwarded[i].sub \in 1 .. sub /\ forwarded[i].now \in Start .. clock
  /\ \A s \in 1 .. sub : last_sent_time[s] <= clock
  /\ since # None => since <= clock

\* In the interval that ends at e.
Within(t, e) == t <= e /\ t > e - Interval

\* The callbacks of object s that may put back a time from before the interval ...
Old(s, e) ==
  {k \in Threads : /\ pc[k] \in {"test", "stamp"}
                   /\ local[k].sub = s
                   /\ local[k].now <= e - Interval}

\* ... those that have passed the test in it, and those that have also stamped.
InPlace(place, s, e) ==
  {k \in Threads : pc[k] = place /\ local[k].sub = s /\ Within(local[k].now, e)}

Passed(s, e) == InPlace("stamp", s, e)
Leaving(s, e) == InPlace("forward", s, e)

\* How many messages of the interval have been let through.
Through(s, e) ==
  Cardinality(Burst(s, e, Interval)) + Cardinality(Passed(s, e))
    + Cardinality(Leaving(s, e))

\* Twice 1 + 2 + ... + n.
TwiceSum(n) == n * (n + 1)

\* With n threads of which o are old, p that have passed and not stamped, and c
\* messages let through: while the test lets messages of the interval pass, those p
\* are all that goes beyond the rounds before ...
RoundOpen(n, o, p, c) == 2 * c <= TwiceSum(n - o - 1) + 2 * p

\* ... and no more than the n - o free threads take part in it. An old callback that
\* stamps opens another, with one free thread more.
RoundOver(n, o, c) == 2 * c <= TwiceSum(n - o)

Rounds(s, e) ==
  IF last_sent_time[s] <= e - Interval
  THEN RoundOpen(threads, Cardinality(Old(s, e)), Cardinality(Passed(s, e)), Through(s, e))
  ELSE RoundOver(threads, Cardinality(Old(s, e)), Through(s, e))

BurstInv == Interval > 0 => \A s \in 1 .. sub, e \in Int : Rounds(s, e)

\* With one thread: where the time that stands comes from.
SentOrLost(s) ==
  \/ last_sent_time[s] = 0
  \/ \E k \in Threads :
       pc[k] = "forward" /\ local[k].sub = s /\ local[k].now = last_sent_time[s]
  \/ \E i \in DOMAIN forwarded :
       forwarded[i].sub = s /\ forwarded[i].now = last_sent_time[s]
  \/ since = None
  \/ since >= last_sent_time[s]

DropInv == threads = 1 => DropsAreDue /\ \A s \in 1 .. sub : SentOrLost(s)

\* The callbacks of registrations before number t: what they forward once one of
\* number t has been forwarded is late.
Behind(t) == {k \in Threads : pc[k] # "idle" /\ local[k].sub < t}

\* t is the youngest registration that has forwarded anything, or the first. The
\* late messages there are and may still be were left by the registrations up to t,
\* each to the n - 1 threads that did not forward the first message of the next.
LateUpTo(t) ==
  /\ \A i \in DOMAIN forwarded : forwarded[i].sub <= t
  /\ Cardinality(Late) + Cardinality(Behind(t)) <= (threads - 1) * (t - 1)

LateInv == \E t \in 1 .. sub : LateUpTo(t)

-----------------------------------------------------------------------------
(* The tables.                                                             *)

\* Every interval is a number of ticks, shorter than the clock has been running.
LEMMA Intervals == \A i \in DOMAIN ThrottleTable : ThrottleTable[i].interval \in 1 .. 60
<1>1. /\ 60 \div 30 = 2 /\ 60 \div 20 = 3 /\ 60 \div 10 = 6
      /\ 60 \div 15 = 4 /\ 60 \div 5 = 12
  OBVIOUS
<1>2. DOMAIN ThrottleTable = 1 .. 11
  BY DEF ThrottleTable
<1>3. \A i \in 1 .. 11 : ThrottleTable[i].interval \in {2, 3, 4, 6, 12}
  BY <1>1 DEF ThrottleTable, Throttle
<1> QED
  BY <1>2, <1>3

\* A set of positions has a first one.
LEMMA FirstExists ==
  ASSUME NEW S \in SUBSET Nat, S # {}
  PROVE  Min(S) \in S
<1>1. PICK x \in S : \A y \in S : <<y, x>> \notin OpToRel(<, Nat)
  BY NatLessThanWellFounded, WFMin, Zenon
<1>2. \A y \in S : ~(y < x)
  BY <1>1, Zenon DEF OpToRel
<1>3. \A y \in S : x =< y
  BY <1>2
<1> QED
  BY <1>3 DEF Min

LEMMA IntervalType == Interval \in 0 .. 60
<1>1. CASE Entries(name) = {}
  BY <1>1 DEF Interval, ThrottleInterval
<1>2. CASE Entries(name) # {}
  <2>1. Entries(name) \in SUBSET DOMAIN ThrottleTable /\ DOMAIN ThrottleTable \subseteq Nat
    BY DEF Entries, ThrottleTable
  <2>2. Min(Entries(name)) \in DOMAIN ThrottleTable
    BY <1>2, <2>1, FirstExists
  <2> QED
    BY <1>2, <2>2, Intervals DEF Interval, ThrottleInterval
<1> QED
  BY <1>1, <1>2

\* What a constructor makes is a QoS.
LEMMA QosType ==
  ASSUME NEW n, NEW asked \in QoS
  PROVE  SubscriberQoS(n, asked) \in QoS
BY DEF QoS, SubscriberQoS

-----------------------------------------------------------------------------
(* Types, and what the threads in a callback hold.                         *)

TypeInv == TypeOK /\ Cardinality(Busy) <= threads /\ CallbackInv /\ PastInv

LEMMA BusyFinite == IsFiniteSet(Busy) /\ Cardinality(Busy) \in Nat
BY SubscriberAssumption, FS_Subset, FS_CardinalityType DEF Busy

LEMMA ThreadsCounted ==
  ASSUME TypeOK
  PROVE  threads \in Nat /\ threads >= 1
BY SubscriberAssumption, FS_CardinalityType DEF TypeOK

\* No more threads are in a callback than the executor runs.
LEMMA BusyStep ==
  ASSUME TypeOK, Cardinality(Busy) <= threads, [Next]_vars
  PROVE  Cardinality(Busy') <= threads'
<1>1. threads \in Nat /\ threads' = threads
  BY ThreadsCounted DEF Next, vars, topicVars, Tick, Connect, Unregister, Subscribe,
                        Deliver, Drop, Pass, Stamp, Forward
<1>2. CASE Busy' \subseteq Busy
  BY <1>1, <1>2, BusyFinite, FS_Subset, FS_CardinalityType
<1>3. ASSUME NEW k \in Threads, Deliver(k)
      PROVE  Cardinality(Busy') <= threads'
  <2>1. Busy' = Busy \cup {k}
    BY <1>3 DEF Deliver, Busy, TypeOK
  <2>2. Cardinality(Busy) < threads
    BY <1>3 DEF Deliver, ThreadFree, Busy
  <2>3. Cardinality(Busy \cup {k}) \in {Cardinality(Busy), Cardinality(Busy) + 1}
    BY BusyFinite, FS_AddElement, Zenon
  <2> QED
    BY <1>1, <2>1, <2>2, <2>3, BusyFinite
<1>4. ASSUME NEW k \in Threads, Drop(k) \/ Pass(k) \/ Stamp(k) \/ Forward(k)
      PROVE  Busy' \subseteq Busy
  BY <1>4 DEF Drop, Pass, Stamp, Forward, Busy, TypeOK
<1>5. ASSUME Tick \/ Connect \/ Unregister \/ Subscribe \/ UNCHANGED vars
      PROVE  Busy' \subseteq Busy
  BY <1>5 DEF Tick, Connect, Unregister, Subscribe, vars, Busy
<1> QED
  BY <1>2, <1>3, <1>4, <1>5 DEF Next

\* The number of threads and the topic stay what they are.
LEMMA TopicStays ==
  ASSUME [Next]_vars
  PROVE  name' = name /\ threads' = threads /\ offered' = offered /\ Interval' = Interval
BY DEF Next, vars, topicVars, Tick, Connect, Unregister, Subscribe, Deliver, Drop,
       Pass, Stamp, Forward, Interval

LEMMA TypeInit == Init => TypeInv
<1> SUFFICES ASSUME Init PROVE TypeInv
  OBVIOUS
<1> USE SubscriberAssumption
<1>1. Start \in Times /\ Start = 100
  BY DEF Times, Start
<1>2. NoLocals \in Locals
  BY DEF NoLocals, Locals
<1>3. qos \in QoS
  BY QosType DEF Init
<1>4. last_sent_time \in [1 .. 1 -> Times \cup {0}] /\ last_sent_time[1] = 0
  BY DEF Init
<1>5. forwarded \in Seq(Locals) /\ DOMAIN forwarded = {}
  BY DEF Init
<1>6. Busy = {}
  BY DEF Init, Busy
<1>7. TypeOK
  BY <1>1, <1>2, <1>3, <1>4, <1>5 DEF Init, TypeOK
<1>8. Cardinality(Busy) <= threads
  BY <1>6, <1>7, FS_EmptySet, ThreadsCounted
<1>9. CallbackInv /\ PastInv
  BY <1>1, <1>4, <1>5 DEF Init, CallbackInv, PastInv
<1> QED
  BY <1>7, <1>8, <1>9 DEF TypeInv

\* A function on 1 .. n is a sequence, and one place longer after Append.
LEMMA Appended ==
  ASSUME NEW T, NEW n \in Nat, NEW f \in [1 .. n -> T], NEW x \in T
  PROVE  /\ Append(f, x) \in [1 .. n + 1 -> T]
         /\ \A i \in 1 .. n + 1 : Append(f, x)[i] = IF i \in 1 .. n THEN f[i] ELSE x
<1>1. f \in Seq(T) /\ Len(f) = n
  OBVIOUS
<1>2. Append(f, x) \in Seq(T) /\ Len(Append(f, x)) = n + 1
  BY <1>1, AppendProperties
<1>3. Append(f, x) \in [1 .. n + 1 -> T]
  BY <1>2, LenProperties
<1>4. \A i \in 1 .. n : Append(f, x)[i] = f[i]
  BY <1>1, AppendProperties
<1>5. Append(f, x)[n + 1] = x
  BY <1>1, AppendProperties
<1>6. ASSUME NEW i \in 1 .. n + 1
      PROVE  Append(f, x)[i] = IF i \in 1 .. n THEN f[i] ELSE x
  <2>1. CASE i \in 1 .. n
    BY <1>4, <2>1
  <2>2. CASE i = n + 1
    BY <1>5, <2>2
  <2> QED
    BY <2>1, <2>2
<1> QED
  BY <1>3, <1>6

LEMMA TypeStep == TypeInv /\ [Next]_vars => TypeInv'
<1> SUFFICES ASSUME TypeInv, [Next]_vars PROVE TypeInv'
  OBVIOUS
<1> USE SubscriberAssumption
<1>0. TypeOK /\ CallbackInv /\ PastInv
  BY DEF TypeInv
<1>1. CASE Tick
  <2>1. clock' \in Times /\ clock \in Times /\ clock' = clock + 1
    BY <1>0, <1>1 DEF Tick, TypeOK, Times, Start
  <2>2. TypeOK'
    BY <1>0, <1>1, <2>1 DEF Tick, TypeOK, topicVars
  <2>3. CallbackInv'
    BY <1>0, <1>1, <2>1 DEF Tick, CallbackInv, topicVars, Interval, Start, Times
  <2>4. PastInv'
    BY <1>0, <1>1, <2>1 DEF Tick, PastInv, TypeOK, Start, Times
  <2> QED
    BY <2>2, <2>3, <2>4, <1>0, BusyStep DEF TypeInv
<1>2. CASE Connect
  <2>1. TypeOK'
    BY <1>0, <1>2 DEF Connect, TypeOK, topicVars
  <2>2. CallbackInv'
    BY <1>0, <1>2 DEF Connect, CallbackInv, topicVars, Interval
  <2>3. PastInv'
    BY <1>0, <1>2 DEF Connect, PastInv, TypeOK, Start, Times
  <2> QED
    BY <2>1, <2>2, <2>3, <1>0, BusyStep DEF TypeInv
<1>3. CASE Unregister \/ UNCHANGED vars
  <2>1. TypeOK'
    BY <1>0, <1>3 DEF Unregister, vars, TypeOK, topicVars
  <2>2. CallbackInv' /\ PastInv'
    BY <1>0, <1>3 DEF Unregister, vars, CallbackInv, PastInv, topicVars, Interval
  <2> QED
    BY <2>1, <2>2, <1>0, BusyStep DEF TypeInv
<1>4. CASE Subscribe
  <2>1. qos' \in QoS
    BY <1>4, QosType DEF Subscribe
  <2>2. /\ last_sent_time' \in [1 .. sub' -> Times \cup {0}]
        /\ \A s \in 1 .. sub' :
             last_sent_time'[s] = IF s \in 1 .. sub THEN last_sent_time[s] ELSE 0
    <3>1. /\ sub \in Nat /\ sub' = sub + 1 /\ last_sent_time' = Append(last_sent_time, 0)
          /\ last_sent_time \in [1 .. sub -> Times \cup {0}]
      BY <1>0, <1>4 DEF Subscribe, TypeOK
    <3> DEFINE T == Times \cup {0}
    <3>2. last_sent_time \in [1 .. sub -> T] /\ 0 \in T
      BY <3>1
    <3> HIDE DEF T
    <3>3. Append(last_sent_time, 0) \in [1 .. sub + 1 -> T]
      BY <3>1, <3>2, Appended
    <3>4. \A s \in 1 .. sub + 1 : Append(last_sent_time, 0)[s] =
                                 IF s \in 1 .. sub THEN last_sent_time[s] ELSE 0
      BY <3>1, <3>2, Appended
    <3> QED
      BY <3>1, <3>3, <3>4, Zenon DEF T
  <2>3. TypeOK'
    BY <1>0, <1>4, <2>1, <2>2 DEF Subscribe, TypeOK, topicVars, Locals
  <2>4. CallbackInv' /\ PastInv'
    BY <1>0, <1>4, <2>2 DEF Subscribe, CallbackInv, PastInv, topicVars, Interval, TypeOK,
                            Times, Start
  <2> QED
    BY <2>3, <2>4, <1>0, BusyStep DEF TypeInv
<1>5. ASSUME NEW k \in Threads, Deliver(k)
      PROVE  TypeInv'
  <2>1. /\ local' = [local EXCEPT ![k] = [msg |-> delivered', now |-> clock, sub |-> sub]]
        /\ [msg |-> delivered', now |-> clock, sub |-> sub] \in Locals
    BY <1>0, <1>5 DEF Deliver, TypeOK, Locals
  <2>2. local' \in [Threads -> Locals]
    BY <1>0, <2>1 DEF TypeOK
  <2>3. TypeOK'
    BY <1>0, <1>5, <2>2 DEF Deliver, TypeOK, topicVars
  <2>4. CallbackInv'
    BY <1>0, <1>5, <2>1 DEF Deliver, CallbackInv, topicVars, Interval, TypeOK, Times, Start
  <2>5. PastInv'
    BY <1>0, <1>5 DEF Deliver, PastInv
  <2> QED
    BY <2>3, <2>4, <2>5, <1>0, BusyStep DEF TypeInv
<1>6. ASSUME NEW k \in Threads, Drop(k)
      PROVE  TypeInv'
  <2> DEFINE d == [msg |-> local[k].msg, now |-> local[k].now, sub |-> local[k].sub,
                   since |-> since]
  <2>1. local[k] \in Locals /\ local[k].sub \in 1 .. sub /\ local[k].now \in Start .. clock
    BY <1>0, <1>6 DEF Drop, CallbackInv, TypeOK
  <2>2. d \in Drops
    BY <1>0, <2>1 DEF Drops, TypeOK, Locals, Times, Start
  <2>3. dropped' = dropped \cup {d} /\ NoLocals \in Locals
    BY <1>6 DEF Drop, NoLocals, Locals
  <2> HIDE DEF d
  <2>4. TypeOK'
    BY <1>0, <1>6, <2>2, <2>3 DEF Drop, TypeOK, topicVars
  <2>5. CallbackInv' /\ PastInv'
    BY <1>0, <1>6 DEF Drop, CallbackInv, PastInv, TypeOK, topicVars, Interval
  <2> QED
    BY <2>4, <2>5, <1>0, BusyStep DEF TypeInv
<1>7. ASSUME NEW k \in Threads, Pass(k)
      PROVE  TypeInv'
  <2>1. TypeOK'
    BY <1>0, <1>7 DEF Pass, TypeOK, topicVars
  <2>2. CallbackInv' /\ PastInv'
    BY <1>0, <1>7 DEF Pass, CallbackInv, PastInv, TypeOK, topicVars, Interval
  <2> QED
    BY <2>1, <2>2, <1>0, BusyStep DEF TypeInv
<1>8. ASSUME NEW k \in Threads, Stamp(k)
      PROVE  TypeInv'
  <2>1. local[k].sub \in 1 .. sub /\ local[k].now \in Start .. clock
    BY <1>0, <1>8 DEF Stamp, CallbackInv, TypeOK
  <2>5. local[k].now \in Times
    BY <1>0, <2>1 DEF TypeOK, Times, Start
  <2>2. TypeOK'
    BY <1>0, <1>8, <2>1, <2>5 DEF Stamp, TypeOK, topicVars
  <2>3. CallbackInv'
    BY <1>0, <1>8 DEF Stamp, CallbackInv, TypeOK, topicVars, Interval
  <2>4. PastInv'
    BY <1>0, <1>8, <2>1 DEF Stamp, PastInv, TypeOK
  <2> QED
    BY <2>2, <2>3, <2>4, <1>0, BusyStep DEF TypeInv
<1>9. ASSUME NEW k \in Threads, Forward(k)
      PROVE  TypeInv'
  <2>1. /\ local[k] \in Locals /\ local[k].sub \in 1 .. sub
        /\ local[k].now \in Start .. clock /\ NoLocals \in Locals
    BY <1>0, <1>9 DEF Forward, CallbackInv, TypeOK, NoLocals, Locals
  <2>2. TypeOK'
    BY <1>0, <1>9, <2>1 DEF Forward, TypeOK, topicVars
  <2>3. CallbackInv'
    BY <1>0, <1>9 DEF Forward, CallbackInv, TypeOK, topicVars, Interval
  <2>4. PastInv'
    BY <1>0, <1>9, <2>1 DEF Forward, PastInv, TypeOK
  <2> QED
    BY <2>2, <2>3, <2>4, <1>0, BusyStep DEF TypeInv
<1> QED
  BY <1>1, <1>2, <1>3, <1>4, <1>5, <1>6, <1>7, <1>8, <1>9 DEF Next

\* The types, whatever the number of threads, registrations and messages.
THEOREM TypeCorrect == Spec => []TypeOK
<1>1. TypeInv => TypeOK
  BY DEF TypeInv
<1> QED
  BY <1>1, TypeInit, TypeStep, PTL DEF Spec

-----------------------------------------------------------------------------
(* What the callbacks of an old registration forward.                      *)

BothCounted ==
  /\ IsFiniteSet(Late) /\ Cardinality(Late) \in Nat
  /\ \A t \in Int : IsFiniteSet(Behind(t)) /\ Cardinality(Behind(t)) \in Nat
  /\ \A i \in DOMAIN forwarded : forwarded[i].sub \in Int

LEMMA SetsCounted == TypeOK => BothCounted
<1> SUFFICES ASSUME TypeOK PROVE BothCounted
  OBVIOUS
<1>1. Late \subseteq 1 .. Len(forwarded) /\ DOMAIN forwarded = 1 .. Len(forwarded)
  BY DEF TypeOK, Late
<1>2. IsFiniteSet(1 .. Len(forwarded))
  BY FS_Interval DEF TypeOK
<1>3. IsFiniteSet(Late) /\ Cardinality(Late) \in Nat
  BY <1>1, <1>2, FS_Subset, FS_CardinalityType
<1>4. ASSUME NEW t \in Int
      PROVE  IsFiniteSet(Behind(t)) /\ Cardinality(Behind(t)) \in Nat
  <2>1. Behind(t) \subseteq Busy
    BY DEF Behind, Busy
  <2> QED
    BY <2>1, BusyFinite, FS_Subset, FS_CardinalityType
<1>5. ASSUME NEW i \in DOMAIN forwarded
      PROVE  forwarded[i].sub \in Int
  <2>1. forwarded[i] \in Locals
    BY <1>1, <1>5 DEF TypeOK
  <2> QED
    BY <2>1 DEF Locals
<1> QED
  BY <1>3, <1>4, <1>5 DEF BothCounted

LEMMA SetsCountedNext == TypeOK' => BothCounted'
BY SetsCounted, PTL

\* A further message leaves those before it as late as they were; it is late
\* itself only if one of them is younger.
LEMMA LateAppended ==
  ASSUME TypeOK, NEW x \in Locals, forwarded' = Append(forwarded, x)
  PROVE  /\ Late' \subseteq Late \cup {Len(forwarded) + 1}
         /\ (\A i \in DOMAIN forwarded : forwarded[i].sub <= x.sub) => Late' = Late
<1> DEFINE n == Len(forwarded)
<1>1. n \in Nat /\ DOMAIN forwarded = 1 .. n
  BY DEF TypeOK
<1>2. /\ DOMAIN forwarded' = 1 .. n + 1
      /\ forwarded'[n + 1] = x
      /\ \A i \in 1 .. n : forwarded'[i] = forwarded[i]
  <2>1. forwarded \in Seq(Locals)
    BY DEF TypeOK
  <2> QED
    BY <2>1, AppendProperties
<1>3. \A i \in 1 .. n : forwarded[i].sub \in Int
  BY <1>1, SetsCounted DEF BothCounted
<1>4. x.sub \in Int
  BY DEF Locals
<1> HIDE DEF n
<1>5. \A j \in 1 .. n : j \in Late' <=> j \in Late
  <2> SUFFICES ASSUME NEW j \in 1 .. n PROVE j \in Late' <=> j \in Late
    OBVIOUS
  <2>1. \A i \in 1 .. j - 1 : i \in 1 .. n /\ forwarded'[i] = forwarded[i]
    BY <1>1, <1>2
  <2>2. forwarded'[j] = forwarded[j] /\ j \in DOMAIN forwarded /\ j \in DOMAIN forwarded'
    BY <1>1, <1>2
  <2> QED
    BY <2>1, <2>2 DEF Late
<1>6. Late' \subseteq 1 .. n + 1 /\ Late \subseteq 1 .. n
  BY <1>1, <1>2 DEF Late
<1>7. Late' \subseteq Late \cup {n + 1}
  BY <1>1, <1>5, <1>6
<1>8. ASSUME \A i \in DOMAIN forwarded : forwarded[i].sub <= x.sub
      PROVE  n + 1 \notin Late'
  <2>1. \A i \in 1 .. n : ~(forwarded'[i].sub > forwarded'[n + 1].sub)
    BY <1>1, <1>2, <1>3, <1>4, <1>8
  <2>2. (n + 1) - 1 = n
    BY <1>1
  <2> QED
    BY <2>1, <2>2 DEF Late
<1>9. (\A i \in DOMAIN forwarded : forwarded[i].sub <= x.sub) => Late' = Late
  BY <1>5, <1>6, <1>7, <1>8
<1> QED
  BY <1>7, <1>9 DEF n

\* Nothing is forwarded, and nobody falls behind.
LEMMA LateStays ==
  ASSUME TypeOK, TypeOK', forwarded' = forwarded, threads' = threads, sub' >= sub,
         \A t \in 1 .. sub : Behind(t)' \subseteq Behind(t), LateInv
  PROVE  LateInv'
<1>1. PICK t \in 1 .. sub : LateUpTo(t)
  BY DEF LateInv
<1>2. t \in Int /\ t \in 1 .. sub' /\ threads \in Nat
  BY ThreadsCounted DEF TypeOK
<1>3. /\ Cardinality(Behind(t)') <= Cardinality(Behind(t))
      /\ Cardinality(Behind(t)') \in Nat /\ Cardinality(Behind(t)) \in Nat
  BY <1>2, SetsCounted, SetsCountedNext, FS_Subset DEF BothCounted
<1>4. Late' = Late /\ Cardinality(Late) \in Nat
  BY <1>2, SetsCounted DEF Late, BothCounted
<1>5. Cardinality(Late)' + Cardinality(Behind(t)') <= Cardinality(Late) + Cardinality(Behind(t))
  BY <1>3, <1>4
<1>6. LateUpTo(t)'
  <2>1. Cardinality(Late) + Cardinality(Behind(t)) <= (threads - 1) * (t - 1)
    BY <1>1 DEF LateUpTo
  <2> DEFINE b == (threads - 1) * (t - 1)
  <2>2. b \in Int
    BY <1>2
  <2>3. Cardinality(Late) + Cardinality(Behind(t)) <= b
    BY <2>1
  <2> HIDE DEF b
  <2>4. Cardinality(Late)' + Cardinality(Behind(t)') <= b
    BY <1>3, <1>4, <1>5, <2>2, <2>3
  <2> QED
    BY <1>1, <2>4 DEF LateUpTo, b
<1> QED
  BY <1>2, <1>6 DEF LateInv

\* One more registration has room for one message per thread but one.
LEMMA RoomForOneMore ==
  ASSUME NEW n \in Nat, n >= 1, NEW t \in Nat, NEW u \in Nat, t < u
  PROVE  (n - 1) * (t - 1) + (n - 1) <= (n - 1) * (u - 1)
<1> DEFINE m == n - 1
           d == u - 1 - t
<1>1. m \in Nat /\ d \in Nat /\ u - 1 = (t - 1) + 1 + d
  OBVIOUS
<1> HIDE DEF m, d
<1>2. m * (u - 1) = m * (t - 1) + m + m * d
  BY <1>1
<1>3. m * d >= 0
  BY <1>1
<1>4. m * (t - 1) \in Int /\ m * d \in Int
  BY <1>1
<1> QED
  BY <1>1, <1>2, <1>3, <1>4 DEF m

LEMMA LateForward ==
  ASSUME TypeInv, TypeOK', NEW k \in Threads, Forward(k), since # None, LateInv
  PROVE  LateInv'
<1>1. PICK t \in 1 .. sub : LateUpTo(t)
  BY DEF LateInv
<1> PICK x : x = local[k]
  OBVIOUS
<1> DEFINE a == Cardinality(Late)
           a2 == Cardinality(Late)'
           b == Cardinality(Behind(t))
           b2 == Cardinality(Behind(t)')
           q == (threads - 1) * (t - 1)
<1>2. /\ TypeOK /\ t \in Nat /\ t >= 1 /\ t \in Int /\ threads \in Nat /\ threads >= 1
      /\ threads' = threads /\ sub' = sub
      /\ q \in Int /\ a + b <= q
  BY <1>1, ThreadsCounted DEF TypeInv, TypeOK, Forward, topicVars, LateUpTo
<1>3. /\ x \in Locals /\ x.sub \in 1 .. sub /\ x.sub \in Nat
      /\ pc[k] # "idle" /\ k \in Busy
  BY DEF TypeInv, TypeOK, CallbackInv, Forward, Busy
<1>4. /\ forwarded' = Append(forwarded, x)
      /\ pc' = [pc EXCEPT ![k] = "idle"] /\ local' = [local EXCEPT ![k] = NoLocals]
  BY DEF Forward
<1>5. a \in Nat /\ a2 \in Nat /\ b \in Nat /\ b2 \in Nat
  BY <1>2, SetsCounted, SetsCountedNext DEF BothCounted
<1>6. \A r \in Int : Behind(r)' = Behind(r) \ {k}
  BY <1>2, <1>4 DEF Behind, TypeOK
<1>7. \A i \in DOMAIN forwarded' :
        \/ i \in DOMAIN forwarded /\ forwarded'[i] = forwarded[i]
        \/ forwarded'[i] = x
  <2>1. forwarded \in Seq(Locals)
    BY <1>2 DEF TypeOK
  <2> QED
    BY <1>3, <1>4, <2>1, AppendProperties
<1>8. \A i \in DOMAIN forwarded : forwarded[i].sub <= t
  BY <1>1 DEF LateUpTo
<1>9. CASE x.sub < t
  <2>1. k \in Behind(t) /\ Behind(t)' = Behind(t) \ {k}
    BY <1>2, <1>3, <1>6, <1>9 DEF Behind
  <2>2. b2 = b - 1
    BY <1>2, <2>1, SetsCounted, FS_RemoveElement DEF BothCounted
  <2>3. a2 <= a + 1
    <3> DEFINE B == Late
               C == B \cup {Len(forwarded) + 1}
    <3>1. IsFiniteSet(B) /\ Cardinality(B) \in Nat
      BY <1>2, SetsCounted DEF BothCounted
    <3>2. IsFiniteSet(C) /\ Cardinality(C) \in {Cardinality(B), Cardinality(B) + 1}
      <4> HIDE DEF B
      <4> QED
        BY <3>1, FS_AddElement
    <3>3. Late' \subseteq C
      BY <1>2, <1>3, <1>4, LateAppended
    <3>4. a2 <= Cardinality(C)
      BY <3>2, <3>3, FS_Subset
    <3> HIDE DEF C
    <3> QED
      BY <1>5, <3>1, <3>2, <3>4
  <2> HIDE DEF q
  <2>4. a2 + b2 <= q
    <3> HIDE DEF a, a2, b, b2
    <3> QED
      BY <1>2, <1>5, <2>2, <2>3
  <2>5. \A i \in DOMAIN forwarded' : forwarded'[i].sub <= t
    BY <1>2, <1>3, <1>7, <1>8, <1>9
  <2>6. LateUpTo(t)'
    BY <1>2, <2>4, <2>5 DEF LateUpTo, q
  <2> QED
    BY <1>2, <2>6 DEF LateInv
<1>10. CASE ~(x.sub < t)
  <2>1. \A i \in DOMAIN forwarded : forwarded[i].sub <= x.sub
    <3>1. \A i \in DOMAIN forwarded : forwarded[i].sub \in Int
      BY <1>2, SetsCounted DEF BothCounted
    <3> QED
      BY <1>2, <1>3, <1>8, <1>10, <3>1
  <2>2. Late' = Late
    BY <1>2, <1>3, <1>4, <2>1, LateAppended
  <2>3. \A i \in DOMAIN forwarded' : forwarded'[i].sub <= x.sub
    BY <1>3, <1>7, <2>1
  <2> DEFINE c == Cardinality(Behind(x.sub)')
             r == (threads - 1) * (x.sub - 1)
  <2>4. c \in Nat
    BY <1>2, <1>3, SetsCountedNext DEF BothCounted
  <2>5. a + c <= r
    <3>1. CASE x.sub = t
      <4>1. Behind(t)' \subseteq Behind(t)
        BY <1>2, <1>6
      <4>2. b2 <= b
        BY <1>2, <4>1, SetsCounted, FS_Subset DEF BothCounted
      <4>3. c = b2 /\ r = q
        BY <3>1
      <4> HIDE DEF a, b, b2, c, r, q
      <4> QED
        BY <1>2, <1>5, <2>4, <4>2, <4>3
    <3>2. CASE t < x.sub
      <4>1. Behind(x.sub)' = Behind(x.sub) \ {k}
        BY <1>3, <1>6
      <4>7. Behind(x.sub)' \subseteq Busy \ {k}
        BY <4>1 DEF Behind, Busy
      <4>2. /\ IsFiniteSet(Busy \ {k})
            /\ Cardinality(Busy \ {k}) = Cardinality(Busy) - 1
        BY <1>3, BusyFinite, FS_RemoveElement
      <4>3. c <= Cardinality(Busy) - 1
        BY <4>7, <4>2, FS_Subset
      <4>4. Cardinality(Busy) <= threads /\ Cardinality(Busy) \in Nat
        BY BusyFinite DEF TypeInv
      <4>5. q + (threads - 1) <= r
        BY <1>2, <1>3, <3>2, RoomForOneMore
      <4>6. r \in Int
        BY <1>2, <1>3
      <4> HIDE DEF a, b, c, r, q
      <4> QED
        BY <1>2, <1>5, <2>4, <4>3, <4>4, <4>5, <4>6
    <3>3. x.sub = t \/ t < x.sub
      BY <1>2, <1>3, <1>10
    <3> QED
      BY <3>1, <3>2, <3>3, Zenon
  <2>6. a2 = a
    BY <2>2
  <2>7. x.sub \in 1 .. sub'
    BY <1>2, <1>3
  <2> DEFINE u == x.sub
  <2>8. \A i \in DOMAIN forwarded' : forwarded'[i].sub <= u
    BY <2>3
  <2>9. a2 + Cardinality(Behind(u)') <= (threads' - 1) * (u - 1)
    BY <1>2, <2>5, <2>6
  <2> QED
    BY <2>7, <2>8, <2>9 DEF LateInv, LateUpTo
<1> QED
  BY <1>9, <1>10

LEMMA LateStep == TypeInv /\ TypeInv' /\ LateInv /\ [Next]_vars => LateInv'
<1> SUFFICES ASSUME TypeInv, TypeInv', LateInv, [Next]_vars PROVE LateInv'
  OBVIOUS
<1>1. /\ TypeOK /\ TypeOK' /\ sub \in Nat /\ threads' = threads
  BY TopicStays DEF TypeInv, TypeOK
<1>2. CASE Tick \/ Connect \/ Unregister \/ Subscribe \/ UNCHANGED vars
  <2>1. /\ forwarded' = forwarded /\ pc' = pc /\ local' = local /\ sub' >= sub
    BY <1>1, <1>2 DEF Tick, Connect, Unregister, Subscribe, vars
  <2>2. \A t \in 1 .. sub : Behind(t)' \subseteq Behind(t)
    BY <2>1 DEF Behind
  <2> QED
    BY <1>1, <2>1, <2>2, LateStays
<1>3. ASSUME NEW k \in Threads, Deliver(k)
      PROVE  LateInv'
  <2>1. /\ forwarded' = forwarded /\ sub' >= sub
    BY <1>1, <1>3 DEF Deliver
  <2>2. \A t \in 1 .. sub : Behind(t)' \subseteq Behind(t)
    BY <1>1, <1>3 DEF Behind, Deliver, TypeOK
  <2> QED
    BY <1>1, <2>1, <2>2, LateStays
<1>4. ASSUME NEW k \in Threads, Drop(k) \/ Pass(k) \/ Stamp(k) \/ (Forward(k) /\ since = None)
      PROVE  LateInv'
  <2>1. /\ forwarded' = forwarded /\ sub' >= sub
    BY <1>1, <1>4 DEF Drop, Pass, Stamp, Forward
  <2>2. \A t \in 1 .. sub : Behind(t)' \subseteq Behind(t)
    BY <1>1, <1>4 DEF Behind, Drop, Pass, Stamp, Forward, TypeOK
  <2> QED
    BY <1>1, <2>1, <2>2, LateStays
<1>5. ASSUME NEW k \in Threads, Forward(k), since # None
      PROVE  LateInv'
  BY <1>1, <1>5, LateForward
<1> QED
  BY <1>2, <1>3, <1>4, <1>5 DEF Next

\* Whatever the number of threads and of registrations, what an old RosSubscriber
\* forwards after its successor has begun is at most one message per other thread.
THEOREM OldCallbacksRunOut == Spec => []LateBounded
<1>1. Init => LateInv
  <2> SUFFICES ASSUME Init PROVE LateInv
    OBVIOUS
  <2>1. Late = {} /\ Behind(1) = {} /\ DOMAIN forwarded = {} /\ sub = 1
    BY DEF Init, Late, Behind
  <2>2. threads \in Nat
    BY TypeInit, ThreadsCounted DEF TypeInv
  <2>3. Cardinality(Late) + Cardinality(Behind(1)) <= (threads - 1) * (1 - 1)
    BY <2>1, <2>2, FS_EmptySet
  <2> QED
    BY <2>1, <2>3 DEF LateInv, LateUpTo
<1>2. TypeInv /\ LateInv => LateBounded
  <2> SUFFICES ASSUME TypeInv, LateInv PROVE LateBounded
    OBVIOUS
  <2>1. PICK t \in 1 .. sub : LateUpTo(t)
    BY DEF LateInv
  <2>2. threads \in Nat /\ threads >= 1 /\ t \in Nat /\ sub \in Nat /\ TypeOK /\ t \in Int
    BY ThreadsCounted DEF TypeInv, TypeOK
  <2>3. Cardinality(Late) \in Nat /\ Cardinality(Behind(t)) \in Nat
    BY <2>2, SetsCounted DEF BothCounted
  <2> DEFINE q == (threads - 1) * (t - 1)
             r == (threads - 1) * (sub - 1)
  <2>4. q \in Int /\ r \in Int
    BY <2>2
  <2>5. q <= r
    <3>1. CASE t = sub
      BY <2>4, <3>1
    <3>2. CASE t < sub
      <4>1. q + (threads - 1) <= r
        BY <2>2, <3>2, RoomForOneMore
      <4> HIDE DEF q, r
      <4> QED
        BY <2>2, <2>4, <4>1
    <3> QED
      BY <2>1, <2>2, <3>1, <3>2
  <2>6. Cardinality(Late) + Cardinality(Behind(t)) <= q
    BY <2>1 DEF LateUpTo
  <2> HIDE DEF q, r
  <2>7. Cardinality(Late) <= r
    BY <2>3, <2>4, <2>5, <2>6
  <2> QED
    BY <2>7 DEF LateBounded, r
<1> QED
  BY <1>1, <1>2, TypeInit, TypeStep, LateStep, PTL DEF Spec

-----------------------------------------------------------------------------
(* What is dropped.                                                        *)

\* With one thread a callback is alone.
LEMMA OneIsAlone ==
  ASSUME TypeInv, threads = 1, NEW j \in Busy, NEW k \in Busy
  PROVE  j = k
<1>1. {j, k} \in SUBSET Busy
  OBVIOUS
<1>2. Cardinality({j, k}) <= Cardinality(Busy) /\ IsFiniteSet({j, k})
  BY <1>1, BusyFinite, FS_Subset
<1>3. Cardinality(Busy) <= 1
  BY DEF TypeInv
<1>4. j # k => Cardinality({j, k}) = 2
  <2> SUFFICES ASSUME j # k PROVE Cardinality({j, k}) = 2
    OBVIOUS
  <2>1. {j, k} = {j} \cup {k} /\ k \notin {j} /\ IsFiniteSet({j}) /\ Cardinality({j}) = 1
    BY FS_Singleton
  <2>2. Cardinality({j} \cup {k}) = Cardinality({j}) + 1
    BY <2>1, FS_AddElement
  <2> QED
    BY <2>1, <2>2
<1> QED
  BY <1>2, <1>3, <1>4, BusyFinite

\* What has been forwarded stays where it is.
LEMMA ForwardedStays ==
  ASSUME TypeOK, [Next]_vars, NEW i \in DOMAIN forwarded
  PROVE  i \in DOMAIN forwarded' /\ forwarded'[i] = forwarded[i]
<1>1. CASE forwarded' = forwarded
  BY <1>1
<1>2. ASSUME NEW k \in Threads, Forward(k), forwarded' # forwarded
      PROVE  i \in DOMAIN forwarded' /\ forwarded'[i] = forwarded[i]
  BY <1>2 DEF Forward, TypeOK
<1> QED
  BY <1>1, <1>2 DEF Next, vars, Tick, Connect, Unregister, Subscribe, Deliver, Drop,
                    Pass, Stamp, Forward

LEMMA SentOrLostStep ==
  ASSUME TypeInv, [Next]_vars, \A s \in 1 .. sub : SentOrLost(s), NEW r \in 1 .. sub'
  PROVE  SentOrLost(r)'
<1>0. TypeOK /\ PastInv
  BY DEF TypeInv
<1>1. CASE Tick \/ Unregister \/ UNCHANGED vars
  BY <1>1 DEF Tick, Unregister, vars, SentOrLost
<1>2. CASE Connect
  BY <1>0, <1>2 DEF Connect, SentOrLost, PastInv, TypeOK, Times, Start
<1>3. CASE Subscribe
  <2>1. /\ sub \in Nat /\ sub' = sub + 1 /\ last_sent_time' = Append(last_sent_time, 0)
        /\ last_sent_time \in [1 .. sub -> Times \cup {0}]
    BY <1>0, <1>3 DEF Subscribe, TypeOK
  <2>2. IF r \in 1 .. sub THEN last_sent_time'[r] = last_sent_time[r]
                          ELSE last_sent_time'[r] = 0
    BY <2>1, Appended
  <2> QED
    BY <1>3, <2>2 DEF Subscribe, SentOrLost
<1>4. ASSUME NEW k \in Threads, Deliver(k) \/ Drop(k) \/ Pass(k)
      PROVE  SentOrLost(r)'
  BY <1>0, <1>4 DEF Deliver, Drop, Pass, SentOrLost, TypeOK
<1>5. ASSUME NEW k \in Threads, Stamp(k)
      PROVE  SentOrLost(r)'
  <2>1. CASE r = local[k].sub
    BY <1>0, <1>5, <2>1 DEF Stamp, SentOrLost, TypeOK
  <2>2. CASE r # local[k].sub
    BY <1>0, <1>5, <2>2 DEF Stamp, SentOrLost, TypeOK
  <2> QED
    BY <2>1, <2>2
<1>6. ASSUME NEW k \in Threads, Forward(k)
      PROVE  SentOrLost(r)'
  <2>1. since' = since /\ last_sent_time' = last_sent_time /\ sub' = sub
    BY <1>6 DEF Forward
  <2>2. CASE since = None
    BY <2>1, <2>2 DEF SentOrLost
  <2>3. CASE since # None /\ local[k].sub = r /\ local[k].now = last_sent_time[r]
    <3>1. forwarded' = Append(forwarded, local[k]) /\ forwarded \in Seq(Locals)
      BY <1>0, <1>6, <2>3 DEF Forward, TypeOK
    <3>2. Len(forwarded) + 1 \in DOMAIN forwarded' /\ forwarded'[Len(forwarded) + 1] = local[k]
      BY <3>1
    <3> QED
      BY <2>1, <2>3, <3>2 DEF SentOrLost
  <2>4. CASE ~(local[k].sub = r /\ local[k].now = last_sent_time[r])
    BY <1>0, <1>6, <2>1, <2>4, ForwardedStays DEF Forward, SentOrLost, TypeOK
  <2> QED
    BY <2>2, <2>3, <2>4
<1> QED
  BY <1>1, <1>2, <1>3, <1>4, <1>5, <1>6 DEF Next

LEMMA DropStep == TypeInv /\ DropInv /\ [Next]_vars => DropInv'
<1> SUFFICES ASSUME TypeInv, DropInv, [Next]_vars, threads' = 1 PROVE
                    DropsAreDue' /\ \A s \in 1 .. sub' : SentOrLost(s)'
  BY DEF DropInv
<1>0. /\ TypeOK /\ CallbackInv /\ threads = 1 /\ Interval' = Interval
      /\ DropsAreDue /\ \A s \in 1 .. sub : SentOrLost(s)
  BY TopicStays DEF TypeInv, DropInv
<1>1. ASSUME NEW d \in dropped, d.since # None
      PROVE  \/ d.now < d.since + Interval'
             \/ \E i \in DOMAIN forwarded' :
                  forwarded'[i].sub = d.sub /\ d.now - forwarded'[i].now < Interval'
  BY <1>0, <1>1, ForwardedStays DEF DropsAreDue
<1>2. CASE dropped' = dropped
  BY <1>0, <1>1, <1>2, SentOrLostStep DEF DropsAreDue
<1>3. ASSUME NEW k \in Threads, Drop(k)
      PROVE  DropsAreDue'
  <2> DEFINE d == [msg |-> local[k].msg, now |-> local[k].now, sub |-> local[k].sub,
                   since |-> since]
             s == local[k].sub
  <2>1. /\ dropped' = dropped \cup {d} /\ pc[k] = "test" /\ forwarded' = forwarded
        /\ local[k].now - last_sent_time[s] < Interval
    BY <1>3 DEF Drop, TooSoon
  <2>2. s \in 1 .. sub /\ local[k].now \in Start .. clock
    BY <1>0, <2>1 DEF CallbackInv
  <2>3. /\ local[k].now \in Int /\ local[k].now >= 100 /\ Interval \in 0 .. 60
        /\ last_sent_time[s] \in Int
    BY <1>0, <2>2, IntervalType DEF TypeOK, Times, Start
  <2>4. last_sent_time[s] # 0
    BY <2>1, <2>3
  <2>5. \A j \in Threads : pc[j] # "forward"
    BY <1>0, <2>1, OneIsAlone DEF Busy
  <2>6. \/ \E i \in DOMAIN forwarded :
             forwarded[i].sub = s /\ forwarded[i].now = last_sent_time[s]
        \/ since = None
        \/ since >= last_sent_time[s]
    BY <1>0, <2>2, <2>4, <2>5 DEF SentOrLost
  <2>7. since # None => since \in Int
    BY <1>0 DEF TypeOK, Times, Start
  <2>8. since # None =>
           \/ local[k].now < since + Interval
           \/ \E i \in DOMAIN forwarded :
                forwarded[i].sub = s /\ local[k].now - forwarded[i].now < Interval
    BY <2>1, <2>3, <2>6, <2>7
  <2>9. d.since = since /\ d.now = local[k].now /\ d.sub = s
    OBVIOUS
  <2> HIDE DEF d, s
  <2> QED
    BY <1>0, <1>1, <2>1, <2>8, <2>9 DEF DropsAreDue
<1>4. dropped' = dropped \/ \E k \in Threads : Drop(k)
  BY DEF Next, vars, Tick, Connect, Unregister, Subscribe, Deliver, Drop, Pass, Stamp,
         Forward
<1> QED
  BY <1>0, <1>2, <1>3, <1>4, SentOrLostStep

\* With one executor thread nothing is dropped but within an interval of a message
\* that was sent, or of the beginning of the connection.
THEOREM DropsHaveCause == Spec => []DropsAreDue
<1>1. Init => DropInv
  BY DEF Init, DropInv, DropsAreDue, SentOrLost
<1>2. DropInv => DropsAreDue
  BY DEF DropInv, DropsAreDue
<1> QED
  BY <1>1, <1>2, TypeInit, TypeStep, DropStep, PTL DEF Spec

-----------------------------------------------------------------------------
(* How many go through.                                                    *)

LEMMA SumGrows ==
  ASSUME NEW m \in Int, NEW n \in Int, -1 <= m, m <= n
  PROVE  0 <= TwiceSum(m) /\ TwiceSum(m) <= TwiceSum(n)
<1>1. TwiceSum(m) = m * m + m /\ TwiceSum(n) = n * n + n
  BY DEF TwiceSum
<1>2. CASE m = -1
  <2>1. n * n + n >= 0
    OBVIOUS
  <2> QED
    BY <1>1, <1>2, <2>1
<1>3. CASE m >= 0
  <2>1. m * m <= n * n /\ 0 <= m * m
    BY <1>3
  <2> QED
    BY <1>1, <2>1
<1> QED
  BY <1>2, <1>3

LEMMA SumStep ==
  ASSUME NEW n \in Int
  PROVE  TwiceSum(n) \in Int /\ TwiceSum(n) = TwiceSum(n - 1) + 2 * n
BY DEF TwiceSum

\* The rounds, on numbers.
LEMMA RoundSteps ==
  ASSUME NEW n \in Nat, NEW o \in Nat, NEW p \in Nat, NEW c \in Nat, o + p <= n
  PROVE  /\ c = 0 => RoundOpen(n, o, p, c) /\ RoundOver(n, o, c)
         /\ RoundOpen(n, o, p, c) => RoundOver(n, o, c)
         /\ RoundOpen(n, o, p, c) => RoundOpen(n, o, p + 1, c + 1)
         /\ o > 0 /\ RoundOver(n, o, c) => RoundOpen(n, o - 1, p, c)
         /\ RoundOver(n, o, c) => 2 * c <= TwiceSum(n)
<1>1. /\ TwiceSum(n - o - 1) \in Int /\ TwiceSum(n - o) \in Int /\ TwiceSum(n) \in Int
      /\ TwiceSum(n - o) = TwiceSum(n - o - 1) + 2 * (n - o)
  BY SumStep
<1>2. 0 <= TwiceSum(n - o - 1) /\ TwiceSum(n - o - 1) <= TwiceSum(n - o)
  BY SumGrows
<1>3. TwiceSum(n - o) <= TwiceSum(n)
  BY SumGrows
<1>4. TwiceSum(n - (o - 1) - 1) = TwiceSum(n - o)
  <2>1. n - (o - 1) - 1 = n - o
    OBVIOUS
  <2> QED
    BY <2>1
<1> QED
  BY <1>1, <1>2, <1>3, <1>4 DEF RoundOpen, RoundOver

\* Fewer old callbacks and fewer messages leave a round what it is.
LEMMA RoundFewer ==
  ASSUME NEW n \in Nat, NEW o \in Nat, NEW p \in Nat, NEW c \in Nat, o + p <= n,
         NEW o2 \in Nat, NEW c2 \in Nat, o2 <= o, c2 <= c
  PROVE  /\ RoundOpen(n, o, p, c) => RoundOpen(n, o2, p, c2)
         /\ RoundOver(n, o, c) => RoundOver(n, o2, c2)
<1>1. TwiceSum(n - o - 1) <= TwiceSum(n - o2 - 1) /\ TwiceSum(n - o) <= TwiceSum(n - o2)
  BY SumGrows
<1>2. /\ TwiceSum(n - o - 1) \in Int /\ TwiceSum(n - o) \in Int
      /\ TwiceSum(n - o2 - 1) \in Int /\ TwiceSum(n - o2) \in Int
  BY SumStep
<1> QED
  BY <1>1, <1>2 DEF RoundOpen, RoundOver

\* The sets that are counted are finite, and a thread is in one of them at most.
Counted(s, e) ==
  /\ IsFiniteSet(Old(s, e)) /\ Cardinality(Old(s, e)) \in Nat
  /\ IsFiniteSet(Passed(s, e)) /\ Cardinality(Passed(s, e)) \in Nat
  /\ IsFiniteSet(Leaving(s, e)) /\ Cardinality(Leaving(s, e)) \in Nat
  /\ IsFiniteSet(Burst(s, e, Interval)) /\ Cardinality(Burst(s, e, Interval)) \in Nat
  /\ Cardinality(Old(s, e)) + Cardinality(Passed(s, e)) <= threads

AllCounted == \A s \in Nat, e \in Int : Counted(s, e)

LEMMA Counts == TypeInv => AllCounted
<1> SUFFICES ASSUME TypeInv, NEW s \in Nat, NEW e \in Int PROVE Counted(s, e)
  BY DEF AllCounted
<1>1. /\ Old(s, e) \in SUBSET Busy /\ Passed(s, e) \in SUBSET Busy
      /\ Leaving(s, e) \in SUBSET Busy
  BY DEF Old, Passed, Leaving, InPlace, Busy
<1>2. /\ IsFiniteSet(Old(s, e)) /\ Cardinality(Old(s, e)) \in Nat
      /\ IsFiniteSet(Passed(s, e)) /\ Cardinality(Passed(s, e)) \in Nat
      /\ IsFiniteSet(Leaving(s, e)) /\ Cardinality(Leaving(s, e)) \in Nat
  BY <1>1, BusyFinite, FS_Subset, FS_CardinalityType
<1>3. IsFiniteSet(Burst(s, e, Interval)) /\ Cardinality(Burst(s, e, Interval)) \in Nat
  <2>1. IsFiniteSet(1 .. Len(forwarded)) /\ DOMAIN forwarded = 1 .. Len(forwarded)
    BY FS_Interval DEF TypeInv, TypeOK
  <2>2. Burst(s, e, Interval) \in SUBSET (1 .. Len(forwarded))
    BY <2>1 DEF Burst
  <2> QED
    BY <2>1, <2>2, FS_Subset, FS_CardinalityType
<1>4. Cardinality(Old(s, e)) + Cardinality(Passed(s, e)) <= threads
  <2>1. Old(s, e) \cap Passed(s, e) = {}
    <3>1. \A k \in Threads : local[k].now \in Int
      BY DEF TypeInv, TypeOK, Locals, Times, Start
    <3> QED
      BY <3>1, IntervalType DEF Old, Passed, InPlace, Within
  <2>2. Cardinality(Old(s, e) \cup Passed(s, e)) =
          Cardinality(Old(s, e)) + Cardinality(Passed(s, e))
    <3>1. Cardinality(Old(s, e) \cap Passed(s, e)) = 0
      BY <2>1, FS_EmptySet
    <3>2. Cardinality(Old(s, e) \cup Passed(s, e)) =
            Cardinality(Old(s, e)) + Cardinality(Passed(s, e))
              - Cardinality(Old(s, e) \cap Passed(s, e))
      BY <1>2, FS_Union
    <3> QED
      BY <1>2, <3>1, <3>2
  <2>3. Old(s, e) \cup Passed(s, e) \in SUBSET Busy
    BY <1>1
  <2>4. Cardinality(Old(s, e) \cup Passed(s, e)) <= Cardinality(Busy)
    BY <2>3, BusyFinite, FS_Subset
  <2>5. Cardinality(Busy) <= threads /\ threads \in Nat
    BY ThreadsCounted DEF TypeInv
  <2> QED
    BY <1>2, <2>2, <2>4, <2>5, BusyFinite
<1> QED
  BY <1>2, <1>3, <1>4 DEF Counted

LEMMA CountsNext == TypeInv' => AllCounted'
BY Counts, PTL

-----------------------------------------------------------------------------
(* Bursts. Each lemma is a kind of step, seen from one interval.           *)

\* What the lemmas below share.
StepContext(s, e) ==
  /\ TypeOK /\ CallbackInv /\ PastInv
  /\ name' = name /\ threads' = threads /\ Interval' = Interval
  /\ threads \in Nat /\ Interval \in Nat /\ Interval > 0
  /\ s \in Nat /\ e \in Int
  /\ Counted(s, e) /\ Counted(s, e)'
  /\ \A k \in Threads : local[k].now \in Int
  /\ \A k \in Threads : pc[k] = "idle" => pc[k] \notin {"test", "stamp", "forward"}

\* What is counted, and what it is compared with, stays.
Untouched(s, e) ==
  /\ Old(s, e)' = Old(s, e) /\ Passed(s, e)' = Passed(s, e)
  /\ Leaving(s, e)' = Leaving(s, e)
  /\ Burst(s, e, Interval)' = Burst(s, e, Interval)

LEMMA RoundsKept ==
  ASSUME NEW s \in Nat, NEW e \in Int, StepContext(s, e), Untouched(s, e),
         last_sent_time'[s] = last_sent_time[s], Rounds(s, e)
  PROVE  Rounds(s, e)'
BY DEF StepContext, Untouched, Rounds, Through

\* No message of the interval is on its way or sent.
LEMMA RoundsEmpty ==
  ASSUME NEW s \in Nat, NEW e \in Int, StepContext(s, e),
         Passed(s, e)' = {}, Leaving(s, e)' = {}, Burst(s, e, Interval)' = {}
  PROVE  Rounds(s, e)'
<1>1. Through(s, e)' = 0
  BY FS_EmptySet DEF Through
<1> QED
  BY <1>1, RoundSteps DEF StepContext, Counted, Rounds

\* A callback begins: as an old one if the interval is still to come.
LEMMA DeliverRounds ==
  ASSUME NEW s \in Nat, NEW e \in Int, StepContext(s, e), NEW k \in Threads, Deliver(k),
         Rounds(s, e)
  PROVE  Rounds(s, e)'
<1>1. /\ pc[k] = "idle" /\ pc' = [pc EXCEPT ![k] = "test"]
      /\ local' = [local EXCEPT ![k] = [msg |-> delivered', now |-> clock, sub |-> sub]]
      /\ forwarded' = forwarded /\ last_sent_time' = last_sent_time
  BY DEF Deliver, StepContext
<1>2. Passed(s, e)' = Passed(s, e) /\ Leaving(s, e)' = Leaving(s, e)
  BY <1>1 DEF StepContext, TypeOK, Passed, Leaving, InPlace, Within
<1>3. Burst(s, e, Interval)' = Burst(s, e, Interval)
  BY <1>1 DEF StepContext, Burst
<1>4. CASE clock > e - Interval
  <2>1. Old(s, e)' = Old(s, e)
    BY <1>1, <1>4 DEF StepContext, TypeOK, Old, Times, Start
  <2> QED
    BY <1>1, <1>2, <1>3, <2>1, RoundsKept DEF Untouched
<1>5. CASE ~(clock > e - Interval)
  <2>1. clock \in Int /\ clock <= e - Interval
    BY <1>5 DEF StepContext, TypeOK, Times, Start
  <2>2. Passed(s, e) = {} /\ Leaving(s, e) = {}
    BY <2>1 DEF StepContext, CallbackInv, Passed, Leaving, InPlace, Within
  <2>3. Burst(s, e, Interval) = {}
    BY <2>1 DEF StepContext, PastInv, Burst
  <2> QED
    BY <1>2, <1>3, <2>2, <2>3, RoundsEmpty
<1> QED
  BY <1>4, <1>5

\* A callback ends without having sent: there may be one old one less.
LEMMA DropRounds ==
  ASSUME NEW s \in Nat, NEW e \in Int, StepContext(s, e), NEW k \in Threads, Drop(k),
         Rounds(s, e)
  PROVE  Rounds(s, e)'
<1>1. /\ pc[k] = "test" /\ pc' = [pc EXCEPT ![k] = "idle"]
      /\ local' = [local EXCEPT ![k] = NoLocals]
      /\ forwarded' = forwarded /\ last_sent_time' = last_sent_time
  BY DEF Drop
<1>2. Passed(s, e)' = Passed(s, e) /\ Leaving(s, e)' = Leaving(s, e)
  BY <1>1 DEF StepContext, TypeOK, Passed, Leaving, InPlace, Within
<1>3. Burst(s, e, Interval)' = Burst(s, e, Interval)
  BY <1>1 DEF StepContext, Burst
<1>4. Old(s, e)' \in SUBSET Old(s, e)
  BY <1>1 DEF StepContext, TypeOK, Old
<1>5. Cardinality(Old(s, e)') <= Cardinality(Old(s, e))
  BY <1>4, FS_Subset DEF StepContext, Counted
<1>6. Through(s, e)' = Through(s, e) /\ Through(s, e) \in Nat
  BY <1>2, <1>3 DEF Through, StepContext, Counted
<1> DEFINE o  == Cardinality(Old(s, e))
           o2 == Cardinality(Old(s, e)')
           p  == Cardinality(Passed(s, e))
           n  == Through(s, e)
<1>7. /\ threads \in Nat /\ o \in Nat /\ o2 \in Nat /\ p \in Nat /\ n \in Nat
      /\ o + p <= threads /\ o2 <= o
  BY <1>5, <1>6 DEF StepContext, Counted
<1>8. /\ RoundOpen(threads, o, p, n) => RoundOpen(threads, o2, p, n)
      /\ RoundOver(threads, o, n) => RoundOver(threads, o2, n)
  <2> HIDE DEF o, o2, p, n
  <2> QED
    BY <1>7, RoundFewer
<1>9. threads' = threads /\ Interval' = Interval
  BY DEF StepContext
<1> QED
  BY <1>1, <1>2, <1>6, <1>8, <1>9 DEF Rounds

\* A message passes: of those in the interval, only while a round is open.
LEMMA PassRounds ==
  ASSUME NEW s \in Nat, NEW e \in Int, StepContext(s, e), NEW k \in Threads, Pass(k),
         Rounds(s, e)
  PROVE  Rounds(s, e)'
<1>1. /\ pc[k] = "test" /\ pc' = [pc EXCEPT ![k] = "stamp"]
      /\ local' = local /\ forwarded' = forwarded /\ last_sent_time' = last_sent_time
      /\ ~(local[k].now - last_sent_time[local[k].sub] < Interval)
  BY DEF Pass, TooSoon
<1>2. Old(s, e)' = Old(s, e) /\ Leaving(s, e)' = Leaving(s, e)
  BY <1>1 DEF StepContext, TypeOK, Old, Leaving, InPlace, Within
<1>3. Burst(s, e, Interval)' = Burst(s, e, Interval)
  BY <1>1 DEF StepContext, Burst
<1>4. CASE local[k].sub = s /\ Within(local[k].now, e)
  <2>1. Passed(s, e)' = Passed(s, e) \cup {k} /\ k \notin Passed(s, e)
    BY <1>1, <1>4 DEF StepContext, TypeOK, Passed, InPlace, Within
  <2>2. Cardinality(Passed(s, e)') = Cardinality(Passed(s, e)) + 1
    BY <2>1, FS_AddElement DEF StepContext, Counted
  <2>3. last_sent_time[s] \in Int
    BY <1>1, <1>4 DEF StepContext, TypeOK, CallbackInv, Times, Start
  <2>4. last_sent_time[s] <= e - Interval
    BY <1>1, <1>4, <2>3 DEF StepContext, Within
  <2>5. Through(s, e)' = Through(s, e) + 1 /\ Through(s, e) \in Nat
    BY <1>2, <1>3, <2>2 DEF Through, StepContext, Counted
  <2> QED
    BY <1>1, <1>2, <2>2, <2>4, <2>5, RoundSteps DEF StepContext, Counted, Rounds
<1>5. CASE ~(local[k].sub = s /\ Within(local[k].now, e))
  <2>1. Passed(s, e)' = Passed(s, e)
    BY <1>1, <1>5 DEF StepContext, TypeOK, Passed, InPlace, Within
  <2> QED
    BY <1>1, <1>2, <1>3, <2>1, RoundsKept DEF Untouched
<1> QED
  BY <1>4, <1>5

\* A thread stamps: an old one opens another round, with one thread more; one of the
\* interval closes the round; a younger one does too.
LEMMA StampRounds ==
  ASSUME NEW s \in 1 .. sub, NEW e \in Int, StepContext(s, e), NEW k \in Threads, Stamp(k),
         Rounds(s, e)
  PROVE  Rounds(s, e)'
<1>1. /\ pc[k] = "stamp" /\ pc' = [pc EXCEPT ![k] = "forward"]
      /\ local' = local /\ forwarded' = forwarded
      /\ last_sent_time' = [last_sent_time EXCEPT ![local[k].sub] = local[k].now]
  BY DEF Stamp
<1>2. Burst(s, e, Interval)' = Burst(s, e, Interval)
  BY <1>1 DEF StepContext, Burst
<1>3. /\ local[k].now \in Int /\ local[k].sub \in 1 .. sub /\ last_sent_time[s] \in Int
      /\ local[k].sub = s => last_sent_time'[s] = local[k].now
      /\ local[k].sub # s => last_sent_time'[s] = last_sent_time[s]
  BY <1>1 DEF StepContext, TypeOK, CallbackInv, Times, Start
<1>4. Rounds(s, e) => RoundOver(threads, Cardinality(Old(s, e)), Through(s, e))
  <2>1. Through(s, e) \in Nat
    BY DEF Through, StepContext, Counted
  <2> QED
    BY <2>1, RoundSteps DEF StepContext, Counted, Rounds
<1>5. CASE local[k].sub # s
  <2>1. Untouched(s, e)
    BY <1>1, <1>2, <1>5 DEF StepContext, TypeOK, Untouched, Old, Passed, Leaving, InPlace,
                            Within
  <2> QED
    BY <1>3, <1>5, <2>1, RoundsKept
<1>6. CASE local[k].sub = s /\ local[k].now <= e - Interval
  <2>1. /\ Old(s, e)' = Old(s, e) \ {k} /\ k \in Old(s, e)
        /\ Passed(s, e)' = Passed(s, e) /\ Leaving(s, e)' = Leaving(s, e)
    BY <1>1, <1>6 DEF StepContext, TypeOK, Old, Passed, Leaving, InPlace, Within
  <2>2. Cardinality(Old(s, e)') = Cardinality(Old(s, e)) - 1 /\ Cardinality(Old(s, e)) > 0
    BY <2>1, FS_RemoveElement DEF StepContext, Counted
  <2>3. Through(s, e)' = Through(s, e) /\ Through(s, e) \in Nat
    BY <1>2, <2>1 DEF Through, StepContext, Counted
  <2>4. RoundOpen(threads, Cardinality(Old(s, e)) - 1, Cardinality(Passed(s, e)),
                  Through(s, e))
    BY <1>4, <2>2, <2>3, RoundSteps DEF StepContext, Counted
  <2>5. last_sent_time'[s] <= e - Interval'
    BY <1>3, <1>6 DEF StepContext
  <2> QED
    BY <2>1, <2>2, <2>3, <2>4, <2>5 DEF StepContext, Rounds
<1>7. CASE local[k].sub = s /\ Within(local[k].now, e)
  <2>1. /\ Old(s, e)' = Old(s, e)
        /\ Passed(s, e)' = Passed(s, e) \ {k} /\ k \in Passed(s, e)
        /\ Leaving(s, e)' = Leaving(s, e) \cup {k} /\ k \notin Leaving(s, e)
    BY <1>1, <1>7 DEF StepContext, TypeOK, Old, Passed, Leaving, InPlace, Within
  <2>2. /\ Cardinality(Passed(s, e)') = Cardinality(Passed(s, e)) - 1
        /\ Cardinality(Leaving(s, e)') = Cardinality(Leaving(s, e)) + 1
    BY <2>1, FS_RemoveElement, FS_AddElement DEF StepContext, Counted
  <2>3. Through(s, e)' = Through(s, e)
    BY <1>2, <2>2 DEF Through, StepContext, Counted
  <2>4. ~(last_sent_time'[s] <= e - Interval')
    BY <1>3, <1>7 DEF StepContext, Within
  <2>5. RoundOver(threads, Cardinality(Old(s, e)), Through(s, e))
    BY <1>4
  <2>6. RoundOver(threads, Cardinality(Old(s, e)'), Through(s, e)')
    BY <2>1, <2>3, <2>5
  <2> QED
    BY <2>4, <2>6 DEF StepContext, Rounds
<1>8. CASE local[k].sub = s /\ local[k].now > e
  <2>1. /\ Old(s, e)' = Old(s, e) /\ Passed(s, e)' = Passed(s, e)
        /\ Leaving(s, e)' = Leaving(s, e)
    BY <1>1, <1>3, <1>8 DEF StepContext, TypeOK, Old, Passed, Leaving, InPlace, Within
  <2>2. Through(s, e)' = Through(s, e)
    BY <1>2, <2>1 DEF Through
  <2>3. ~(last_sent_time'[s] <= e - Interval')
    BY <1>3, <1>8 DEF StepContext
  <2> QED
    BY <1>4, <2>1, <2>2, <2>3 DEF StepContext, Rounds
<1> QED
  BY <1>3, <1>5, <1>6, <1>7, <1>8 DEF StepContext, Within

\* What a thread sends was counted when it passed.
LEMMA ForwardRounds ==
  ASSUME NEW s \in Nat, NEW e \in Int, StepContext(s, e), NEW k \in Threads, Forward(k),
         Rounds(s, e)
  PROVE  Rounds(s, e)'
<1>1. /\ pc[k] = "forward" /\ pc' = [pc EXCEPT ![k] = "idle"]
      /\ local' = [local EXCEPT ![k] = NoLocals]
      /\ forwarded' = IF since = None THEN forwarded ELSE Append(forwarded, local[k])
      /\ last_sent_time' = last_sent_time
  BY DEF Forward
<1>2. Old(s, e)' = Old(s, e) /\ Passed(s, e)' = Passed(s, e)
  BY <1>1 DEF StepContext, TypeOK, Old, Passed, InPlace, Within
<1>3. CASE local[k].sub = s /\ Within(local[k].now, e)
  <2>1. Leaving(s, e)' = Leaving(s, e) \ {k} /\ k \in Leaving(s, e)
    BY <1>1, <1>3 DEF StepContext, TypeOK, Leaving, InPlace, Within
  <2>2. Cardinality(Leaving(s, e)') = Cardinality(Leaving(s, e)) - 1
    BY <2>1, FS_RemoveElement DEF StepContext, Counted
  <2>3. Burst(s, e, Interval)' \subseteq Burst(s, e, Interval) \cup {Len(forwarded) + 1}
    BY <1>1 DEF StepContext, TypeOK, Burst
  <2>4. Cardinality(Burst(s, e, Interval)') <= Cardinality(Burst(s, e, Interval)) + 1
    <3> DEFINE B == Burst(s, e, Interval)
               C == B \cup {Len(forwarded) + 1}
    <3>1. IsFiniteSet(B) /\ Cardinality(B) \in Nat
      BY DEF StepContext, Counted
    <3>2. IsFiniteSet(C) /\ Cardinality(C) \in {Cardinality(B), Cardinality(B) + 1}
      <4> HIDE DEF B
      <4> QED
        BY <3>1, FS_AddElement
    <3>3. Cardinality(Burst(s, e, Interval)') <= Cardinality(C)
      BY <2>3, <3>2, FS_Subset
    <3>4. Cardinality(Burst(s, e, Interval)') \in Nat
      BY DEF StepContext, Counted
    <3> HIDE DEF C
    <3> QED
      BY <3>1, <3>2, <3>3, <3>4
  <2>5. /\ Through(s, e)' <= Through(s, e)
        /\ Through(s, e)' \in Nat /\ Through(s, e) \in Nat
    BY <1>2, <2>2, <2>4 DEF Through, StepContext, Counted
  <2> DEFINE o == Cardinality(Old(s, e))
             p == Cardinality(Passed(s, e))
             c == Through(s, e)
             c2 == Through(s, e)'
  <2>6. /\ o \in Nat /\ p \in Nat /\ o + p <= threads /\ threads \in Nat
        /\ Cardinality(Old(s, e)') = o /\ Cardinality(Passed(s, e)') = p
    BY <1>2 DEF StepContext, Counted
  <2>7. c \in Nat /\ c2 \in Nat /\ c2 <= c
    BY <2>5
  <2>8. /\ RoundOpen(threads, o, p, c) => RoundOpen(threads, o, p, c2)
        /\ RoundOver(threads, o, c) => RoundOver(threads, o, c2)
    <3> HIDE DEF o, p, c, c2
    <3>1. o <= o
      BY <2>6
    <3> QED
      BY <2>6, <2>7, <3>1, RoundFewer
  <2>9. last_sent_time' = last_sent_time /\ threads' = threads /\ Interval' = Interval
    BY <1>1 DEF StepContext
  <2> QED
    BY <2>6, <2>8, <2>9 DEF Rounds
<1>4. CASE ~(local[k].sub = s /\ Within(local[k].now, e))
  <2>1. Leaving(s, e)' = Leaving(s, e)
    BY <1>1, <1>4 DEF StepContext, TypeOK, Leaving, InPlace, Within
  <2>2. Burst(s, e, Interval)' = Burst(s, e, Interval)
    BY <1>1, <1>4 DEF StepContext, TypeOK, Burst, Within
  <2> QED
    BY <1>1, <1>2, <2>1, <2>2, RoundsKept DEF Untouched
<1> QED
  BY <1>3, <1>4

LEMMA BurstStep == TypeInv /\ TypeInv' /\ BurstInv /\ [Next]_vars => BurstInv'
<1> SUFFICES ASSUME TypeInv, TypeInv', BurstInv, [Next]_vars, Interval' > 0,
                    NEW s \in 1 .. sub', NEW e \in Int
             PROVE  Rounds(s, e)'
  BY DEF BurstInv
<1>0. TypeOK /\ CallbackInv /\ PastInv /\ sub \in Nat /\ sub' \in Nat /\ s \in Nat
  BY DEF TypeInv, TypeOK
<1>1. StepContext(s, e)
  <2>1. Counted(s, e) /\ Counted(s, e)'
    BY <1>0, Counts, CountsNext DEF AllCounted
  <2>2. \A k \in Threads : local[k].now \in Int
    BY <1>0 DEF TypeOK, Locals, Times, Start
  <2> QED
    BY <1>0, <2>1, <2>2, TopicStays, ThreadsCounted, IntervalType DEF StepContext
<1>2. s \in 1 .. sub => Rounds(s, e)
  BY <1>1 DEF BurstInv, StepContext
<1>3. CASE Tick \/ Connect \/ Unregister \/ UNCHANGED vars
  <2>1. sub' = sub /\ last_sent_time' = last_sent_time /\ Untouched(s, e)
    BY <1>1, <1>3 DEF StepContext, Tick, Connect, Unregister, vars, Untouched, Old, Passed,
                      Leaving, InPlace, Within, Burst
  <2> QED
    BY <1>0, <1>1, <1>2, <2>1, RoundsKept
<1>4. CASE Subscribe
  <2>1. /\ sub' = sub + 1 /\ last_sent_time' = Append(last_sent_time, 0)
        /\ last_sent_time \in [1 .. sub -> Times \cup {0}]
        /\ pc' = pc /\ local' = local /\ forwarded' = forwarded
    BY <1>0, <1>4 DEF Subscribe, TypeOK
  <2>2. Untouched(s, e)
    BY <1>1, <2>1 DEF StepContext, Untouched, Old, Passed, Leaving, InPlace, Within, Burst
  <2>3. CASE s \in 1 .. sub
    <3>1. last_sent_time'[s] = last_sent_time[s]
      BY <1>0, <2>1, <2>3, Appended
    <3> QED
      BY <1>0, <1>1, <1>2, <2>2, <2>3, <3>1, RoundsKept
  <2>4. CASE s = sub + 1
    <3>1. Passed(s, e) = {} /\ Leaving(s, e) = {}
      BY <1>0, <2>4 DEF CallbackInv, Passed, Leaving, InPlace
    <3>2. Burst(s, e, Interval) = {}
      BY <1>0, <2>4 DEF PastInv, Burst
    <3> QED
      BY <1>0, <1>1, <2>2, <3>1, <3>2, RoundsEmpty DEF Untouched
  <2> QED
    BY <1>0, <2>1, <2>3, <2>4
<1>5. ASSUME NEW k \in Threads, Deliver(k) \/ Drop(k) \/ Pass(k) \/ Stamp(k) \/ Forward(k)
      PROVE  Rounds(s, e)'
  <2>1. sub' = sub
    BY <1>5 DEF Deliver, Drop, Pass, Stamp, Forward
  <2> QED
    BY <1>0, <1>1, <1>2, <1>5, <2>1, DeliverRounds, DropRounds, PassRounds, StampRounds,
       ForwardRounds
<1> QED
  BY <1>3, <1>4, <1>5 DEF Next

\* Whatever the number n of threads, and wherever they are held up, one RosSubscriber
\* forwards at most 1 + 2 + ... + n messages of an interval.
THEOREM BurstsAreBounded == Spec => []BurstBounded
<1>1. Init => BurstInv
  <2> SUFFICES ASSUME Init, Interval > 0, NEW s \in 1 .. sub, NEW e \in Int
               PROVE  Rounds(s, e)
    BY DEF BurstInv
  <2>1. /\ Old(s, e) = {} /\ Passed(s, e) = {} /\ Leaving(s, e) = {}
        /\ Burst(s, e, Interval) = {}
    BY DEF Init, Old, Passed, Leaving, InPlace, Burst
  <2>2. threads \in Nat
    BY TypeInit, ThreadsCounted DEF TypeInv
  <2>3. /\ Cardinality(Old(s, e)) = 0 /\ Cardinality(Passed(s, e)) = 0
        /\ Through(s, e) = 0
    BY <2>1, FS_EmptySet DEF Through
  <2> QED
    BY <2>2, <2>3, RoundSteps DEF Rounds
<1>2. TypeInv /\ BurstInv => BurstBounded
  <2> SUFFICES ASSUME TypeInv, BurstInv, Interval > 0, NEW s \in 1 .. sub, NEW e \in Times
               PROVE  2 * Cardinality(Burst(s, e, Interval)) <= threads * (threads + 1)
    BY DEF BurstBounded
  <2>1. s \in Nat /\ e \in Int /\ threads \in Nat
    BY ThreadsCounted DEF TypeInv, TypeOK, Times, Start
  <2>2. Counted(s, e) /\ Rounds(s, e)
    BY <2>1, Counts DEF AllCounted, BurstInv
  <2>3. Through(s, e) \in Nat /\ Cardinality(Burst(s, e, Interval)) <= Through(s, e)
    BY <2>2 DEF Counted, Through
  <2>4. 2 * Through(s, e) <= TwiceSum(threads)
    BY <2>1, <2>2, <2>3, RoundSteps DEF Counted, Rounds
  <2> QED
    BY <2>1, <2>2, <2>3, <2>4 DEF TwiceSum, Counted
<1> QED
  BY <1>1, <1>2, TypeInit, TypeStep, BurstStep, PTL DEF Spec
=============================================================================
