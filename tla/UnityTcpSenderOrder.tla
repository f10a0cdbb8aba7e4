------------------------- MODULE UnityTcpSenderOrder -------------------------
(***************************************************************************)
(* In which order, and how often, UnityTcpSender sends what it is handed,  *)
(* for any sets of connections, threads and topics and any bounds.         *)
(***************************************************************************)
EXTENDS UnityTcpSenderProofs

USE DEF NextId, Enqueue, Halted, ClearedSlots, PutFrame, QueueReleased

-----------------------------------------------------------------------------
(* Sequences of items. cs stands for calls, the callers of the calls.      *)

\* n, from the thread that handed over m on the same topic, must come before m.
Late(cs, m, n) ==
  /\ cs[m.call] = cs[n.call]
  /\ m.topic = n.topic
  /\ m.kind = "frame"
  /\ \/ n.kind = "frame" /\ n.call <= m.call
     \/ n.kind = "topic_map" /\ n.topic \notin StreamTopics

\* m must not be sent before n.
Clash(cs, m, n) == m = n \/ Late(cs, m, n)

Clear(cs, M, N) == \A m \in M, n \in N : ~Clash(cs, m, n)

InOrder(cs, s) ==
  \A i, j \in DOMAIN s :
    i < j /\ s[i].kind # "handshake" => ~Clash(cs, s[i], s[j])

\* The items of a sequence, handshakes apart.
Carried(s) == {m \in {s[i] : i \in DOMAIN s} : m.kind # "handshake"}

LEMMA CarriedEmpty == Carried(<<>>) = {}
  BY DEF Carried

LEMMA InOrderEmpty == \A cs : InOrder(cs, <<>>)
  BY DEF InOrder

LEMMA Concat ==
  ASSUME NEW cs, NEW s \in Seq(Items), NEW t \in Seq(Items)
  PROVE  /\ Carried(s \o t) = Carried(s) \cup Carried(t)
         /\ (/\ InOrder(cs, s)
             /\ InOrder(cs, t)
             /\ Clear(cs, Carried(s), Carried(t))) => InOrder(cs, s \o t)
<1> DEFINE u == s \o t
<1>1. /\ u \in Seq(Items)
      /\ Len(u) = Len(s) + Len(t)
      /\ \A i \in 1 .. Len(s) + Len(t) :
           u[i] = IF i <= Len(s) THEN s[i] ELSE t[i - Len(s)]
  BY ConcatProperties
<1>2. /\ Len(s) \in Nat /\ Len(t) \in Nat
      /\ DOMAIN s = 1 .. Len(s) /\ DOMAIN t = 1 .. Len(t)
      /\ DOMAIN u = 1 .. Len(s) + Len(t)
  BY <1>1, LenProperties
<1> HIDE DEF u
<1>3. \A i \in DOMAIN s : i \in DOMAIN u /\ u[i] = s[i]
  BY <1>1, <1>2
<1>4. \A i \in DOMAIN t : i + Len(s) \in DOMAIN u /\ u[i + Len(s)] = t[i]
  BY <1>1, <1>2
<1>5. \A i \in DOMAIN u :
        \/ i \in DOMAIN s /\ u[i] = s[i]
        \/ i > Len(s) /\ i - Len(s) \in DOMAIN t /\ u[i] = t[i - Len(s)]
  BY <1>1, <1>2
<1>6. {u[i] : i \in DOMAIN u} =
        {s[i] : i \in DOMAIN s} \cup {t[i] : i \in DOMAIN t}
  BY <1>3, <1>4, <1>5
<1>7. Carried(u) = Carried(s) \cup Carried(t)
  BY <1>6 DEF Carried
<1>8. ASSUME InOrder(cs, s), InOrder(cs, t), Clear(cs, Carried(s), Carried(t))
      PROVE  InOrder(cs, u)
  <2> SUFFICES ASSUME NEW i \in DOMAIN u, NEW j \in DOMAIN u, i < j,
                      u[i].kind # "handshake", Clash(cs, u[i], u[j])
               PROVE  FALSE
    BY DEF InOrder
  <2>1. u[j].kind # "handshake"
    BY DEF Clash, Late
  <2>2. CASE j \in DOMAIN s
    BY <1>2, <1>3, <1>8, <2>2 DEF InOrder
  <2>3. CASE i \notin DOMAIN s
    <3>1. /\ i - Len(s) \in DOMAIN t /\ u[i] = t[i - Len(s)]
          /\ j - Len(s) \in DOMAIN t /\ u[j] = t[j - Len(s)]
      BY <1>2, <1>5, <2>3
    <3>2. i - Len(s) < j - Len(s)
      BY <1>2
    <3> QED
      BY <1>8, <3>1, <3>2 DEF InOrder
  <2>4. CASE i \in DOMAIN s /\ j \notin DOMAIN s
    <3>1. u[i] \in Carried(s)
      BY <1>3, <2>4 DEF Carried
    <3>2. u[j] \in Carried(t)
      BY <1>5, <2>1, <2>4 DEF Carried
    <3> QED
      BY <1>8, <3>1, <3>2 DEF Clear
  <2> QED
    BY <2>2, <2>3, <2>4
<1> QED
  BY <1>7, <1>8 DEF u

LEMMA Single ==
  ASSUME NEW cs, NEW m \in Items, m.kind # "handshake"
  PROVE  Carried(<<m>>) = {m} /\ InOrder(cs, <<m>>)
  BY DEF Carried, InOrder

LEMMA Appended ==
  ASSUME NEW cs, NEW s \in Seq(Items), NEW m \in Items, m.kind # "handshake"
  PROVE  /\ Carried(Append(s, m)) = Carried(s) \cup {m}
         /\ InOrder(cs, s) /\ Clear(cs, Carried(s), {m})
              => InOrder(cs, Append(s, m))
<1>1. Append(s, m) = s \o <<m>> /\ <<m>> \in Seq(Items)
  OBVIOUS
<1>2. Carried(<<m>>) = {m} /\ InOrder(cs, <<m>>)
  BY Single
<1>3. /\ Carried(s \o <<m>>) = Carried(s) \cup Carried(<<m>>)
      /\ (/\ InOrder(cs, s)
          /\ InOrder(cs, <<m>>)
          /\ Clear(cs, Carried(s), Carried(<<m>>))) => InOrder(cs, s \o <<m>>)
  BY <1>1, Concat
<1> QED
  BY <1>1, <1>2, <1>3

LEMMA Prefix ==
  ASSUME NEW cs, NEW s \in Seq(Items), NEW n \in 0 .. Len(s)
  PROVE  /\ Carried(SubSeq(s, 1, n)) \subseteq Carried(s)
         /\ InOrder(cs, s) => InOrder(cs, SubSeq(s, 1, n))
<1> DEFINE u == SubSeq(s, 1, n)
<1>1. u \in Seq(Items) /\ Len(s) \in Nat /\ DOMAIN s = 1 .. Len(s)
  BY SeqPrefix, LenProperties
<1>2. \A i \in 1 .. n : s[i] \in Items
  BY <1>1, ElementOfSeq
<1>3. Len(u) = n /\ \A i \in 1 .. n : u[i] = s[i]
  BY <1>1, <1>2, SubSeqProperties
<1>4. DOMAIN u = 1 .. n
  BY <1>1, <1>3, LenProperties
<1> HIDE DEF u
<1>5. \A i \in DOMAIN u : i \in DOMAIN s /\ u[i] = s[i]
  BY <1>1, <1>3, <1>4
<1>6. Carried(u) \subseteq Carried(s)
  BY <1>5 DEF Carried
<1>7. InOrder(cs, s) => InOrder(cs, u)
  BY <1>5 DEF InOrder
<1> QED
  BY <1>6, <1>7 DEF u

LEMMA HeadFirst ==
  ASSUME NEW cs, NEW s \in Seq(Items), s # <<>>, Head(s).kind # "handshake"
  PROVE  /\ Head(s) \in Carried(s)
         /\ Carried(Tail(s)) \subseteq Carried(s)
         /\ InOrder(cs, s) =>
              InOrder(cs, Tail(s)) /\ Clear(cs, {Head(s)}, Carried(Tail(s)))
<1> DEFINE t == Tail(s)
<1>1. /\ t \in Seq(Items) /\ Len(t) = Len(s) - 1
      /\ \A i \in 1 .. Len(t) : t[i] = s[i + 1]
  BY HeadTailProperties
<1>2. /\ Len(s) \in Nat \ {0} /\ DOMAIN s = 1 .. Len(s)
      /\ DOMAIN t = 1 .. Len(t)
  BY <1>1, EmptySeq, LenProperties
<1>3. Head(s) = s[1] /\ 1 \in DOMAIN s
  BY <1>2
<1> HIDE DEF t
<1>4. \A i \in DOMAIN t : i + 1 \in DOMAIN s /\ t[i] = s[i + 1] /\ 1 < i + 1
  BY <1>1, <1>2
<1>5. Head(s) \in Carried(s) /\ Carried(t) \subseteq Carried(s)
  BY <1>3, <1>4 DEF Carried
<1>6. ASSUME InOrder(cs, s)
      PROVE  InOrder(cs, t)
  <2> SUFFICES ASSUME NEW i \in DOMAIN t, NEW j \in DOMAIN t, i < j,
                      t[i].kind # "handshake"
               PROVE  ~Clash(cs, t[i], t[j])
    BY DEF InOrder
  <2>1. i + 1 < j + 1
    BY <1>2
  <2> QED
    BY <1>4, <1>6, <2>1 DEF InOrder
<1>7. ASSUME InOrder(cs, s)
      PROVE  Clear(cs, {Head(s)}, Carried(t))
  <2> SUFFICES ASSUME NEW i \in DOMAIN t
               PROVE  ~Clash(cs, Head(s), t[i])
    BY DEF Clear, Carried
  <2> QED
    BY <1>3, <1>4, <1>7 DEF InOrder
<1> QED
  BY <1>5, <1>6, <1>7 DEF t

-----------------------------------------------------------------------------
(* The way of an item to one connection: through the queue or the slots to *)
(* the batch and the wire. w, b, p, q and s stand for wire, batch_buffer,  *)
(* pending, local_queue and stream_slots.                                  *)

Streamed == {m \in Items : m.kind = "frame" /\ m.topic \in StreamTopics}
Queued   == Items \ Streamed

Orderly(cs, w, b, p, q, s) ==
  /\ InOrder(cs, w) /\ InOrder(cs, b) /\ InOrder(cs, p)
  /\ InOrder(cs, q) /\ InOrder(cs, s)
  /\ Clear(cs, Carried(w), Carried(b))
  /\ Clear(cs, Carried(w) \cup Carried(b), Carried(p))
  /\ Clear(cs, Carried(w) \cup Carried(b), Carried(q))
  /\ Clear(cs, Carried(w) \cup Carried(b) \cup Carried(p), Carried(s))

LEMMA CarriedType ==
  ASSUME NEW S, NEW s \in Seq(S)
  PROVE  Carried(s) \subseteq S
  BY LenProperties, ElementOfSeq DEF Carried

LEMMA ItemSeqs == Seq(Streamed) \subseteq Seq(Items) /\ Seq(Queued) \subseteq Seq(Items)
  BY SeqMonotonic DEF Streamed, Queued

\* What goes through the slots and what goes through the queue do not meet.
LEMMA Apart ==
  ASSUME NEW cs, NEW M, NEW N, M \subseteq Queued, N \subseteq Streamed
  PROVE  Clear(cs, M, N) /\ Clear(cs, N, M)
<1>1. \A m \in Queued, n \in Streamed : ~Clash(cs, m, n) /\ ~Clash(cs, n, m)
  BY DEF Queued, Streamed, Items, Clash, Late
<1> QED
  BY <1>1 DEF Clear

LEMMA OrderlyStart ==
  ASSUME NEW cs, NEW w, NEW b, NEW p, NEW q, NEW s, Orderly(cs, w, b, p, q, s)
  PROVE  Orderly(cs, w, b, p, <<Handshake>>, s)
<1>1. Carried(<<Handshake>>) = {} /\ InOrder(cs, <<Handshake>>)
  BY DEF Carried, InOrder, Handshake, Item
<1> QED
  BY <1>1 DEF Orderly, Clear

LEMMA OrderlyDrain ==
  ASSUME NEW cs, NEW w \in Seq(Items), NEW b \in Seq(Items),
         NEW p \in Seq(Streamed), NEW q \in Seq(Queued), NEW s \in Seq(Streamed),
         Orderly(cs, w, b, p, q, s)
  PROVE  Orderly(cs, w, b \o q, p, <<>>, s)
<1>1. Clear(cs, Carried(b), Carried(q))
  BY DEF Orderly, Clear
<1>2. Carried(b \o q) = Carried(b) \cup Carried(q) /\ InOrder(cs, b \o q)
  BY <1>1, Concat, ItemSeqs DEF Orderly
<1>3. Clear(cs, Carried(q), Carried(p)) /\ Clear(cs, Carried(q), Carried(s))
  BY Apart, CarriedType
<1> QED
  BY <1>2, <1>3, CarriedEmpty, InOrderEmpty DEF Orderly, Clear

LEMMA OrderlyTake ==
  ASSUME NEW cs, NEW w, NEW b, NEW p, NEW q, NEW s, Orderly(cs, w, b, p, q, s)
  PROVE  Orderly(cs, w, b, s, q, <<>>) /\ Orderly(cs, w, b, p, q, <<>>)
  BY CarriedEmpty, InOrderEmpty DEF Orderly, Clear

LEMMA OrderlySerialize ==
  ASSUME NEW cs, NEW w \in Seq(Items), NEW b \in Seq(Items),
         NEW p \in Seq(Streamed), NEW q \in Seq(Queued), NEW s \in Seq(Streamed),
         p # <<>>, Orderly(cs, w, b, p, q, s)
  PROVE  Orderly(cs, w, PutFrame(b, Head(p)), Tail(p), q, s)
<1> DEFINE f == Head(p)
           t == Tail(p)
           d == PutFrame(b, f)
<1>1. f \in Streamed
  BY HeadTailProperties
<1>2. f \in Items /\ f.kind # "handshake"
  BY <1>1 DEF Streamed
<1>3. /\ f \in Carried(p) /\ Carried(t) \subseteq Carried(p)
      /\ InOrder(cs, t) /\ Clear(cs, {f}, Carried(t))
  BY <1>2, HeadFirst, ItemSeqs DEF Orderly
<1> HIDE DEF f, t
<1>4. Clear(cs, Carried(b), {f})
  BY <1>3 DEF Orderly, Clear
<1>5. Carried(d) \subseteq Carried(b) \cup {f} /\ InOrder(cs, d)
  <2>1. CASE Packs(f)
    BY <1>2, <1>4, <2>1, Appended DEF Orderly
  <2>2. CASE ~Packs(f)
    BY <2>2 DEF Orderly
  <2> QED
    BY <2>1, <2>2
<1> HIDE DEF d
<1>6. Clear(cs, {f}, Carried(q))
  BY <1>1, Apart, CarriedType
<1>7. Orderly(cs, w, d, t, q, s)
  BY <1>3, <1>5, <1>6 DEF Orderly, Clear
<1> QED
  BY <1>7 DEF d, f, t

LEMMA OrderlySend ==
  ASSUME NEW cs, NEW w \in Seq(Items), NEW b \in Seq(Items), NEW p, NEW q, NEW s,
         NEW u \in Seq(Items), Carried(u) \subseteq Carried(b), InOrder(cs, u),
         Orderly(cs, w, b, p, q, s)
  PROVE  Orderly(cs, w \o u, <<>>, p, q, s)
<1>1. Clear(cs, Carried(w), Carried(u))
  BY DEF Orderly, Clear
<1>2. Carried(w \o u) = Carried(w) \cup Carried(u) /\ InOrder(cs, w \o u)
  BY <1>1, Concat DEF Orderly
<1> QED
  BY <1>2, CarriedEmpty, InOrderEmpty DEF Orderly, Clear

LEMMA OrderlyPut ==
  ASSUME NEW cs, NEW w, NEW b, NEW p, NEW q \in Seq(Queued), NEW s,
         NEW m \in Queued, m.kind # "handshake", Orderly(cs, w, b, p, q, s),
         Clear(cs, Carried(w) \cup Carried(b) \cup Carried(q), {m})
  PROVE  Orderly(cs, w, b, p, Append(q, m), s)
<1>1. Clear(cs, Carried(q), {m}) /\ m \in Items
  BY DEF Clear, Queued
<1>2. /\ Carried(Append(q, m)) = Carried(q) \cup {m}
      /\ InOrder(cs, Append(q, m))
  BY <1>1, Appended, ItemSeqs DEF Orderly
<1> QED
  BY <1>2 DEF Orderly, Clear

\* The slots never hold two frames of one id.
OneSlotPerId(s) == \A i, j \in DOMAIN s : s[i].id = s[j].id => i = j

LEMMA Stored ==
  ASSUME NEW cs, NEW s \in Seq(Streamed), NEW f \in Streamed, OneSlotPerId(s),
         \A i \in DOMAIN s : s[i].topic = f.topic => s[i].id = f.id,
         Clear(cs, Carried(s), {f})
  PROVE  /\ Carried(StoreSlot(s, f)) \subseteq Carried(s) \cup {f}
         /\ OneSlotPerId(StoreSlot(s, f))
         /\ InOrder(cs, s) => InOrder(cs, StoreSlot(s, f))
<1> DEFINE at == {i \in DOMAIN s : s[i].id = f.id}
<1>1. f \in Items /\ f.kind # "handshake" /\ s \in Seq(Items)
  BY ItemSeqs DEF Streamed
<1>2. Len(s) \in Nat /\ DOMAIN s = 1 .. Len(s)
  BY LenProperties
<1>3. CASE at = {}
  <2>1. StoreSlot(s, f) = Append(s, f)
    BY <1>3 DEF StoreSlot
  <2>2. /\ Carried(Append(s, f)) = Carried(s) \cup {f}
        /\ InOrder(cs, s) => InOrder(cs, Append(s, f))
    BY <1>1, Appended
  <2>3. /\ DOMAIN Append(s, f) = 1 .. Len(s) + 1
        /\ \A i \in 1 .. Len(s) : Append(s, f)[i] = s[i]
        /\ Append(s, f)[Len(s) + 1] = f
    BY <1>1, <1>2, AppendProperties, LenProperties
  <2>4. OneSlotPerId(Append(s, f))
    BY <1>2, <1>3, <2>3 DEF OneSlotPerId
  <2> QED
    BY <2>1, <2>2, <2>4
<1>4. CASE at # {}
  <2> DEFINE u == StoreSlot(s, f)
  <2>1. u = [i \in DOMAIN s |-> IF i \in at THEN f ELSE s[i]]
    BY <1>4 DEF StoreSlot
  <2>2. /\ DOMAIN u = DOMAIN s
        /\ \A i \in at : u[i] = f
        /\ \A i \in DOMAIN s : i \notin at => u[i] = s[i]
    BY <2>1
  <2>3. \A i, j \in at : i = j
    BY DEF OneSlotPerId
  <2> HIDE DEF u
  <2>4. Carried(u) \subseteq Carried(s) \cup {f}
    BY <2>2 DEF Carried
  <2>5. OneSlotPerId(u)
    BY <2>2, <2>3 DEF OneSlotPerId
  <2>6. ASSUME InOrder(cs, s)
        PROVE  InOrder(cs, u)
    <3> SUFFICES ASSUME NEW i \in DOMAIN s, NEW j \in DOMAIN s, i < j,
                        u[i].kind # "handshake"
                 PROVE  ~Clash(cs, u[i], u[j])
      BY <2>2 DEF InOrder
    <3>1. CASE i \in at
      <4>1. i # j
        BY <1>2
      <4>2. j \notin at
        BY <2>3, <3>1, <4>1
      <4>3. s[j].id # f.id /\ s[j].topic # f.topic
        BY <4>2
      <4> QED
        BY <2>2, <3>1, <4>2, <4>3 DEF Clash, Late
    <3>2. CASE j \in at /\ i \notin at
      <4>1. s[i] \in Carried(s) /\ u[i] = s[i] /\ u[j] = f
        BY <2>2, <3>2 DEF Carried
      <4> QED
        BY <4>1 DEF Clear
    <3>3. CASE i \notin at /\ j \notin at
      BY <2>2, <2>6, <3>3 DEF InOrder
    <3> QED
      BY <3>1, <3>2, <3>3
  <2> QED
    BY <2>4, <2>5, <2>6 DEF u
<1> QED
  BY <1>3, <1>4

LEMMA OrderlyStore ==
  ASSUME NEW cs, NEW w, NEW b, NEW p, NEW q, NEW s, NEW v, NEW f,
         Carried(v) \subseteq Carried(s) \cup {f}, InOrder(cs, v),
         Orderly(cs, w, b, p, q, s),
         Clear(cs, Carried(w) \cup Carried(b) \cup Carried(p), {f})
  PROVE  Orderly(cs, w, b, p, q, v)
  BY DEF Orderly, Clear

\* A new call does not change who made the earlier ones.
Numbered(cs, M) == \A m \in M : m.call \in 1 .. Len(cs)

LEMMA CallsGrow ==
  ASSUME NEW S, NEW cs \in Seq(S), NEW k \in S
  PROVE  /\ Append(cs, k)[Len(cs) + 1] = k
         /\ Len(Append(cs, k)) = Len(cs) + 1
         /\ \A i \in 1 .. Len(cs) : Append(cs, k)[i] = cs[i]
  BY AppendProperties, LenProperties

LEMMA OrderlyCall ==
  ASSUME NEW S, NEW cs \in Seq(S), NEW k \in S,
         NEW w, NEW b, NEW p, NEW q, NEW s, Orderly(cs, w, b, p, q, s),
         Numbered(cs, Carried(w)), Numbered(cs, Carried(b)),
         Numbered(cs, Carried(p)), Numbered(cs, Carried(q)),
         Numbered(cs, Carried(s))
  PROVE  Orderly(Append(cs, k), w, b, p, q, s)
<1> DEFINE ds == Append(cs, k)
<1>1. \A i \in 1 .. Len(cs) : ds[i] = cs[i]
  BY CallsGrow
<1> HIDE DEF ds
<1>2. ASSUME NEW m, NEW n, m.call \in 1 .. Len(cs), n.call \in 1 .. Len(cs)
      PROVE  Clash(ds, m, n) => Clash(cs, m, n)
  BY <1>1, <1>2 DEF Clash, Late
<1>3. ASSUME NEW M, NEW N, Numbered(cs, M), Numbered(cs, N), Clear(cs, M, N)
      PROVE  Clear(ds, M, N)
  BY <1>2, <1>3 DEF Clear, Numbered
<1>4. ASSUME NEW u, Numbered(cs, Carried(u)), InOrder(cs, u)
      PROVE  InOrder(ds, u)
  <2> SUFFICES ASSUME NEW i \in DOMAIN u, NEW j \in DOMAIN u, i < j,
                      u[i].kind # "handshake", Clash(ds, u[i], u[j])
               PROVE  FALSE
    BY DEF InOrder
  <2>1. u[j].kind # "handshake"
    BY DEF Clash, Late
  <2>2. u[i] \in Carried(u) /\ u[j] \in Carried(u)
    BY <2>1 DEF Carried
  <2>3. Clash(cs, u[i], u[j])
    BY <1>2, <1>4, <2>2 DEF Numbered
  <2> QED
    BY <1>4, <2>3 DEF InOrder
<1>5. /\ Numbered(cs, Carried(w) \cup Carried(b))
      /\ Numbered(cs, Carried(w) \cup Carried(b) \cup Carried(p))
  BY DEF Numbered
<1> QED
  BY <1>3, <1>4, <1>5 DEF Orderly, ds

-----------------------------------------------------------------------------
(* The invariant.                                                          *)

\* Only frames of streaming topics go through the slots, and only they do.
FlowInv ==
  /\ stream_slots \in Seq(Streamed)
  /\ \A c \in Conns : pending[c] \in Seq(Streamed) /\ local_queue[c] \in Seq(Queued)
  /\ \A k \in Callers : /\ cpc[k] = "frame" => job[k].topic \notin StreamTopics
                        /\ cpc[k] = "store" => job[k].topic \in StreamTopics

\* What connection c has sent or is to send, the slots apart.
Own(c) ==
  Carried(wire[c]) \cup Carried(batch_buffer[c]) \cup Carried(pending[c])
    \cup Carried(local_queue[c])

\* Everything that has been handed over and not been lost.
HandedOver == Carried(stream_slots) \cup UNION {Own(c) : c \in Conns}

\* Items are on their way in order, and each to one connection.
OrderInv ==
  /\ OneSlotPerId(stream_slots)
  /\ \A c \in Conns :
       Orderly(calls, wire[c], batch_buffer[c], pending[c], local_queue[c],
               stream_slots)
  /\ \A c, d \in Conns : c # d => Own(c) \cap Own(d) = {}

\* Thread k has handed m over before what it is to hand over next.
Before(m, k) ==
  \/ m.call < job[k].call
  \/ m.call = job[k].call /\ m.kind = "topic_map" /\ cpc[k] \in {"frame", "store"}

CallInv ==
  /\ Numbered(calls, HandedOver)
  /\ \A k \in Callers : cpc[k] # "idle" =>
       /\ job[k].call \in 1 .. Len(calls)
       /\ calls[job[k].call] = k
       /\ \A m \in HandedOver : calls[m.call] = k => Before(m, k)
       /\ cpc[k] = "map" => \A m \in HandedOver :
            ~(calls[m.call] = k /\ m.kind = "frame" /\ m.topic = job[k].topic)

LEMMA OrderInit == Init => FlowInv /\ OrderInv /\ CallInv
<1> SUFFICES ASSUME Init
             PROVE  FlowInv /\ OrderInv /\ CallInv
  OBVIOUS
<1>1. FlowInv
  BY EmptySeq DEF Init, FlowInv
<1>2. \A c \in Conns : Own(c) = {}
  BY CarriedEmpty DEF Init, Own
<1>3. HandedOver = {}
  BY <1>2, CarriedEmpty DEF Init, HandedOver
<1>4. CallInv
  BY <1>3 DEF Init, CallInv, Numbered
<1>5. \A cs : Orderly(cs, <<>>, <<>>, <<>>, <<>>, <<>>)
  BY CarriedEmpty, InOrderEmpty DEF Orderly, Clear
<1>6. OrderInv
  BY <1>2, <1>5 DEF Init, OrderInv, OneSlotPerId
<1> QED
  BY <1>1, <1>4, <1>6

LEMMA FlowStep == TypeInv /\ HeldAtPut /\ FlowInv /\ [Next]_vars => FlowInv'
<1> SUFFICES ASSUME TypeInv, HeldAtPut, FlowInv, [Next]_vars
             PROVE  FlowInv'
  OBVIOUS
<1> USE DEF TypeInv, TypeOK
<1>1. ASSUME UNCHANGED <<stream_slots, pending, local_queue, cpc, job>>
      PROVE  FlowInv'
  BY <1>1 DEF FlowInv
<1>2. ASSUME NEW c \in Conns, \/ Accept(c) \/ ClientExit(c) \/ SeeHalt(c)
                              \/ SendRefused(c) \/ SendEnds(c)
                              \/ ReleaseQueue(c) \/ Aside(c)
      PROVE  FlowInv'
  BY <1>1, <1>2 DEF Accept, ClientExit, SeeHalt, SendRefused, SendEnds,
                    SendBatch, SendFails, BreakOff, ReleaseQueue, Aside,
                    ConnectionFails, SendNothing, BeginSend, senderVars,
                    callerVars
<1>3. ASSUME NEW c \in Conns, StartLoop(c)
      PROVE  FlowInv'
  <2>1. <<Handshake>> \in Seq(Queued)
    BY DEF Queued, Streamed, Handshake, Item, Items, Kinds
  <2> QED
    BY <1>3, <2>1 DEF StartLoop, FlowInv, callerVars
<1>4. ASSUME NEW c \in Conns, DrainQueue(c)
      PROVE  FlowInv'
  BY <1>4, EmptySeq DEF DrainQueue, FlowInv, callerVars
<1>5. ASSUME NEW c \in Conns, TakeSlots(c)
      PROVE  FlowInv'
  BY <1>5, EmptySeq DEF TakeSlots, FlowInv, callerVars
<1>6. ASSUME NEW c \in Conns, SerializeFrame(c)
      PROVE  FlowInv'
  <2>1. Tail(pending[c]) \in Seq(Streamed)
    BY <1>6, HeadTailProperties DEF SerializeFrame, FlowInv
  <2> QED
    BY <1>6, <2>1 DEF SerializeFrame, FlowInv, callerVars
<1>7. ASSUME NEW k \in Callers,
             (\E t \in Topics : SendMessage(k, t)) \/ SendCommand(k)
      PROVE  FlowInv'
  BY <1>7 DEF SendMessage, SendCommand, BeginCall, FlowInv, senderVars
<1>8. ASSUME NEW k \in Callers, KnownTopicId(k)
      PROVE  FlowInv'
  BY <1>8 DEF KnownTopicId, AfterId, FlowInv, senderVars
<1>9. ASSUME NEW k \in Callers, NewTopicId(k)
      PROVE  FlowInv'
  BY <1>9 DEF NewTopicId, FlowInv, senderVars
<1>10. ASSUME NEW k \in Callers, FetchQueue(k)
       PROVE  FlowInv'
  BY <1>1, <1>10 DEF FetchQueue, senderVars
<1>11. ASSUME NEW k \in Callers, CallRaises(k)
       PROVE  FlowInv'
  BY <1>11 DEF CallRaises, Idle, FlowInv, senderVars
<1>12. ASSUME NEW k \in Callers, Put(k)
       PROVE  FlowInv'
  <2>1. held[k] \in Conns /\ cpc[k] \in PutSites
    BY <1>12 DEF Put, HeldAtPut
  <2>2. ItemOf(k) \in Queued
    BY <2>1, ItemOfType DEF ItemOf, TopicMap, Frame, Command, Item, Queued, Streamed,
                            FlowInv
  <2>3. Append(local_queue[held[k]], ItemOf(k)) \in Seq(Queued)
    BY <2>1, <2>2 DEF FlowInv
  <2>4. \A c \in Conns : local_queue'[c] \in Seq(Queued)
    BY <1>12, <2>1, <2>3 DEF Put, FlowInv
  <2>5. CASE cpc[k] = "map"
    BY <1>12, <2>4, <2>5 DEF Put, AfterId, FlowInv, senderVars
  <2>6. CASE cpc[k] # "map"
    BY <1>12, <2>4, <2>6 DEF Put, Idle, FlowInv, senderVars
  <2> QED
    BY <2>5, <2>6
<1>13. ASSUME NEW k \in Callers, StoreFrame(k)
       PROVE  FlowInv'
  <2>1. Frame(job[k].topic, job[k].id, job[k].call) \in Streamed
    BY <1>13 DEF StoreFrame, FlowInv, Streamed, Frame, Item, Items, Kinds, Jobs
  <2>2. stream_slots' \in Seq(Streamed)
    BY <1>13, <2>1, StoreSlotType DEF StoreFrame, FlowInv
  <2> QED
    BY <1>13, <2>2 DEF StoreFrame, Idle, FlowInv, senderVars
<1>14. CASE UNCHANGED vars
  BY <1>1, <1>14 DEF vars, senderVars, callerVars
<1> QED
  BY <1>2, <1>3, <1>4, <1>5, <1>6, <1>7, <1>8, <1>9, <1>10, <1>11, <1>12, <1>13,
     <1>14 DEF Next, CallerStep, SenderStep, Aside

-----------------------------------------------------------------------------
(* The sender threads keep it.                                             *)

\* Only the items of connection c move, and nothing joins them.
LEMMA OneMoves ==
  ASSUME OrderInv, NEW c \in Conns, UNCHANGED <<stream_slots, calls>>,
         \A d \in Conns \ {c} :
           /\ wire'[d] = wire[d] /\ batch_buffer'[d] = batch_buffer[d]
           /\ pending'[d] = pending[d] /\ local_queue'[d] = local_queue[d],
         Orderly(calls, wire'[c], batch_buffer'[c], pending'[c], local_queue'[c],
                 stream_slots),
         Own(c)' \subseteq Own(c)
  PROVE  OrderInv' /\ HandedOver' \subseteq HandedOver
<1>1. \A d \in Conns \ {c} : Own(d)' = Own(d)
  BY DEF Own
<1>2. \A d \in Conns : Own(d)' \subseteq Own(d)
  BY <1>1
<1>3. HandedOver' \subseteq HandedOver
  BY <1>2 DEF HandedOver
<1>4. \A d, e \in Conns : d # e => Own(d)' \cap Own(e)' = {}
  BY <1>2 DEF OrderInv
<1>5. \A d \in Conns :
        Orderly(calls', wire'[d], batch_buffer'[d], pending'[d], local_queue'[d],
                stream_slots')
  BY DEF OrderInv
<1> QED
  BY <1>3, <1>4, <1>5 DEF OrderInv

LEMMA SendersOrder ==
  ASSUME TypeInv, FlowInv, OrderInv, NEW c \in Conns,
         SenderStep(c) \/ SendEnds(c)
  PROVE  OrderInv' /\ HandedOver' \subseteq HandedOver
<1> DEFINE w == wire[c]
           b == batch_buffer[c]
           p == pending[c]
           q == local_queue[c]
           s == stream_slots
<1>0. /\ w \in Seq(Items) /\ b \in Seq(Items) /\ q \in Seq(Queued)
      /\ p \in Seq(Streamed) /\ s \in Seq(Streamed)
      /\ Orderly(calls, w, b, p, q, s)
  BY DEF TypeInv, TypeOK, FlowInv, OrderInv
<1>1. CASE StartLoop(c)
  <2>1. Carried(<<Handshake>>) = {}
    BY DEF Carried, Handshake, Item
  <2>2. Orderly(calls, w, b, p, <<Handshake>>, s)
    BY <1>0, OrderlyStart
  <2>3. /\ UNCHANGED <<wire, batch_buffer, pending, stream_slots, calls>>
        /\ local_queue'[c] = <<Handshake>>
        /\ \A d \in Conns \ {c} : local_queue'[d] = local_queue[d]
    BY <1>1 DEF StartLoop, callerVars, TypeInv, TypeOK
  <2>4. Own(c)' \subseteq Own(c)
    BY <2>1, <2>3 DEF Own
  <2> QED
    BY <2>2, <2>3, <2>4, OneMoves
<1>2. CASE DrainQueue(c)
  <2>1. Orderly(calls, w, b \o q, p, <<>>, s)
    BY <1>0, OrderlyDrain
  <2>2. Carried(b \o q) = Carried(b) \cup Carried(q)
    BY <1>0, ItemSeqs, Concat
  <2>3. /\ UNCHANGED <<wire, pending, stream_slots, calls>>
        /\ local_queue'[c] = <<>> /\ batch_buffer'[c] = b \o q
        /\ \A d \in Conns \ {c} : /\ local_queue'[d] = local_queue[d]
                                  /\ batch_buffer'[d] = batch_buffer[d]
    BY <1>2 DEF DrainQueue, callerVars, TypeInv, TypeOK
  <2>4. Own(c)' \subseteq Own(c)
    BY <2>2, <2>3, CarriedEmpty DEF Own
  <2> QED
    BY <2>1, <2>3, <2>4, OneMoves
<1>3. CASE TakeSlots(c)
  <2>1. /\ UNCHANGED <<wire, batch_buffer, local_queue, calls>>
        /\ pending'[c] = s /\ stream_slots' = <<>>
        /\ \A d \in Conns \ {c} : pending'[d] = pending[d]
    BY <1>3 DEF TakeSlots, callerVars, TypeInv, TypeOK
  <2>2. /\ \A d \in Conns \ {c} : Own(d)' = Own(d)
        /\ Own(c)' \subseteq Own(c) \cup Carried(s)
    BY <2>1 DEF Own
  <2>3. ASSUME NEW d \in Conns
        PROVE  Own(d) \cap Carried(s) = {}
    <3>1. Clear(calls, Carried(wire[d]) \cup Carried(batch_buffer[d])
                         \cup Carried(pending[d]), Carried(s))
      BY DEF OrderInv, Orderly
    <3>2. Carried(local_queue[d]) \subseteq Queued /\ Carried(s) \subseteq Streamed
      BY CarriedType DEF FlowInv
    <3> QED
      BY <3>1, <3>2 DEF Own, Clear, Clash, Queued
  <2>4. \A d, e \in Conns : d # e => Own(d)' \cap Own(e)' = {}
    BY <2>2, <2>3 DEF OrderInv
  <2>5. HandedOver' \subseteq HandedOver
    BY <2>1, <2>2, CarriedEmpty DEF HandedOver
  <2>6. ASSUME NEW d \in Conns
        PROVE  Orderly(calls', wire'[d], batch_buffer'[d], pending'[d],
                       local_queue'[d], stream_slots')
    BY <2>1, OrderlyTake DEF OrderInv
  <2>7. OneSlotPerId(stream_slots)'
    BY <2>1 DEF OneSlotPerId
  <2> QED
    BY <2>4, <2>5, <2>6, <2>7 DEF OrderInv
<1>4. CASE SerializeFrame(c)
  <2> DEFINE d == PutFrame(b, Head(p))
  <2>1. p # <<>>
    BY <1>4 DEF SerializeFrame
  <2>2. Orderly(calls, w, d, Tail(p), q, s)
    BY <1>0, <2>1, OrderlySerialize
  <2>3. Head(p) \in Items /\ Head(p).kind # "handshake"
    BY <1>0, <2>1, HeadTailProperties DEF Streamed
  <2>4. Head(p) \in Carried(p) /\ Carried(Tail(p)) \subseteq Carried(p)
    BY <1>0, <2>1, <2>3, HeadFirst, ItemSeqs
  <2>5. Carried(d) \subseteq Carried(b) \cup Carried(p)
    <3>1. Carried(Append(b, Head(p))) = Carried(b) \cup {Head(p)}
      BY <1>0, <2>3, Appended
    <3> QED
      BY <2>4, <3>1
  <2>6. /\ UNCHANGED <<wire, local_queue, stream_slots, calls>>
        /\ pending'[c] = Tail(p) /\ batch_buffer'[c] = d
        /\ \A e \in Conns \ {c} : /\ pending'[e] = pending[e]
                                  /\ batch_buffer'[e] = batch_buffer[e]
    BY <1>4 DEF SerializeFrame, callerVars, TypeInv, TypeOK
  <2> HIDE DEF d
  <2>7. Own(c)' \subseteq Own(c)
    BY <2>4, <2>5, <2>6 DEF Own
  <2> QED
    BY <2>2, <2>6, <2>7, OneMoves
<1>5. ASSUME NEW u \in Seq(Items), Carried(u) \subseteq Carried(b),
             InOrder(calls, u), wire' = [wire EXCEPT ![c] = @ \o u],
             batch_buffer' = [batch_buffer EXCEPT ![c] = <<>>],
             UNCHANGED <<pending, local_queue, stream_slots, calls>>
      PROVE  OrderInv' /\ HandedOver' \subseteq HandedOver
  <2>1. Orderly(calls, w \o u, <<>>, p, q, s)
    BY <1>0, <1>5, OrderlySend
  <2>2. Carried(w \o u) = Carried(w) \cup Carried(u)
    BY <1>0, <1>5, Concat
  <2>3. /\ wire'[c] = w \o u /\ batch_buffer'[c] = <<>>
        /\ \A d \in Conns \ {c} : /\ wire'[d] = wire[d]
                                  /\ batch_buffer'[d] = batch_buffer[d]
    BY <1>5 DEF TypeInv, TypeOK
  <2>4. Own(c)' \subseteq Own(c)
    BY <1>5, <2>2, <2>3, CarriedEmpty DEF Own
  <2> QED
    BY <1>5, <2>1, <2>3, <2>4, OneMoves
<1>6. CASE SendBatch(c)
  <2>1. InOrder(calls, b)
    BY <1>0 DEF Orderly
  <2> QED
    BY <1>0, <1>5, <1>6, <2>1 DEF SendBatch, callerVars
<1>7. CASE SendRefused(c) \/ SendFails(c)
  <2>1. PICK n \in 0 .. Len(b) : BreakOff(c, n)
    BY <1>7, BreaksOff DEF TypeInv
  <2>2. InOrder(calls, b)
    BY <1>0 DEF Orderly
  <2>3. /\ SubSeq(b, 1, n) \in Seq(Items)
        /\ Carried(SubSeq(b, 1, n)) \subseteq Carried(b)
        /\ InOrder(calls, SubSeq(b, 1, n))
    BY <1>0, <2>2, Prefix, SeqPrefix
  <2> QED
    BY <1>5, <2>1, <2>3 DEF BreakOff, callerVars
<1>8. CASE SeeHalt(c) \/ ReleaseQueue(c) \/ SendNothing(c) \/ BeginSend(c)
  BY <1>8 DEF SeeHalt, ReleaseQueue, SendNothing, BeginSend, callerVars,
              OrderInv, HandedOver, Own
<1> QED
  BY <1>1, <1>2, <1>3, <1>4, <1>6, <1>7, <1>8 DEF SenderStep, SendEnds

-----------------------------------------------------------------------------
(* The callers keep it.                                                    *)

\* m is what thread k is to hand over.
IsNext(k, m) ==
  /\ m.call = job[k].call
  /\ \/ cpc[k] = "map" /\ m.kind = "topic_map" /\ m.topic = job[k].topic
     \/ cpc[k] \in {"frame", "store"} /\ m.kind = "frame"
     \/ cpc[k] = "command" /\ m.kind = "command"

\* Nothing that has been handed over must come after it.
LEMMA Fresh ==
  ASSUME TypeInv, CallInv, NEW k \in Callers, NEW m, IsNext(k, m)
  PROVE  \A n \in HandedOver : ~Clash(calls, n, m)
<1> SUFFICES ASSUME NEW n \in HandedOver, Clash(calls, n, m)
             PROVE  FALSE
  OBVIOUS
<1>1. cpc[k] # "idle" /\ m.call = job[k].call /\ calls[m.call] = k
  BY DEF IsNext, CallInv
<1>2. calls[n.call] = k
  BY <1>1 DEF Clash, Late
<1>3. Before(n, k)
  BY <1>1, <1>2 DEF CallInv
<1>4. n.call \in Nat /\ job[k].call \in Nat
  BY <1>1, LenProperties DEF CallInv, Numbered, TypeInv, TypeOK
<1>5. CASE n = m
  <2>1. n.kind = "topic_map" /\ cpc[k] \in {"frame", "store"}
    BY <1>1, <1>3, <1>4, <1>5 DEF Before
  <2> QED
    BY <1>5, <2>1 DEF IsNext
<1>6. CASE Late(calls, n, m)
  <2>1. n.kind = "frame"
    BY <1>6 DEF Late
  <2>2. n.call < m.call
    BY <1>1, <1>3, <2>1 DEF Before
  <2>3. m.kind = "topic_map" /\ n.topic = m.topic
    BY <1>1, <1>4, <1>6, <2>2 DEF Late
  <2>4. cpc[k] = "map" /\ n.topic = job[k].topic
    BY <2>3 DEF IsNext
  <2> QED
    BY <1>1, <1>2, <2>1, <2>4 DEF CallInv
<1> QED
  BY <1>5, <1>6 DEF Clash

LEMMA ItemIsNext ==
  ASSUME NEW k \in Callers, cpc[k] \in PutSites
  PROVE  IsNext(k, ItemOf(k))
  BY DEF IsNext, ItemOf, PutSites, TopicMap, Frame, Command, Item

LEMMA FrameIsNext ==
  ASSUME NEW k \in Callers, cpc[k] = "store"
  PROVE  IsNext(k, Frame(job[k].topic, job[k].id, job[k].call))
  BY DEF IsNext, Frame, Item

\* Of what is handed over, the ids are those of the topics.
LEMMA HandedOverDecodes ==
  ASSUME DecodeInv
  PROVE  HandedOver \subseteq Decodable
<1>1. Carried(stream_slots) \subseteq DecodableFrames
  BY CarriedType DEF DecodeInv
<1>2. ASSUME NEW c \in Conns
      PROVE  Own(c) \subseteq Decodable
  <2>1. /\ Carried(wire[c]) \subseteq Sendable
        /\ Carried(batch_buffer[c]) \subseteq Sendable
        /\ Carried(local_queue[c]) \subseteq Sendable
        /\ Carried(pending[c]) \subseteq DecodableFrames
    BY CarriedType DEF DecodeInv
  <2> QED
    BY <2>1 DEF Own, Sendable, DecodableFrames
<1> QED
  BY <1>1, <1>2 DEF HandedOver, DecodableFrames

\* A step that hands nothing over and begins no call.
LEMMA NothingMoves ==
  ASSUME OrderInv, UNCHANGED <<wire, batch_buffer, pending, local_queue,
                               stream_slots, calls>>
  PROVE  OrderInv' /\ HandedOver' = HandedOver
  BY DEF OrderInv, HandedOver, Own

\* A call begins.
LEMMA CallBegins ==
  ASSUME TypeInv, OrderInv, CallInv, NEW k \in Callers, BeginCall(k),
         job'[k].call = Len(calls'), cpc'[k] # "map",
         \A j \in Callers \ {k} : cpc'[j] = cpc[j] /\ job'[j] = job[j]
  PROVE  OrderInv' /\ CallInv'
<1>1. /\ UNCHANGED <<wire, batch_buffer, pending, local_queue, stream_slots>>
      /\ calls' = Append(calls, k) /\ calls \in Seq(Callers)
  BY DEF BeginCall, senderVars, TypeInv, TypeOK
<1>2. /\ Len(calls) \in Nat /\ Len(calls') = Len(calls) + 1
      /\ calls'[Len(calls) + 1] = k
      /\ \A i \in 1 .. Len(calls) : calls'[i] = calls[i]
  BY <1>1, CallsGrow, LenProperties
<1>3. HandedOver' = HandedOver /\ \A c \in Conns : Own(c)' = Own(c)
  BY <1>1 DEF HandedOver, Own
<1>4. ASSUME NEW c \in Conns
      PROVE  Orderly(calls', wire[c], batch_buffer[c], pending[c],
                     local_queue[c], stream_slots)
  <2>1. /\ Numbered(calls, Carried(wire[c]))
        /\ Numbered(calls, Carried(batch_buffer[c]))
        /\ Numbered(calls, Carried(pending[c]))
        /\ Numbered(calls, Carried(local_queue[c]))
        /\ Numbered(calls, Carried(stream_slots))
    BY DEF CallInv, Numbered, HandedOver, Own
  <2>2. Orderly(calls, wire[c], batch_buffer[c], pending[c], local_queue[c],
                stream_slots)
    BY DEF OrderInv
  <2> QED
    BY <1>1, <2>1, <2>2, OrderlyCall
<1>5. OrderInv'
  BY <1>1, <1>3, <1>4 DEF OrderInv
<1>6. \A m \in HandedOver :
        m.call \in 1 .. Len(calls) /\ calls'[m.call] = calls[m.call]
  BY <1>2 DEF CallInv, Numbered
<1>7. Numbered(calls, HandedOver)'
  BY <1>2, <1>3, <1>6 DEF Numbered
<1>8. ASSUME NEW j \in Callers, cpc'[j] # "idle"
      PROVE  /\ job'[j].call \in 1 .. Len(calls')
             /\ calls'[job'[j].call] = j
             /\ \A m \in HandedOver : calls'[m.call] = j => Before(m, j)'
             /\ cpc'[j] = "map" => \A m \in HandedOver :
                  ~(calls'[m.call] = j /\ m.kind = "frame" /\ m.topic = job'[j].topic)
  <2>1. CASE j = k
    BY <1>2, <1>6, <2>1 DEF Before
  <2>2. CASE j # k
    <3>1. job[j].call \in 1 .. Len(calls) /\ calls[job[j].call] = j
      BY <1>8, <2>2 DEF CallInv
    <3>2. \A m \in HandedOver : calls'[m.call] = j => Before(m, j)'
      BY <1>6, <1>8, <2>2 DEF CallInv, Before
    <3> QED
      BY <1>2, <1>6, <1>8, <2>2, <3>1, <3>2 DEF CallInv
  <2> QED
    BY <2>1, <2>2
<1>9. CallInv'
  BY <1>3, <1>7, <1>8 DEF CallInv
<1> QED
  BY <1>5, <1>9

\* What is on the way only gets less, and the callers do not move.
LEMMA CallsKept ==
  ASSUME CallInv, UNCHANGED callerVars, HandedOver' \subseteq HandedOver
  PROVE  CallInv'
<1>1. Numbered(calls, HandedOver)'
  BY DEF CallInv, Numbered, callerVars
<1>2. \A m, k : Before(m, k)' <=> Before(m, k)
  BY DEF Before, callerVars
<1> QED
  BY <1>1, <1>2 DEF CallInv, callerVars

\* A call goes on, or ends, without handing anything over.
LEMMA CallGoesOn ==
  ASSUME TypeInv, CallInv, IdsUnique, CallsIdentified, DecodeInv, NEW k \in Callers,
         KnownTopicId(k) \/ NewTopicId(k) \/ FetchQueue(k) \/ CallRaises(k),
         HandedOver' = HandedOver
  PROVE  CallInv'
<1>1. /\ calls' = calls
      /\ \A j \in Callers \ {k} : cpc'[j] = cpc[j] /\ job'[j] = job[j]
  BY DEF KnownTopicId, NewTopicId, FetchQueue, CallRaises, Idle, TypeInv, TypeOK
<1>2. Numbered(calls, HandedOver)'
  BY <1>1 DEF CallInv
<1>3. \/ cpc'[k] = "idle"
      \/ /\ cpc[k] # "idle" /\ job'[k].call = job[k].call
         /\ cpc[k] \in {"frame", "store"} => cpc'[k] = cpc[k]
  BY DEF KnownTopicId, NewTopicId, FetchQueue, CallRaises, Idle, TypeInv, TypeOK
<1>4. ASSUME cpc'[k] = "map", NEW m \in HandedOver, m.kind = "frame"
      PROVE  ~(calls[m.call] = k /\ m.topic = job'[k].topic)
  <2>1. CASE FetchQueue(k)
    BY <1>4, <2>1 DEF FetchQueue, CallInv
  <2>2. CASE NewTopicId(k)
    <3>1. topic_to_id[m.topic] # 0
      BY <1>4, HandedOverDecodes DEF Decodable, Identified
    <3>2. job'[k].topic = job[k].topic /\ topic_to_id[job[k].topic] = 0
      BY <2>2 DEF NewTopicId, TypeInv, TypeOK
    <3> QED
      BY <3>1, <3>2
  <2>3. CASE KnownTopicId(k) \/ CallRaises(k)
    BY <1>4, <2>3 DEF KnownTopicId, CallRaises, Idle, AfterId, TypeInv, TypeOK
  <2> QED
    BY <2>1, <2>2, <2>3
<1>5. ASSUME NEW j \in Callers, cpc'[j] # "idle"
      PROVE  /\ job'[j].call \in 1 .. Len(calls)
             /\ calls[job'[j].call] = j
             /\ \A m \in HandedOver : calls[m.call] = j => Before(m, j)'
             /\ cpc'[j] = "map" => \A m \in HandedOver :
                  ~(calls[m.call] = j /\ m.kind = "frame" /\ m.topic = job'[j].topic)
  <2>1. CASE j = k
    BY <1>3, <1>4, <1>5, <2>1 DEF CallInv, Before
  <2>2. CASE j # k
    BY <1>1, <1>5, <2>2 DEF CallInv, Before
  <2> QED
    BY <2>1, <2>2
<1> QED
  BY <1>1, <1>2, <1>5 DEF CallInv

\* A call hands m over.
LEMMA CallHandsOver ==
  ASSUME TypeInv, CallInv, NEW k \in Callers, NEW m, IsNext(k, m),
         calls' = calls, HandedOver' \subseteq HandedOver \cup {m},
         \A j \in Callers \ {k} : cpc'[j] = cpc[j] /\ job'[j] = job[j],
         \/ cpc'[k] = "idle"
         \/ cpc[k] = "map" /\ cpc'[k] \in {"frame", "store"} /\ job'[k] = job[k]
  PROVE  CallInv'
<1>1. cpc[k] # "idle" /\ m.call = job[k].call
  BY DEF IsNext
<1>2. m.call \in 1 .. Len(calls) /\ calls[m.call] = k
  BY <1>1 DEF CallInv
<1>3. Numbered(calls, HandedOver)'
  BY <1>2 DEF CallInv, Numbered
<1>4. ASSUME NEW j \in Callers, cpc'[j] # "idle"
      PROVE  /\ job'[j].call \in 1 .. Len(calls)
             /\ calls[job'[j].call] = j
             /\ \A n \in HandedOver \cup {m} : calls[n.call] = j => Before(n, j)'
             /\ cpc'[j] = "map" => \A n \in HandedOver \cup {m} :
                  ~(calls[n.call] = j /\ n.kind = "frame" /\ n.topic = job'[j].topic)
  <2>1. CASE j = k
    <3>1. cpc[k] = "map" /\ cpc'[k] \in {"frame", "store"} /\ job'[k] = job[k]
      BY <1>4, <2>1
    <3>2. m.kind = "topic_map"
      BY <3>1 DEF IsNext
    <3>3. Before(m, k)'
      BY <1>1, <3>1, <3>2 DEF Before
    <3>4. \A n \in HandedOver : calls[n.call] = k => Before(n, k)'
      BY <3>1 DEF CallInv, Before
    <3> QED
      BY <1>1, <2>1, <3>1, <3>3, <3>4 DEF CallInv
  <2>2. CASE j # k
    <3>1. cpc'[j] = cpc[j] /\ job'[j] = job[j]
      BY <2>2
    <3>2. \A n : Before(n, j)' <=> Before(n, j)
      BY <3>1 DEF Before
    <3> QED
      BY <1>2, <1>4, <2>2, <3>1, <3>2 DEF CallInv
  <2> QED
    BY <2>1, <2>2
<1> QED
  BY <1>3, <1>4 DEF CallInv

LEMMA PutOrder ==
  ASSUME TypeInv, HeldAtPut, FlowInv, FlowInv', OrderInv, CallInv,
         NEW k \in Callers, Put(k)
  PROVE  OrderInv' /\ CallInv'
<1> DEFINE m == ItemOf(k)
<1>0. PICK c \in Conns : c = held[k]
  BY DEF Put, TypeInv, TypeOK
<1>1. cpc[k] \in PutSites
  BY DEF Put, HeldAtPut
<1>2. IsNext(k, m)
  BY <1>1, ItemIsNext
<1>3. \A n \in HandedOver : ~Clash(calls, n, m)
  BY <1>2, Fresh
<1>4. m \in Plain /\ m \in Queued
  BY <1>1, ItemOfPlain
     DEF ItemOf, TopicMap, Frame, Command, Item, Plain, Queued, Streamed, FlowInv,
         TypeInv
<1>5. /\ UNCHANGED <<wire, batch_buffer, pending, stream_slots, calls>>
      /\ local_queue'[c] = Append(local_queue[c], m)
      /\ \A d \in Conns \ {c} : local_queue'[d] = local_queue[d]
  BY <1>0 DEF Put, senderVars, TypeInv, TypeOK
<1>6. /\ local_queue[c] \in Seq(Queued) /\ m.kind # "handshake"
      /\ Orderly(calls, wire[c], batch_buffer[c], pending[c], local_queue[c],
                 stream_slots)
  BY <1>4 DEF FlowInv, OrderInv, Plain
<1> HIDE DEF m
<1>7. Clear(calls, Carried(wire[c]) \cup Carried(batch_buffer[c])
                     \cup Carried(local_queue[c]), {m})
  BY <1>3 DEF Clear, HandedOver, Own
<1>8. Orderly(calls, wire[c], batch_buffer[c], pending[c],
              Append(local_queue[c], m), stream_slots)
  BY <1>4, <1>6, <1>7, OrderlyPut
<1>9. Carried(Append(local_queue[c], m)) = Carried(local_queue[c]) \cup {m}
  BY <1>4, <1>6, Appended, ItemSeqs DEF Queued
<1>10. /\ Own(c)' = Own(c) \cup {m}
       /\ \A d \in Conns \ {c} : Own(d)' = Own(d)
  BY <1>5, <1>9 DEF Own
<1>11. m \notin HandedOver
  BY <1>3 DEF Clash
<1>12. \A d, e \in Conns : d # e => Own(d)' \cap Own(e)' = {}
  BY <1>10, <1>11 DEF OrderInv, HandedOver
<1>13. OrderInv'
  BY <1>5, <1>8, <1>12 DEF OrderInv
<1>14. HandedOver' \subseteq HandedOver \cup {m}
  BY <1>5, <1>10 DEF HandedOver
<1>15. /\ \A j \in Callers \ {k} : cpc'[j] = cpc[j] /\ job'[j] = job[j]
       /\ \/ cpc'[k] = "idle"
          \/ cpc[k] = "map" /\ cpc'[k] \in {"frame", "store"} /\ job'[k] = job[k]
  BY DEF Put, Idle, AfterId, TypeInv, TypeOK
<1>16. CallInv'
  BY <1>2, <1>5, <1>14, <1>15, CallHandsOver
<1> QED
  BY <1>13, <1>16

LEMMA StoreOrder ==
  ASSUME TypeInv, FlowInv, OrderInv, CallInv, CallsIdentified, DecodeInv,
         NEW k \in Callers, StoreFrame(k)
  PROVE  OrderInv' /\ CallInv'
<1> DEFINE f == Frame(job[k].topic, job[k].id, job[k].call)
           s == stream_slots
<1>1. IsNext(k, f) /\ f \in Streamed
  BY FrameIsNext DEF StoreFrame, FlowInv, Streamed, Frame, Item, Items, Kinds, Jobs,
                     TypeInv, TypeOK
<1>2. \A n \in HandedOver : ~Clash(calls, n, f)
  BY <1>1, Fresh
<1>3. \A i \in DOMAIN s : s[i].topic = f.topic => s[i].id = f.id
  <2>1. \A i \in DOMAIN s : s[i] \in DecodableFrames
    BY LenProperties, ElementOfSeq DEF DecodeInv
  <2>2. topic_to_id[f.topic] = f.id
    BY DEF StoreFrame, CallsIdentified, Identified, Frame, Item
  <2> QED
    BY <2>1, <2>2 DEF DecodableFrames, Decodable, Identified
<1>4. /\ UNCHANGED <<wire, batch_buffer, pending, local_queue, calls>>
      /\ stream_slots' = StoreSlot(s, f)
  BY DEF StoreFrame, senderVars
<1>5. s \in Seq(Streamed) /\ OneSlotPerId(s)
  BY DEF FlowInv, OrderInv
<1> HIDE DEF f, s
<1>6. Clear(calls, Carried(s), {f})
  BY <1>2 DEF Clear, HandedOver, s
<1>7. /\ Carried(StoreSlot(s, f)) \subseteq Carried(s) \cup {f}
      /\ OneSlotPerId(StoreSlot(s, f))
      /\ InOrder(calls, s) => InOrder(calls, StoreSlot(s, f))
  BY <1>1, <1>3, <1>5, <1>6, Stored
<1>8. ASSUME NEW c \in Conns
      PROVE  Orderly(calls, wire[c], batch_buffer[c], pending[c], local_queue[c],
                     StoreSlot(s, f))
  <2>1. Orderly(calls, wire[c], batch_buffer[c], pending[c], local_queue[c], s)
    BY DEF OrderInv, s
  <2>2. Clear(calls, Carried(wire[c]) \cup Carried(batch_buffer[c])
                       \cup Carried(pending[c]), {f})
    BY <1>2 DEF Clear, HandedOver, Own
  <2>3. InOrder(calls, StoreSlot(s, f))
    BY <1>7, <2>1 DEF Orderly
  <2> QED
    BY <1>7, <2>1, <2>2, <2>3, OrderlyStore
<1>9. \A c \in Conns : Own(c)' = Own(c)
  BY <1>4 DEF Own
<1>10. OrderInv'
  BY <1>4, <1>7, <1>8, <1>9 DEF OrderInv
<1>11. HandedOver' \subseteq HandedOver \cup {f}
  BY <1>4, <1>7, <1>9 DEF HandedOver, s
<1>12. /\ \A j \in Callers \ {k} : cpc'[j] = cpc[j] /\ job'[j] = job[j]
       /\ cpc'[k] = "idle"
  BY DEF StoreFrame, Idle, TypeInv, TypeOK
<1>13. CallInv'
  BY <1>1, <1>4, <1>11, <1>12, CallHandsOver
<1> QED
  BY <1>10, <1>13

LEMMA OrderStep ==
  TypeInv /\ HeldAtPut /\ IdsUnique /\ CallsIdentified /\ DecodeInv /\ FlowInv
    /\ FlowInv' /\ OrderInv /\ CallInv /\ [Next]_vars => OrderInv' /\ CallInv'
<1> SUFFICES ASSUME TypeInv, HeldAtPut, IdsUnique, CallsIdentified, DecodeInv,
                    FlowInv, FlowInv', OrderInv, CallInv, [Next]_vars
             PROVE  OrderInv' /\ CallInv'
  OBVIOUS
<1>1. ASSUME NEW c \in Conns, SenderStep(c) \/ SendEnds(c)
      PROVE  OrderInv' /\ CallInv'
  <2>1. UNCHANGED callerVars
    BY <1>1, WiringKeepsCalls DEF Wiring
  <2> QED
    BY <1>1, <2>1, SendersOrder, CallsKept
<1>2. ASSUME NEW c \in Conns, Accept(c) \/ ClientExit(c) \/ ConnectionFails(c)
      PROVE  OrderInv' /\ CallInv'
  <2>1. UNCHANGED <<wire, batch_buffer, pending, local_queue, stream_slots,
                    calls, callerVars>>
    BY <1>2 DEF Accept, ClientExit, ConnectionFails, senderVars, callerVars
  <2> QED
    BY <2>1, NothingMoves, CallsKept
<1>3. ASSUME NEW k \in Callers, NEW t \in Topics, SendMessage(k, t)
      PROVE  OrderInv' /\ CallInv'
  <2>1. /\ BeginCall(k) /\ job'[k].call = Len(calls') /\ cpc'[k] # "map"
        /\ \A j \in Callers \ {k} : cpc'[j] = cpc[j] /\ job'[j] = job[j]
    BY <1>3 DEF SendMessage, TypeInv, TypeOK
  <2> QED
    BY <2>1, CallBegins
<1>4. ASSUME NEW k \in Callers, SendCommand(k)
      PROVE  OrderInv' /\ CallInv'
  <2>1. /\ BeginCall(k) /\ job'[k].call = Len(calls') /\ cpc'[k] # "map"
        /\ \A j \in Callers \ {k} : cpc'[j] = cpc[j] /\ job'[j] = job[j]
    BY <1>4 DEF SendCommand, TypeInv, TypeOK
  <2> QED
    BY <2>1, CallBegins
<1>5. ASSUME NEW k \in Callers,
             KnownTopicId(k) \/ NewTopicId(k) \/ FetchQueue(k) \/ CallRaises(k)
      PROVE  OrderInv' /\ CallInv'
  <2>1. UNCHANGED <<wire, batch_buffer, pending, local_queue, stream_slots, calls>>
    BY <1>5 DEF KnownTopicId, NewTopicId, FetchQueue, CallRaises, senderVars
  <2> QED
    BY <1>5, <2>1, NothingMoves, CallGoesOn
<1>6. ASSUME NEW k \in Callers, Put(k)
      PROVE  OrderInv' /\ CallInv'
  BY <1>6, PutOrder
<1>7. ASSUME NEW k \in Callers, StoreFrame(k)
      PROVE  OrderInv' /\ CallInv'
  BY <1>7, StoreOrder
<1>8. CASE UNCHANGED vars
  <2>1. UNCHANGED <<wire, batch_buffer, pending, local_queue, stream_slots,
                    calls, callerVars>>
    BY <1>8 DEF vars, senderVars, callerVars
  <2> QED
    BY <2>1, NothingMoves, CallsKept
<1> QED
  BY <1>1, <1>2, <1>3, <1>4, <1>5, <1>6, <1>7, <1>8 DEF Next, CallerStep

-----------------------------------------------------------------------------
(* What it gives.                                                          *)

SenderInv ==
  /\ TypeInv /\ QueueInv /\ HandshakeInv /\ SlotsPlain
  /\ HeldAtPut /\ IdsUnique /\ CallsIdentified /\ DecodeInv
  /\ FlowInv /\ OrderInv /\ CallInv

LEMMA SenderInvariant == Spec => []SenderInv
<1>1. Init => SenderInv
  BY TypeInit, QueueInit, HandshakeInit, DecodeInit, OrderInit DEF SenderInv
<1>2. SenderInv /\ [Next]_vars => SenderInv'
  <2> SUFFICES ASSUME SenderInv, [Next]_vars
               PROVE  SenderInv'
    OBVIOUS
  <2>1. TypeInv' /\ QueueInv' /\ HandshakeInv' /\ SlotsPlain'
    BY TypeStep, QueueStep, HandshakeStep DEF SenderInv
  <2>2. HeldAtPut' /\ IdsUnique' /\ CallsIdentified' /\ DecodeInv'
    BY HeldStep, CallsStep, DecodeStep DEF SenderInv
  <2>3. FlowInv'
    BY FlowStep DEF SenderInv
  <2>4. OrderInv' /\ CallInv'
    BY <2>3, OrderStep DEF SenderInv
  <2> QED
    BY <2>1, <2>2, <2>3, <2>4 DEF SenderInv
<1> QED
  BY <1>1, <1>2, PTL DEF Spec

\* What one thread hands over on one topic, any connection carries in the order in
\* which it was handed over, through queue, slots, batches and failing sends.
THEOREM TopicsInOrder == Spec => []TopicOrder
<1>1. SenderInv => TopicOrder
  <2> SUFFICES ASSUME SenderInv, NEW c \in Conns,
                      NEW i \in DOMAIN wire[c], NEW j \in DOMAIN wire[c], i < j,
                      wire[c][i].kind = "frame", wire[c][j].kind = "frame",
                      wire[c][i].topic = wire[c][j].topic,
                      SameCaller(wire[c][i], wire[c][j])
               PROVE  wire[c][i].call < wire[c][j].call
    BY DEF TopicOrder
  <2>1. InOrder(calls, wire[c])
    BY DEF SenderInv, OrderInv, Orderly
  <2>2. ~Late(calls, wire[c][i], wire[c][j])
    BY <2>1 DEF InOrder, Clash
  <2>3. wire[c][i] \in Items /\ wire[c][j] \in Items
    BY LenProperties, ElementOfSeq DEF SenderInv, TypeInv, TypeOK
  <2>4. wire[c][i].call \in Nat /\ wire[c][j].call \in Nat
    BY <2>3 DEF Items
  <2>5. ~(wire[c][j].call <= wire[c][i].call)
    BY <2>2 DEF Late, SameCaller
  <2> QED
    BY <2>4, <2>5
<1> QED
  BY <1>1, SenderInvariant, PTL

\* The map that a thread puts for a topic of the queue goes ahead of all that it
\* hands over on that topic.
THEOREM MapsGoFirst == Spec => []MapBeforePlain
<1>1. SenderInv => MapBeforePlain
  <2> SUFFICES ASSUME SenderInv, NEW c \in Conns,
                      NEW i \in DOMAIN wire[c], NEW j \in DOMAIN wire[c],
                      wire[c][i].kind = "topic_map", wire[c][j].kind = "frame",
                      wire[c][i].topic = wire[c][j].topic,
                      wire[c][i].topic \notin StreamTopics,
                      SameCaller(wire[c][i], wire[c][j])
               PROVE  i < j
    BY DEF MapBeforePlain
  <2>1. InOrder(calls, wire[c])
    BY DEF SenderInv, OrderInv, Orderly
  <2>2. Late(calls, wire[c][j], wire[c][i])
    BY DEF Late, SameCaller
  <2>3. ~(j < i)
    BY <2>1, <2>2 DEF InOrder, Clash
  <2>4. i # j
    OBVIOUS
  <2>5. i \in Nat /\ j \in Nat
    BY LenProperties DEF SenderInv, TypeInv, TypeOK
  <2> QED
    BY <2>3, <2>4, <2>5
<1> QED
  BY <1>1, SenderInvariant, PTL

\* No item goes twice over a connection, or over two.
THEOREM NothingSentTwice == Spec => []SentAtMostOnce
<1>1. SenderInv => SentAtMostOnce
  <2> SUFFICES ASSUME SenderInv, NEW c \in Conns, NEW d \in Conns,
                      NEW i \in DOMAIN wire[c], NEW j \in DOMAIN wire[d],
                      wire[c][i] = wire[d][j], i # 1
               PROVE  c = d /\ i = j
    BY DEF SentAtMostOnce
  <2>1. wire[c][i].kind # "handshake"
    BY HandshakeHolds DEF SenderInv, HandshakeFirst
  <2>2. wire[c][i] \in Own(c) /\ wire[c][i] \in Own(d)
    BY <2>1 DEF Own, Carried
  <2>3. c = d
    BY <2>2 DEF SenderInv, OrderInv
  <2>4. InOrder(calls, wire[c])
    BY DEF SenderInv, OrderInv, Orderly
  <2>5. ~(i < j) /\ ~(j < i)
    BY <2>1, <2>3, <2>4 DEF InOrder, Clash
  <2>6. i \in Nat /\ j \in Nat
    BY LenProperties DEF SenderInv, TypeInv, TypeOK
  <2> QED
    BY <2>3, <2>5, <2>6
<1> QED
  BY <1>1, SenderInvariant, PTL
=============================================================================
