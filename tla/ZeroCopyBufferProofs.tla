------------------------ MODULE ZeroCopyBufferProofs ------------------------
(* Theorems about ZeroCopyBuffer, for any size of the buffer, any threshold *)
(* and any sizes of payloads.                                               *)
EXTENDS ZeroCopyBuffer, SequenceTheorems, WellFoundedInduction, TLAPS

-----------------------------------------------------------------------------
(* Types.                                                                  *)

\* The history grows with the references, one place ahead of them.
LEMMA AskedGrows ==
  ASSUME TypeOK, NEW size \in Nat, NEW ref \in References,
         asked' = Append(asked, asked[Len(asked)] + size), refs' = Append(refs, ref)
  PROVE  /\ asked' \in [1 .. Len(refs') + 1 -> Nat]
         /\ Len(asked) = Len(refs) + 1 /\ Len(asked') = Len(refs) + 2
         /\ Len(refs) \in Nat /\ asked[Len(asked)] \in Nat
         /\ \A i \in 1 .. Len(refs) + 1 : asked'[i] = asked[i] /\ asked[i] \in Nat
         /\ asked'[Len(refs) + 2] = asked[Len(asked)] + size
<1>1. /\ refs \in Seq(References) /\ Len(refs) \in Nat /\ Len(refs') = Len(refs) + 1
      /\ asked \in [1 .. Len(refs) + 1 -> Nat]
  BY AppendProperties DEF TypeOK
<1>2. asked \in Seq(Nat) /\ Len(asked) = Len(refs) + 1
  <2> DEFINE n == Len(refs) + 1
  <2>1. n \in Nat /\ asked \in [1 .. n -> Nat]
    BY <1>1
  <2> HIDE DEF n
  <2>2. asked \in Seq(Nat) /\ Len(asked) = n
    BY <2>1
  <2> QED
    BY <2>2 DEF n
<1>3. asked[Len(asked)] \in Nat /\ asked[Len(asked)] + size \in Nat
  BY <1>1, <1>2
<1>4. /\ asked' \in Seq(Nat) /\ Len(asked') = Len(refs) + 2
      /\ \A i \in 1 .. Len(refs) + 1 : asked'[i] = asked[i]
      /\ asked'[Len(refs) + 2] = asked[Len(asked)] + size
  BY <1>1, <1>2, <1>3, AppendProperties
<1>5. asked' \in [1 .. Len(refs') + 1 -> Nat]
  <2>1. asked' \in [1 .. Len(asked') -> Nat]
    BY <1>4, LenProperties
  <2>2. Len(asked') = Len(refs') + 1
    BY <1>1, <1>4
  <2> QED
    BY <2>1, <2>2
<1> QED
  BY <1>1, <1>2, <1>3, <1>4, <1>5

LEMMA ReferenceType ==
  ASSUME NEW r \in References
  PROVE  /\ r.ok \in BOOLEAN /\ r.offset \in Nat /\ r.size \in Nat
         /\ r.ok => r.size \in Sizes /\ r.size > 0
<1>1. CASE r = Reference(FALSE, 0, 0)
  BY <1>1 DEF Reference
<1>2. CASE r \in [ok : {TRUE}, offset : Nat, size : Sizes]
  <2>1. r.ok \in BOOLEAN /\ r.offset \in Nat /\ r.size \in Sizes
    BY <1>2
  <2>2. r.size \in Nat /\ r.size > 0
    <3>1. r.size \in Nat \ {0}
      BY <2>1, BufferAssumption, Zenon
    <3> QED
      BY <3>1
  <2> QED
    BY <2>1, <2>2, Zenon
<1> QED
  BY <1>1, <1>2 DEF References

LEMMA TypeStep ==
  ASSUME TypeOK, [Next]_vars
  PROVE  TypeOK'
<1> USE DEF TypeOK
<1>1. CASE Initialize
  <2>1. mem' \in [Offsets -> Nat]
    BY <1>1 DEF Initialize, Blank
  <2>2. refs' \in Seq(References) /\ DOMAIN refs' = {}
    BY <1>1 DEF Initialize
  <2>3. enabled' \in BOOLEAN /\ guarded' \in BOOLEAN /\ write_offset' \in 0 .. BufferSize
    BY BufferAssumption, <1>1 DEF Initialize
  <2>4. asked' \in [1 .. Len(refs') + 1 -> Nat]
    BY <1>1 DEF Initialize
  <2> QED
    BY <2>1, <2>2, <2>3, <2>4
<1>2. CASE InitializeFails \/ CloseBuffer \/ UNCHANGED vars
  BY <1>2 DEF InitializeFails, CloseBuffer, vars
<1>3. ASSUME NEW size \in Sizes, Write(size)
      PROVE  TypeOK'
  <2> DEFINE offset == IF Fits(size) THEN write_offset ELSE 0
             ref    == Reference(TRUE, offset, size)
  <2>1. size \in Nat /\ offset \in Nat /\ offset + size <= BufferSize
    BY BufferAssumption, <1>3 DEF Write, Fits
  <2>2. ref \in References /\ ref.offset + ref.size <= BufferSize
    BY <2>1 DEF Reference, References
  <2>3. /\ refs' = Append(refs, ref)
        /\ mem' = [o \in Offsets |-> IF o >= offset /\ o < offset + size
                                     THEN Len(refs') ELSE mem[o]]
        /\ write_offset' = offset + size
        /\ guarded' = (guarded /\ can_use_zero_copy(size))
        /\ enabled' = enabled
        /\ asked' = Append(asked, asked[Len(asked)] + size)
    BY <1>3 DEF Write, After
  <2> HIDE DEF ref, offset
  <2>4. /\ refs' \in Seq(References)
        /\ \A i \in DOMAIN refs' :
             refs'[i].ok => refs'[i].offset + refs'[i].size <= BufferSize
    BY <2>2, <2>3
  <2>5. mem' \in [Offsets -> Nat]
    BY <2>3, <2>4
  <2>6. write_offset' \in 0 .. BufferSize
    BY BufferAssumption, <2>1, <2>3
  <2>7. guarded' \in BOOLEAN
    BY <2>3 DEF can_use_zero_copy
  <2>8. asked' \in [1 .. Len(refs') + 1 -> Nat]
    BY <2>1, <2>2, <2>3, AskedGrows
  <2> QED
    BY <2>3, <2>4, <2>5, <2>6, <2>7, <2>8
<1>4. ASSUME NEW size \in Sizes, WriteRefused(size)
      PROVE  TypeOK'
  <2> DEFINE ref == Reference(FALSE, 0, 0)
  <2>1. ref \in References /\ ~ref.ok
    BY DEF Reference, References
  <2>2. /\ refs' = Append(refs, ref)
        /\ write_offset' = 0 /\ guarded' = FALSE
        /\ enabled' = enabled /\ mem' = mem
        /\ asked' = Append(asked, asked[Len(asked)] + size)
    BY <1>4 DEF WriteRefused
  <2> HIDE DEF ref
  <2>3. /\ refs' \in Seq(References)
        /\ \A i \in DOMAIN refs' :
             refs'[i].ok => refs'[i].offset + refs'[i].size <= BufferSize
    BY <2>1, <2>2
  <2>4. write_offset' \in 0 .. BufferSize
    BY BufferAssumption, <2>2
  <2>5. enabled' \in BOOLEAN /\ guarded' \in BOOLEAN
    BY <2>2
  <2>6. asked' \in [1 .. Len(refs') + 1 -> Nat]
    BY BufferAssumption, <2>1, <2>2, AskedGrows
  <2> QED
    BY <2>2, <2>3, <2>4, <2>5, <2>6
<1> QED
  BY <1>1, <1>2, <1>3, <1>4 DEF Next

\* Every byte written is inside of the buffer, wherever the ring wraps and however
\* often the buffer is closed and initialized anew.
THEOREM TypeCorrect == Spec => []TypeOK
<1>1. Init => TypeOK
  <2> SUFFICES ASSUME Init PROVE TypeOK
    OBVIOUS
  <2>1. mem \in [Offsets -> Nat]
    BY DEF Init, Blank
  <2>2. refs \in Seq(References) /\ DOMAIN refs = {}
    BY DEF Init
  <2>3. enabled \in BOOLEAN /\ guarded \in BOOLEAN
    BY DEF Init
  <2>4. write_offset \in 0 .. BufferSize
    BY BufferAssumption DEF Init
  <2>5. asked \in [1 .. Len(refs) + 1 -> Nat]
    BY DEF Init
  <2> QED
    BY <2>1, <2>2, <2>3, <2>4, <2>5 DEF TypeOK
<1>2. TypeOK /\ [Next]_vars => TypeOK'
  BY TypeStep
<1> QED
  BY <1>1, <1>2, PTL DEF Spec

-----------------------------------------------------------------------------
(* While every write was allowed, the payloads lie one after the other below *)
(* write_offset, and the next one goes above them.                           *)

Covers(r, o) == o >= r.offset /\ o < r.offset + r.size

LaidOut ==
  guarded => \A i \in DOMAIN refs :
    /\ refs[i].size > 0
    /\ refs[i].offset + refs[i].size <= write_offset
    /\ \A o \in Offsets : Covers(refs[i], o) => mem[o] = i

LEMMA LaidOutStep ==
  ASSUME TypeOK, LaidOut, [Next]_vars
  PROVE  LaidOut'
<1>1. CASE Initialize
  BY <1>1 DEF Initialize, LaidOut
<1>2. CASE InitializeFails \/ CloseBuffer \/ UNCHANGED vars
  BY <1>2 DEF InitializeFails, CloseBuffer, vars, LaidOut, Covers
<1>3. ASSUME NEW size \in Sizes, Write(size)
      PROVE  LaidOut'
  <2> DEFINE ref == Reference(TRUE, write_offset, size)
  <2> SUFFICES ASSUME guarded', NEW i \in DOMAIN refs'
               PROVE  /\ refs'[i].size > 0
                      /\ refs'[i].offset + refs'[i].size <= write_offset'
                      /\ \A o \in Offsets : Covers(refs'[i], o) => mem'[o] = i
    BY DEF LaidOut, Covers
  <2>1. guarded /\ Fits(size)
    BY <1>3 DEF Write, can_use_zero_copy, Fits
  <2>2. /\ refs' = Append(refs, ref)
        /\ mem' = [o \in Offsets |->
                     IF o >= write_offset /\ o < write_offset + size
                     THEN Len(refs') ELSE mem[o]]
        /\ write_offset' = write_offset + size
    BY <1>3, <2>1 DEF Write, After
  <2>3. size \in Nat /\ size > 0 /\ write_offset \in Nat /\ refs \in Seq(References)
    BY BufferAssumption DEF TypeOK
  <2>4. ref.offset = write_offset /\ ref.size = size
    BY DEF Reference
  <2> HIDE DEF ref
  <2>5. CASE i = Len(refs) + 1
    <3>1. refs'[i] = ref /\ Len(refs') = i
      BY <2>2, <2>3, <2>5
    <3> QED
      BY <3>1, <2>2, <2>3, <2>4 DEF Covers, Offsets
  <2>6. CASE i \in DOMAIN refs
    <3>1. refs'[i] = refs[i] /\ refs[i] \in References
      BY <2>2, <2>3, <2>6
    <3>2. /\ refs[i].size > 0
          /\ refs[i].offset + refs[i].size <= write_offset
          /\ \A o \in Offsets : Covers(refs[i], o) => mem[o] = i
      BY <2>1, <2>6 DEF LaidOut
    <3> QED
      BY <3>1, <3>2, <2>2, <2>3, ReferenceType DEF Covers, Offsets
  <2> QED
    BY <2>2, <2>3, <2>5, <2>6
<1>4. ASSUME NEW size \in Sizes, WriteRefused(size)
      PROVE  LaidOut'
  BY <1>4 DEF WriteRefused, LaidOut
<1> QED
  BY <1>1, <1>2, <1>3, <1>4 DEF Next

\* A reference whose bytes are all of its payload leads to that payload.
LEMMA ReadsBack ==
  ASSUME TypeOK, NEW i \in DOMAIN refs, refs[i].size > 0,
         refs[i].offset + refs[i].size <= BufferSize,
         \A o \in Offsets : Covers(refs[i], o) => mem[o] = i
  PROVE  Intact(i)
<1> SUFFICES ASSUME enabled
             PROVE  Read(refs[i]) = {i}
  BY DEF Intact
<1>1. refs[i].offset \in Nat /\ refs[i].size \in Nat /\ BufferSize \in Nat
  BY BufferAssumption, ReferenceType DEF TypeOK
<1> DEFINE slice == refs[i].offset .. refs[i].offset + refs[i].size - 1
<1>2. refs[i].offset \in slice
  BY <1>1
<1>3. \A o \in slice : mem[o] = i
  BY <1>1 DEF Covers, Offsets
<1> HIDE DEF slice
<1>4. Read(refs[i]) = {mem[o] : o \in slice}
  BY DEF Read, slice
<1> QED
  BY <1>2, <1>3, <1>4

\* A writer that asks can_use_zero_copy before each write never overwrites what a
\* reader may still be told to read, however far the reader lags.
THEOREM GuardedWritesStay == Spec => []GuardedIntact
<1>1. Init => LaidOut
  BY DEF Init, LaidOut
<1>2. TypeOK /\ LaidOut /\ [Next]_vars => LaidOut'
  BY LaidOutStep
<1>3. TypeOK /\ LaidOut => GuardedIntact
  <2> SUFFICES ASSUME TypeOK, LaidOut, guarded, NEW i \in DOMAIN refs
               PROVE  Intact(i)
    BY DEF GuardedIntact
  <2>1. /\ refs[i].size > 0
        /\ refs[i].offset + refs[i].size <= write_offset
        /\ \A o \in Offsets : Covers(refs[i], o) => mem[o] = i
    BY DEF LaidOut
  <2>2. refs[i].offset + refs[i].size <= BufferSize
    BY <2>1, BufferAssumption, ReferenceType DEF TypeOK
  <2> QED
    BY <2>1, <2>2, ReadsBack
<1>4. Spec => []TypeOK
  BY TypeCorrect
<1> QED
  BY <1>1, <1>2, <1>3, <1>4, PTL DEF Spec

-----------------------------------------------------------------------------
(* A writer that asks nobody. While no more is written than Room, counted   *)
(* from a payload on, the write position is where that payload ends and the *)
(* later ones do, or it has wrapped and stays below the payload.            *)

Room == BufferSize - LargestPayload + 1

Reached(i) ==
  \/ write_offset = refs[i].offset + BytesSince(i)
  \/ /\ write_offset <= refs[i].offset
     /\ BytesSince(i) + refs[i].offset - write_offset >= Room

RecentInv ==
  \A i \in DOMAIN refs : (refs[i].ok /\ BytesSince(i) <= Room) =>
    /\ BytesSince(i) >= refs[i].size
    /\ \A o \in Offsets : Covers(refs[i], o) => mem[o] = i
    /\ Reached(i)

\* Of the payloads that fit into the buffer one is the largest.
LEMMA LargestExists ==
  ASSUME NEW size \in Sizes, size <= BufferSize
  PROVE  LargestPayload \in 1 .. BufferSize /\ size <= LargestPayload
<1> DEFINE S == {s \in Sizes : s <= BufferSize}
           D == {n \in Nat : BufferSize - n \in S}
<1>1. /\ BufferSize \in Nat /\ size \in S
      /\ \A s \in S : s \in Nat /\ s >= 1 /\ s <= BufferSize
  <2>1. \A s \in Sizes : s \in Nat /\ s >= 1
    BY BufferAssumption
  <2> QED
    BY <2>1, BufferAssumption
<1> HIDE DEF S
<1>2. BufferSize - size \in D
  BY <1>1
<1>3. PICK x \in D : \A y \in D : <<y, x>> \notin OpToRel(<, Nat)
  <2>1. D \in SUBSET Nat /\ D # {}
    BY <1>2
  <2> HIDE DEF D
  <2> QED
    BY <2>1, NatLessThanWellFounded, WFMin, Zenon
<1>4. \A y \in D : ~(y < x)
  BY <1>3, Zenon DEF OpToRel
<1>5. BufferSize - x \in S /\ \A s \in S : BufferSize - x >= s
  <2> SUFFICES ASSUME NEW s \in S PROVE BufferSize - x >= s
    BY <1>3
  <2>1. BufferSize - s \in Nat /\ BufferSize - (BufferSize - s) = s
    BY <1>1
  <2>2. BufferSize - s \in D
    BY <2>1
  <2> QED
    BY <1>1, <1>4, <2>1, <2>2
<1>6. LargestPayload \in S /\ \A s \in S : LargestPayload >= s
  <2>1. LargestPayload = Max(S)
    BY DEF LargestPayload, S
  <2> QED
    BY <1>5, <2>1 DEF Max
<1> QED
  BY <1>1, <1>6

\* What is written counts for every payload from its own on.
LEMMA BytesGrow ==
  ASSUME TypeOK, NEW size \in Nat, NEW ref \in References,
         asked' = Append(asked, asked[Len(asked)] + size), refs' = Append(refs, ref),
         NEW i \in 1 .. Len(refs) + 1
  PROVE  IF i = Len(refs) + 1
         THEN BytesSince(i)' = size
         ELSE BytesSince(i) \in Int /\ BytesSince(i)' = BytesSince(i) + size
<1>1. /\ Len(asked) = Len(refs) + 1 /\ Len(asked') = Len(refs) + 2
      /\ Len(refs) \in Nat /\ asked[Len(asked)] \in Nat
      /\ asked'[i] = asked[i] /\ asked[i] \in Nat
      /\ asked'[Len(refs) + 2] = asked[Len(asked)] + size
  BY AskedGrows
<1> QED
  BY <1>1 DEF BytesSince

LEMMA RecentStep ==
  ASSUME TypeOK, RecentInv, [Next]_vars
  PROVE  RecentInv'
<1>1. CASE Initialize
  BY <1>1 DEF Initialize, RecentInv
<1>2. CASE InitializeFails \/ CloseBuffer \/ UNCHANGED vars
  BY <1>2 DEF InitializeFails, CloseBuffer, vars, RecentInv, Reached, BytesSince, Covers
<1>3. ASSUME NEW size \in Sizes, Write(size)
      PROVE  RecentInv'
  <2> DEFINE offset == IF Fits(size) THEN write_offset ELSE 0
             ref    == Reference(TRUE, offset, size)
             n      == Len(refs) + 1
  <2>1. /\ size \in Nat /\ size > 0 /\ size <= BufferSize /\ BufferSize \in Nat
        /\ offset \in Nat /\ offset + size <= BufferSize /\ write_offset \in 0 .. BufferSize
    BY BufferAssumption, <1>3 DEF Write, Fits, TypeOK
  <2>2. /\ refs' = Append(refs, ref) /\ write_offset' = offset + size
        /\ mem' = [o \in Offsets |-> IF o >= offset /\ o < offset + size
                                     THEN Len(refs') ELSE mem[o]]
        /\ asked' = Append(asked, asked[Len(asked)] + size)
    BY <1>3 DEF Write, After
  <2>3. /\ ref \in References /\ refs \in Seq(References) /\ n \in Nat
        /\ ref.ok /\ ref.offset = offset /\ ref.size = size
    BY <2>1 DEF Reference, References, TypeOK
  <2>4. offset = write_offset \/ (offset = 0 /\ write_offset + size > BufferSize)
    BY <2>1 DEF Fits
  <2> HIDE DEF ref, offset
  <2>5. /\ DOMAIN refs' = 1 .. n /\ DOMAIN refs = 1 .. n - 1 /\ Len(refs') = n
        /\ \A i \in 1 .. n - 1 : refs'[i] = refs[i] /\ refs[i] \in References
        /\ refs'[n] = ref
    BY <2>2, <2>3, AppendProperties
  <2>6. \A i \in 1 .. n : IF i = n THEN BytesSince(i)' = size
                         ELSE BytesSince(i) \in Int /\ BytesSince(i)' = BytesSince(i) + size
    BY <2>1, <2>2, <2>3, BytesGrow
  <2>7. Room' = Room /\ Room \in Int /\ size <= LargestPayload
        /\ LargestPayload \in Int /\ Room = BufferSize - LargestPayload + 1
    BY <2>1, LargestExists DEF Room
  <2> HIDE DEF n
  <2> SUFFICES ASSUME NEW i \in 1 .. n, refs'[i].ok, BytesSince(i)' <= Room
               PROVE  /\ BytesSince(i)' >= refs'[i].size
                      /\ \A o \in Offsets : Covers(refs'[i], o) => mem'[o] = i
                      /\ Reached(i)'
    BY <2>5, <2>7 DEF RecentInv, Covers
  <2>8. CASE i = n
    <3>1. Reached(i)'
      BY <2>2, <2>3, <2>5, <2>6, <2>8 DEF Reached
    <3>2. \A o \in Offsets : Covers(ref, o) => mem'[o] = i
      BY <2>2, <2>3, <2>5, <2>8 DEF Covers
    <3> QED
      BY <2>1, <2>3, <2>5, <2>6, <2>8, <3>1, <3>2
  <2>9. CASE i \in 1 .. n - 1
    <3> DEFINE a == refs[i].offset
               b == BytesSince(i)
               s == refs[i].size
    <3>1. refs'[i] = refs[i] /\ a \in Nat /\ s \in Nat /\ s > 0
      BY <2>5, <2>9, ReferenceType
    <3>2. b \in Int /\ BytesSince(i)' = b + size
      BY <2>6, <2>9
    <3>3. /\ b >= s
          /\ \A o \in Offsets : Covers(refs[i], o) => mem[o] = i
          /\ Reached(i)
      BY <2>1, <2>5, <2>7, <2>9, <3>1, <3>2 DEF RecentInv
    <3>4. a + s <= BufferSize
      BY <2>5, <2>9, <3>1 DEF TypeOK
    <3>5. \/ write_offset = a + b
          \/ write_offset <= a /\ b + a - write_offset >= Room
      BY <3>3 DEF Reached
    <3> HIDE DEF a, b, s
    <3>6. /\ offset >= a + s \/ offset + size <= a
          /\ \/ offset + size = a + (b + size)
             \/ offset + size <= a /\ (b + size) + a - (offset + size) >= Room
      <4>1. CASE offset = write_offset
        BY <2>1, <2>7, <3>1, <3>2, <3>3, <3>5, <4>1
      <4>2. CASE offset = 0 /\ write_offset + size > BufferSize
        BY <2>1, <2>7, <3>1, <3>2, <3>3, <3>4, <3>5, <4>2
      <4> QED
        BY <2>4, <4>1, <4>2
    <3>7. Reached(i)'
      BY <2>2, <2>7, <3>1, <3>2, <3>6 DEF Reached, a
    <3>8. ASSUME NEW o \in Offsets, Covers(refs[i], o)
          PROVE  mem'[o] = i
      <4>1. o >= a /\ o < a + s /\ o \in Int
        BY <3>8 DEF Covers, a, s, Offsets
      <4>2. ~(o >= offset /\ o < offset + size)
        BY <2>1, <3>1, <3>6, <4>1
      <4> QED
        BY <2>2, <3>3, <3>8, <4>2
    <3> QED
      BY <2>1, <3>1, <3>2, <3>3, <3>7, <3>8 DEF s
  <2> QED
    BY <2>3, <2>8, <2>9 DEF n
<1>4. ASSUME NEW size \in Sizes, WriteRefused(size)
      PROVE  RecentInv'
  <2> DEFINE ref == Reference(FALSE, 0, 0)
             n   == Len(refs) + 1
  <2>1. /\ refs' = Append(refs, ref)
        /\ asked' = Append(asked, asked[Len(asked)] + size)
        /\ size \in Nat /\ size > BufferSize /\ BufferSize \in Nat
    BY BufferAssumption, <1>4 DEF WriteRefused
  <2>2. ref \in References /\ ~ref.ok /\ refs \in Seq(References) /\ n \in Nat
    BY DEF Reference, References, TypeOK
  <2> HIDE DEF ref
  <2>3. /\ DOMAIN refs' = 1 .. n /\ DOMAIN refs = 1 .. n - 1
        /\ \A i \in 1 .. n - 1 : refs'[i] = refs[i] /\ refs[i] \in References
        /\ refs'[n] = ref
    BY <2>1, <2>2, AppendProperties
  <2>4. \A i \in 1 .. n - 1 : BytesSince(i) \in Int /\ BytesSince(i)' = BytesSince(i) + size
    BY <2>1, <2>2, BytesGrow
  <2> SUFFICES ASSUME NEW i \in DOMAIN refs', refs'[i].ok, BytesSince(i)' <= Room'
               PROVE  FALSE
    BY DEF RecentInv
  <2>5. i \in 1 .. n - 1 /\ refs[i].ok /\ refs[i] \in References /\ Room' = Room
    BY <2>2, <2>3 DEF Room
  <2>6. refs[i].size \in Sizes /\ refs[i].size <= BufferSize /\ refs[i].size \in Nat \ {0}
    BY BufferAssumption, <2>1, <2>3, <2>5, ReferenceType DEF TypeOK
  <2>7. BytesSince(i) \in Int /\ BytesSince(i) + size <= Room
    BY <2>4, <2>5
  <2>8. CASE LargestPayload \in 1 .. BufferSize
    <3>1. Room <= BufferSize /\ Room \in Int
      BY <2>1, <2>8 DEF Room
    <3>2. BytesSince(i) >= refs[i].size
      BY <2>1, <2>3, <2>5, <2>7, <3>1 DEF RecentInv
    <3> QED
      BY <2>1, <2>6, <2>7, <3>1, <3>2
  <2> QED
    BY <2>6, <2>8, LargestExists
<1> QED
  BY <1>1, <1>2, <1>3, <1>4 DEF Next

\* A reader that lags is safe while no more than Room was written since, though nobody
\* asks can_use_zero_copy and the ring wraps, for any sizes of payloads and buffer.
THEOREM RecentWritesStay == Spec => []RecentIntact
<1>1. Init => RecentInv
  BY DEF Init, RecentInv
<1>2. TypeOK /\ RecentInv /\ [Next]_vars => RecentInv'
  BY RecentStep
<1>3. TypeOK /\ RecentInv => RecentIntact
  <2> SUFFICES ASSUME TypeOK, RecentInv, NEW i \in DOMAIN refs, refs[i].ok,
                      BytesSince(i) <= Room
               PROVE  Intact(i)
    BY DEF RecentIntact, Room
  <2>1. \A o \in Offsets : Covers(refs[i], o) => mem[o] = i
    BY DEF RecentInv
  <2>2. refs[i].size > 0 /\ refs[i].offset + refs[i].size <= BufferSize
    BY ReferenceType DEF TypeOK
  <2> QED
    BY <2>1, <2>2, ReadsBack
<1>4. Spec => []TypeOK
  BY TypeCorrect
<1> QED
  BY <1>1, <1>2, <1>3, <1>4, PTL DEF Spec
=============================================================================
