--------------------------- MODULE ZeroCopyBuffer ---------------------------
(***************************************************************************)
(* The memory-mapped ring for large payloads (zero_copy.py). A writer puts *)
(* a payload into it and passes its offset and size on as a reference,     *)
(* which a reader follows some time later. Nothing tells the writer what   *)
(* has been read. In this version of the endpoint nothing calls it.        *)
(*                                                                         *)
(* A payload is named by the number of its write, which fills its bytes.   *)
(***************************************************************************)
EXTENDS Integers, Sequences, FiniteSetsExt

CONSTANTS
  BufferSize,   \* bytes of the buffer
  Threshold,    \* ZERO_COPY_THRESHOLD
  Sizes,        \* sizes of payloads
  MaxWrites     \* bound on the calls of write_message

ASSUME BufferAssumption ==
  /\ BufferSize \in Nat
  /\ Sizes \subseteq Nat \ {0}

VARIABLES
  enabled,
  write_offset,
  mem,        \* per byte of the buffer, the write it holds; 0 for none
  refs,       \* per write since initialize, what write_message returned
  guarded,    \* every write so far was one that can_use_zero_copy allowed
  asked       \* history: asked[i] bytes were to be written before write i

vars == <<enabled, write_offset, mem, refs, guarded, asked>>

Offsets == 0 .. BufferSize - 1
Blank   == [o \in Offsets |-> 0]

Init ==
  /\ enabled = FALSE
  /\ write_offset = 0
  /\ mem = Blank
  /\ refs = <<>>
  /\ guarded = TRUE
  /\ asked = <<0>>

-----------------------------------------------------------------------------
\* initialize maps a new file of zeros ...
Initialize ==
  /\ enabled' = TRUE
  /\ write_offset' = 0
  /\ mem' = Blank
  /\ refs' = <<>>
  /\ guarded' = TRUE
  /\ asked' = <<0>>

\* ... or fails, and leaves the rest as it is.
InitializeFails ==
  /\ enabled' = FALSE
  /\ UNCHANGED <<write_offset, mem, refs, guarded, asked>>

CloseBuffer ==
  /\ enabled' = FALSE
  /\ UNCHANGED <<write_offset, mem, refs, guarded, asked>>

\* Fault: the room that is left is not looked at.
CanUseLarge(size) == enabled /\ size >= Threshold

can_use_zero_copy(size) ==
  /\ enabled
  /\ size >= Threshold
  /\ write_offset + size <= BufferSize

\* Fault: the last byte of the buffer is one further.
FitsInclusive(size) == write_offset + size <= BufferSize + 1

Fits(size) == write_offset + size <= BufferSize

\* What write_message returns.
Reference(ok, offset, size) == [ok |-> ok, offset |-> offset, size |-> size]

\* Fault: the next payload begins where this one does.
AfterKept(offset, size) == offset

After(offset, size) == offset + size

\* The payload goes to write_offset, or to 0 if it does not fit there.
Write(size) ==
  LET offset == IF Fits(size) THEN write_offset ELSE 0 IN
  /\ enabled
  /\ Len(refs) < MaxWrites
  /\ size <= BufferSize
  /\ refs' = Append(refs, Reference(TRUE, offset, size))
  /\ mem' = [o \in Offsets |-> IF o >= offset /\ o < offset + size
                               THEN Len(refs') ELSE mem[o]]
  /\ write_offset' = After(offset, size)
  /\ guarded' = (guarded /\ can_use_zero_copy(size))
  /\ asked' = Append(asked, asked[Len(asked)] + size)
  /\ UNCHANGED enabled

\* A payload larger than the buffer is refused, after write_offset was reset.
WriteRefused(size) ==
  /\ enabled
  /\ Len(refs) < MaxWrites
  /\ size > BufferSize
  /\ refs' = Append(refs, Reference(FALSE, 0, 0))
  /\ write_offset' = 0
  /\ guarded' = FALSE
  /\ asked' = Append(asked, asked[Len(asked)] + size)
  /\ UNCHANGED <<enabled, mem>>

\* What read_message returns for a reference: the writes its bytes come from, or
\* nothing (None) when the buffer is not in use.
Read(r) ==
  {mem[o] : o \in {p \in r.offset .. r.offset + r.size - 1 :
                     enabled /\ r.offset + r.size <= BufferSize}}

Next ==
  \/ Initialize \/ InitializeFails \/ CloseBuffer
  \/ \E size \in Sizes : Write(size) \/ WriteRefused(size)

Spec == Init /\ [][Next]_vars

-----------------------------------------------------------------------------
(* Properties.                                                             *)

References ==
  [ok : {TRUE}, offset : Nat, size : Sizes] \cup {Reference(FALSE, 0, 0)}

\* Every byte written is inside of the buffer: the slice of the map that is
\* assigned to is as long as the payload.
TypeOK ==
  /\ enabled \in BOOLEAN
  /\ write_offset \in 0 .. BufferSize
  /\ mem \in [Offsets -> Nat]
  /\ refs \in Seq(References)
  /\ \A i \in DOMAIN refs : refs[i].ok => refs[i].offset + refs[i].size <= BufferSize
  /\ guarded \in BOOLEAN
  /\ asked \in [1 .. Len(refs) + 1 -> Nat]

Intact(i) == enabled => Read(refs[i]) = {i}

\* The bytes that writes i and later were called for.
BytesSince(i) == asked[Len(asked)] - asked[i]

LargestPayload == Max({s \in Sizes : s <= BufferSize})

\* A reader that lags does not notice when its payload is overwritten. It is safe
\* while the payloads since, its own included, leave room in the buffer for one of
\* the largest size, less a byte. A payload that was refused counts, for it moves
\* the write position too.
RecentIntact ==
  \A i \in DOMAIN refs :
    (refs[i].ok /\ BytesSince(i) <= BufferSize - LargestPayload + 1) => Intact(i)

\* A writer that asks can_use_zero_copy first never wraps, and so never overwrites
\* anything; once the buffer is full it gets no room any more.
GuardedIntact ==
  guarded => \A i \in DOMAIN refs : Intact(i)
=============================================================================
