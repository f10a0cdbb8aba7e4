----------------------------- MODULE WireFormat -----------------------------
(***************************************************************************)
(* Framing (client.py): how a destination and a message become bytes, and  *)
(* how ClientThread.read_message gets them back from a socket that returns *)
(* any number of bytes at a time. Both directions use the same two formats *)
(*                                                                         *)
(*     length of name (int32), name, length of data (uint32), data         *)
(*     -1 (int32), topic id (uint16), length of data (uint32), data        *)
(*                                                                         *)
(* and the first four bytes, a signed number, tell them apart. Bytes are   *)
(* the digits 0 .. Base - 1 and integers have IntBytes and IdBytes digits, *)
(* so that an instance with small ones has all cases of the real sizes.    *)
(***************************************************************************)
EXTENDS Integers, Sequences, FiniteSetsExt

CONSTANTS
  Base,        \* 256
  IntBytes,    \* 4
  IdBytes,     \* 2
  Names,       \* names of destinations, as bytes; a peer may pad them with 0, or
               \* announce a length that reads as a negative number
  Ids,         \* topic ids
  Payloads,    \* data, as bytes
  MaxMessages  \* bound on the messages sent

Bytes == 0 .. Base - 1

\* Base ^ n.
Power[n \in Nat] == IF n = 0 THEN 1 ELSE Base * Power[n - 1]

\* What the constants have to be.
ASSUME WireAssumption ==
  /\ Base \in Nat /\ Base > 1
  /\ IntBytes \in Nat \ {0} /\ IdBytes \in Nat \ {0}
  /\ Ids \subseteq 0 .. Power[IdBytes] - 1
  /\ \A n \in Names : n \in Seq(Bytes) /\ Len(n) < Power[IntBytes] - 1
  /\ \A p \in Payloads : p \in Seq(Bytes) /\ Len(p) < Power[IntBytes]
  /\ MaxMessages \in Nat

VARIABLES
  sent,     \* the messages sent, in order
  stream,   \* the bytes on their way
  open,     \* the peer has not closed the connection
  step,     \* where read_message is: the field it reads
  want,     \* the size recvall was asked for
  buffer,   \* what recvall has got of it
  message,  \* the parts of the message read so far
  handled   \* the messages read_message returned, in order

readVars == <<step, want, buffer, message>>
wireVars == <<sent, stream, open, readVars, handled>>

-----------------------------------------------------------------------------
(* struct.pack and unpack, little-endian.                                  *)

Pack(v, n) == [i \in 1 .. n |-> (v \div Power[i - 1]) % Base]

Unsigned(b) ==
  LET value[i \in 0 .. Len(b)] ==
        IF i = 0 THEN 0 ELSE value[i - 1] + b[i] * Power[i - 1]
  IN  value[Len(b)]

Signed(b) ==
  LET limit == Power[Len(b)]
  IN  IF 2 * Unsigned(b) < limit THEN Unsigned(b) ELSE Unsigned(b) - limit

\* destination.rstrip("\x00")
Strip(b) == SubSeq(b, 1, Max({0} \cup {i \in DOMAIN b : b[i] # 0}))

(* A message, and what read_message makes of its destination: a name, or a *)
(* name made up from the id.                                               *)

Named(n, data) == [format |-> "name", name |-> n, id |-> 0, data |-> data]
ById(id, data) == [format |-> "id", name |-> <<>>, id |-> id, data |-> data]

Messages == {Named(n, d) : n \in Names, d \in Payloads} \cup
            {ById(i, d) : i \in Ids, d \in Payloads}

Received(m) == [m EXCEPT !.name = Strip(@)]

\* serialize_message and serialize_command; serialize_message_with_topic_id.
Serialize(m) ==
  (IF m.format = "name" THEN Pack(Len(m.name), IntBytes) \o m.name
                        ELSE Pack(-1, IntBytes) \o Pack(m.id, IdBytes))
  \o Pack(Len(m.data), IntBytes) \o m.data

NoMessage == Named(<<>>, <<>>)

\* The length of its name reads as a negative number.
Refused(m) == m.format = "name" /\ 2 * Len(m.name) >= Power[IntBytes]

WireInit ==
  /\ sent = <<>>
  /\ stream = <<>>
  /\ open = TRUE
  /\ step = "first"
  /\ want = IntBytes
  /\ buffer = <<>>
  /\ message = NoMessage
  /\ handled = <<>>

-----------------------------------------------------------------------------
(* The peer.                                                               *)

Send(m) ==
  /\ open
  /\ Len(sent) < MaxMessages
  /\ sent' = Append(sent, m)
  /\ stream' = stream \o Serialize(m)
  /\ UNCHANGED <<open, readVars, handled>>

\* The connection ends, and with it some of the bytes still on their way.
Close ==
  /\ open
  /\ open' = FALSE
  /\ \E n \in 0 .. Len(stream) : stream' = SubSeq(stream, 1, n)
  /\ UNCHANGED <<sent, readVars, handled>>

-----------------------------------------------------------------------------
(* The client thread: read_message, called in a loop by run.               *)

\* recv_into returns as many bytes as it likes of what is there.
Receive ==
  /\ step # "ended"
  /\ Len(buffer) < want
  /\ \E n \in 1 .. Len(stream) :
       /\ n <= want - Len(buffer)
       /\ buffer' = buffer \o SubSeq(stream, 1, n)
       /\ stream' = SubSeq(stream, n + 1, Len(stream))
  /\ UNCHANGED <<sent, open, step, want, message, handled>>

\* Fault: recvall asks again.
ReceiveForever == Len(buffer) < want /\ stream = <<>> /\ ~open /\ UNCHANGED wireVars

\* It returns 0: recvall raises an IOError, which ends the thread.
ReceiveEnds ==
  /\ Len(buffer) < want
  /\ stream = <<>>
  /\ ~open
  /\ step # "ended"
  /\ step' = "ended"
  /\ UNCHANGED <<sent, stream, open, want, buffer, message, handled>>

\* Fault: recvall returns after the first recv_into.
GotAny == buffer # <<>> \/ want = 0

\* recvall returns once it has got all of the field.
Got == Len(buffer) = want

\* recvall is called for the next field.
ReadNext(field, size) ==
  /\ step' = field
  /\ want' = size
  /\ buffer' = <<>>
  /\ UNCHANGED <<sent, stream, open, handled>>

\* Fault: the marker read as an unsigned number is no marker.
IsMarkerUnsigned(b) == Unsigned(b) = -1

IsMarker(b) == Signed(b) = -1

ReadMarker ==
  /\ step = "first" /\ Got
  /\ IsMarker(buffer)
  /\ message' = [NoMessage EXCEPT !.format = "id"]
  /\ ReadNext("id", IdBytes)

\* bytearray(size) raises a ValueError, which ends the thread.
LengthRaises ==
  /\ step = "first" /\ Got
  /\ ~IsMarker(buffer) /\ Signed(buffer) < 0
  /\ step' = "ended"
  /\ UNCHANGED <<sent, stream, open, want, buffer, message, handled>>

ReadLength ==
  /\ step = "first" /\ Got
  /\ ~IsMarker(buffer) /\ Signed(buffer) >= 0
  /\ message' = NoMessage
  /\ ReadNext("name", Signed(buffer))

ReadId ==
  /\ step = "id" /\ Got
  /\ message' = [message EXCEPT !.id = Unsigned(buffer)]
  /\ ReadNext("size", IntBytes)

ReadName ==
  /\ step = "name" /\ Got
  /\ message' = [message EXCEPT !.name = Strip(buffer)]
  /\ ReadNext("size", IntBytes)

\* Fault: the size of the data is read as a signed number.
DataSizeSigned(b) == Signed(b)

DataSize(b) == Unsigned(b)

ReadSize ==
  /\ step = "size" /\ Got
  /\ ReadNext("data", DataSize(buffer))
  /\ UNCHANGED message

\* read_message returns. A message in topic-id format gets the destination
\* "__topicid_N", which run takes for a system command unless a service message is
\* pending. SysCommands has no such attribute, and the AttributeError ends the
\* thread.
ReadData ==
  /\ step = "data" /\ Got
  /\ handled' = Append(handled, [message EXCEPT !.data = buffer])
  /\ step' = IF message.format = "id" THEN "ended" ELSE "first"
  /\ want' = IntBytes
  /\ buffer' = <<>>
  /\ message' = NoMessage
  /\ UNCHANGED <<sent, stream, open>>
-----------------------------------------------------------------------------
ReadStep ==
  \/ Receive
  \/ ReceiveEnds
  \/ ReadMarker
  \/ LengthRaises
  \/ ReadLength
  \/ ReadId
  \/ ReadName
  \/ ReadSize
  \/ ReadData

WireNext == (\E m \in Messages : Send(m)) \/ Close \/ ReadStep

WireSpec == WireInit /\ [][WireNext]_wireVars

-----------------------------------------------------------------------------
(* Properties.                                                             *)

Parsed == [format : {"name", "id"}, name : Seq(Bytes), id : 0 .. Power[IdBytes] - 1,
           data : Seq(Bytes)]

WireTypeOK ==
  /\ sent \in Seq(Messages)
  /\ stream \in Seq(Bytes)
  /\ open \in BOOLEAN
  /\ step \in {"first", "id", "name", "size", "data", "ended"}
  /\ want \in Nat
  /\ buffer \in Seq(Bytes) /\ Len(buffer) <= want
  /\ message \in Parsed
  /\ handled \in Seq(Parsed)

\* However the bytes arrive, what read_message returns is what was sent, message
\* by message, in both formats and whatever bytes the data holds; a message cut off
\* by the end of the connection, or one whose length reads as negative, is not
\* returned, nor is anything that follows it.
FramingExact ==
  /\ Len(handled) <= Len(sent)
  /\ \A i \in DOMAIN handled : handled[i] = Received(sent[i])

\* Every message sent is read while the connection stays, up to one in topic-id
\* format or one whose length reads as negative: these end the thread.
EveryMessageRead ==
  \A i \in 1 .. MaxMessages :
    (/\ Len(sent) >= i
     /\ \A j \in 1 .. i : ~Refused(sent[j])
     /\ \A j \in 1 .. i - 1 : sent[j].format # "id") ~> (Len(handled) >= i \/ ~open)

\* The thread ends after the connection does, wherever in a message that was.
EndIsSeen == ~open ~> step = "ended"
=============================================================================
