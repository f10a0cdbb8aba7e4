------------------------------- MODULE MCBytes -------------------------------
(* The two modules about bytes on small instances: ZeroCopyBuffer, and      *)
(* WireFormat with bytes of two bits and integers of two bytes. The program *)
(* does not connect them, and in a behaviour here only one of them moves.   *)
EXTENDS WireFormat, ZeroCopyBuffer

\* A keepalive, a topic, the topic padded, and the shortest name whose length reads
\* as a negative number.
MCNames == {<<>>, <<2>>, <<2, 0>>, <<2, 2, 2, 2, 2, 2, 2, 2>>}

\* No data; data that looks like a marker; and the shortest whose length would be
\* negative if it were read as a signed number, as a name's is.
MCPayloads == {<<>>, <<3, 3>>, <<1, 1, 1, 1, 1, 1, 1, 0>>}

VARIABLE moves

bytesVars == <<moves, vars, wireVars>>

BytesInit == Init /\ WireInit /\ moves \in {"wire", "buffer"}

WireMoves   == moves = "wire" /\ UNCHANGED <<moves, vars>>
BufferMoves == moves = "buffer" /\ UNCHANGED <<moves, wireVars>>

BytesNext == (Next /\ BufferMoves) \/ (WireNext /\ WireMoves)

\* The client thread is scheduled. The peer need not send, or close.
BytesSpec ==
  BytesInit /\ [][BytesNext]_bytesVars /\ WF_bytesVars(ReadStep /\ WireMoves)
=============================================================================
