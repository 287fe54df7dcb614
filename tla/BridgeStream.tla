---------------------------- MODULE BridgeStream ----------------------------
(***************************************************************************)
(* The bytes that the router sends to one Bridge, over the connections     *)
(* that BridgeLifecycle makes: they arrive in chunks of any size, and      *)
(* StreamDecoder (codec.ts) puts the messages together again for onData(). *)
(*                                                                         *)
(* A byte is known by the message it is part of and its place in it.  What *)
(* decodeMulti() makes of bytes that begin inside a message is garbage:    *)
(* any values of any length, or an exception.                              *)
(***************************************************************************)
EXTENDS BridgeLifecycle, Sequences, FiniteSetsExt

CONSTANTS
  Kinds,      \* kinds of message
  Wire,       \* of each kind: how many bytes the router sends for it
  Canon,      \*   and how many encode() would make of the same value
  MaxSent     \* bound: messages on one connection

ASSUME StreamAssumption ==
  /\ Wire \in [Kinds -> Nat \ {0}] /\ Canon \in [Kinds -> Nat \ {0}]
  /\ MaxSent \in Nat

VARIABLES
  sent,         \* how many messages the router has sent on this connection
  inTransit,    \* the bytes of them that have not arrived
  buffer,       \* StreamDecoder.buffer
  decoded,      \* the values feed() has returned on this connection: the number of
                \* the message, 0 for a value that is none
  skipped,      \* the places in decoded that onData() did not get to: a handler threw
  whole         \* history: no connection was lost inside a message

byteVars == <<sent, inTransit, buffer, decoded, skipped, whole>>
streamVars == <<lifecycleVars, byteVars>>

StreamInit ==
  /\ LifecycleInit
  /\ sent = 0
  /\ inTransit = <<>> /\ buffer = <<>> /\ decoded = <<>> /\ skipped = {}
  /\ whole = TRUE

Bytes(n, k) == [i \in 1..Wire[k] |-> [of |-> n, kind |-> k, at |-> i]]

-----------------------------------------------------------------------------
\* From place c on, bytes are those of one message, as far as they go.
OneMessage(bytes, c, last) ==
  \A i \in (c + 1)..last : bytes[i] = [bytes[c + 1] EXCEPT !.at = i - c]

EndOf(bytes, c) == c + Wire[bytes[c + 1].kind]

IsComplete(bytes, c) ==
  EndOf(bytes, c) <= Len(bytes) /\ OneMessage(bytes, c, EndOf(bytes, c))

IsIncomplete(bytes, c) ==
  EndOf(bytes, c) > Len(bytes) /\ OneMessage(bytes, c, Len(bytes))

\* decodeMulti(): the places where the values it yields before it throws may end.
Decodings(bytes) ==
  LET places == 0..(Len(bytes) - 1)
      complete == {c \in places : IsComplete(bytes, c)}
      incomplete == {c \in places : IsIncomplete(bytes, c)}
  IN  {ends \in SUBSET (1..Len(bytes)) :
         \A c \in ends \cup {0} :
           /\ c \in complete => /\ EndOf(bytes, c) \in ends
                                /\ \A d \in ends : d > c => d >= EndOf(bytes, c)
           /\ c \in incomplete => \A d \in ends : d <= c}

\* The value that ends at d.
StartOf(ends, d) == Max({c \in ends \cup {0} : c < d})

IsMessage(bytes, ends, d) ==
  IsComplete(bytes, StartOf(ends, d))

\* The end of the j-th value.
EndAt(ends, j) == CHOOSE d \in ends : Cardinality({c \in ends : c <= d}) = j

ValuesAt(bytes, ends) ==
  [j \in 1..Cardinality(ends) |->
     LET d == EndAt(ends, j) IN IF IsMessage(bytes, ends, d) THEN bytes[d].of ELSE 0]

\* Mutant: only the first value is counted.
ReencodedFirst(bytes, ends) ==
  IF ends = {} THEN {0} ELSE {Canon[bytes[Min(ends)].kind]}

\* bytesConsumed: how many bytes the values have when they are encoded again.
Reencoded(bytes, ends) ==
  LET messages == {d \in ends : IsMessage(bytes, ends, d)}
      encoded == UNION {{<<d, i>> : i \in 1..Canon[bytes[d].kind]} : d \in messages}
      known == Cardinality(encoded)
  IN  IF messages = ends THEN {known} ELSE known + 1..known + Len(bytes)

\* Mutant: what the values leave of the chunk is forgotten.
FeedForgetting(bytes) ==
  \E ends \in Decodings(bytes) :
    decoded' = decoded \o ValuesAt(bytes, ends) /\ buffer' = <<>>

\* Mutant: decode() instead of decodeMulti(): one value at a time.
FeedOne(bytes) ==
  \E all \in Decodings(bytes) :
    LET ends == IF all = {} THEN {} ELSE {Min(all)} IN
    \E consumed \in Reencoded(bytes, ends) :
      /\ decoded' = decoded \o ValuesAt(bytes, ends)
      /\ buffer' = SubSeq(bytes, consumed + 1, Len(bytes))

\* feed().
Feed(bytes) ==
  \E ends \in Decodings(bytes) : \E consumed \in Reencoded(bytes, ends) :
    /\ decoded' = decoded \o ValuesAt(bytes, ends)
    /\ buffer' = SubSeq(bytes, consumed + 1, Len(bytes))

\* The loop of onData() over what feed() returned: a NOTIFY handler that throws ends
\* it, and the values after that one reach nobody.
Dispatch ==
  LET values == (Len(decoded) + 1)..Len(decoded') IN
  \E last \in values \cup {Len(decoded')} :
    skipped' = skipped \cup {n \in values : n > last}

\* A chunk arrives.
Receive(size) ==
  /\ socket /\ size \in 1..Len(inTransit)
  /\ Feed(buffer \o SubSeq(inTransit, 1, size))
  /\ Dispatch
  /\ inTransit' = SubSeq(inTransit, size + 1, Len(inTransit))
  /\ UNCHANGED <<lifecycleVars, sent, whole>>

\* The router sends a message (not under src/).  The bound whole: the bytes of a
\* connection that follows one lost inside a message, which the decoder takes for
\* the rest of that message, are not looked at.
RouterSends(k) ==
  /\ socket /\ sent < MaxSent /\ whole
  /\ sent' = sent + 1
  /\ inTransit' = inTransit \o Bytes(sent + 1, k)
  /\ UNCHANGED <<lifecycleVars, buffer, decoded, skipped, whole>>

\* onTransportClose(): the bytes on their way are lost, those in the decoder stay.
StreamBreaks(withError, failing) ==
  /\ SocketClosed(withError, failing)
  /\ whole' = (whole /\ buffer = <<>>)
  /\ sent' = 0 /\ inTransit' = <<>> /\ decoded' = <<>> /\ skipped' = {}
  /\ UNCHANGED buffer

StreamUntouched ==
  /\ \/ ReconnectTimerFires \/ ConnectSucceeds \/ ConnectFails
     \/ Reregistered \/ ReregisterThrows \/ Close \/ ResetSettles
  /\ UNCHANGED byteVars

StreamNext ==
  \/ \E k \in Kinds : RouterSends(k)
  \/ \E size \in 1..Len(inTransit) : Receive(size)
  \/ \E e, f \in BOOLEAN : StreamBreaks(e, f)
  \/ StreamUntouched

StreamSpec == StreamInit /\ [][StreamNext]_streamVars

\* Bytes arrive while the socket is up; the rest is the lifecycle's.
FairStreamSpec ==
  StreamSpec /\ WF_streamVars(\E size \in 1..Len(inTransit) : Receive(size))
             /\ EventLoopFairness /\ RouterComesBack

-----------------------------------------------------------------------------
\* The messages of a connection come out of the decoder in the order they were sent,
\* each once and whole, and nothing else does, however they were cut into chunks
\* (codec.ts 64-75), as long as no connection was lost inside a message.
DecodedInOrder ==
  whole => decoded = [n \in 1..Len(decoded) |-> n] /\ Len(decoded) <= sent

\* "Whatever bytes remain (an incomplete trailing message) stay in the buffer"
\* (codec.ts 73-75): the buffer is the beginning of the first message that is not
\* decoded yet, it holds no whole message, and what is on its way continues it.
BufferIsTheTail ==
  whole /\ socket =>
    LET rest == buffer \o inTransit IN
    /\ rest = <<>> => Len(decoded) = sent
    /\ rest # <<>> => rest[1].of = Len(decoded) + 1 /\ rest[1].at = 1
    /\ buffer # <<>> => IsIncomplete(buffer, 0)

\* A message that was sent comes out of the decoder, unless the connection is lost
\* before (codec.ts 64-75).
SentIsDecoded ==
  \A n \in 1..MaxSent :
    (whole /\ socket /\ sent >= n) ~> (Len(decoded) >= n \/ ~socket)
=============================================================================
