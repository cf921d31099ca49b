---- MODULE MqttFraming ----
(***************************************************************************)
(* From bytes on the wire to MQTT packets: the input Buffer of one         *)
(* connection (net/Buffer), MqttCodec (protocol/MqttCodec) and the loop    *)
(* of GatewayServer::onMessage that drives them.  TCP hands the stream     *)
(* over in chunks of any size; what the handlers are called with must not  *)
(* depend on where the chunks end.                                         *)
(*                                                                         *)
(* A byte is a number below 2 * Base, so Base = 128 in the code, and the   *)
(* sizes are parameters too: the small instance keeps every carry, every   *)
(* wrap and every boundary of the real numbers.  Buffer positions are      *)
(* offsets from 0 as in the code; sequences start at 1.                    *)
(***************************************************************************)
EXTENDS Integers, Sequences, SequencesExt

CONSTANTS
  Base,          \* a length byte carries a digit below Base (128)
  LenBytes,      \* the longest length field (4)
  CheapPrepend,  \* Buffer::kCheapPrepend (8)
  InitialSize,   \* Buffer::kInitialSize (1024)
  ExtraBuf,      \* the stack buffer of readFd (65536)
  Type,          \* the packet type in a first byte
  Qos,           \* the QoS bits in a first byte
  Raw,           \* byte streams a peer may send,
  Sent           \* and sequences of packets a device may encode

Byte == 0..(2 * Base - 1)
Types == {"CONNECT", "PUBLISH", "PUBACK", "SUBSCRIBE", "PINGREQ",
          "DISCONNECT", "other"}

ASSUME FramingAssumption ==
  /\ Base \in Nat \ {0, 1} /\ LenBytes \in Nat \ {0}
  /\ CheapPrepend \in Nat /\ InitialSize \in Nat /\ ExtraBuf \in Nat \ {0}
  /\ Type \in [Byte -> Types] /\ Qos \in [Byte -> 0..3]
  /\ Raw \subseteq Seq(Byte)

VARIABLES
  stream,    \* all the peer will ever send
  received,  \* how much of it readFd has taken from the socket
  buf,       \* inputBuffer_: its vector and the two indices
  pc,        \* "poll", "parse" (inside onMessage) or "closed" (forceClose)
  consumed,  \* history: how many bytes retrieve() has taken out
  handled    \* history: the codec's callbacks, with their arguments

vars == <<stream, received, buf, pc, consumed, handled>>

----------------------------------------------------------------------------
(* Buffer *)

ReadableBytes(b) == b.writerIndex - b.readerIndex
WritableBytes(b) == Len(b.store) - b.writerIndex
Readable(b) == SubSeq(b.store, b.readerIndex + 1, b.writerIndex)

\* store with data copied to offset at
Copy(store, at, data) ==
  [i \in DOMAIN store |->
     IF i - at \in DOMAIN data THEN data[i - at] ELSE store[i]]

NewBuffer ==
  [store |-> [i \in 1..(CheapPrepend + InitialSize) |-> 0],
   readerIndex |-> CheapPrepend, writerIndex |-> CheapPrepend]

Retrieve(b, n) ==
  IF n < ReadableBytes(b)
  THEN [b EXCEPT !.readerIndex = @ + n]
  ELSE [b EXCEPT !.readerIndex = CheapPrepend, !.writerIndex = CheapPrepend]

\* Variant: the indices move to the front and the bytes stay behind
MakeSpaceMovesIndices(b, n) ==
  IF WritableBytes(b) + b.readerIndex < n + CheapPrepend
  THEN [b EXCEPT !.store = [i \in 1..(b.writerIndex + n) |->
                              IF i \in DOMAIN @ THEN @[i] ELSE 0]]
  ELSE [b EXCEPT !.readerIndex = CheapPrepend,
                 !.writerIndex = CheapPrepend + ReadableBytes(b)]

\* either the vector grows or the readable bytes move to the front
MakeSpace(b, n) ==
  IF WritableBytes(b) + b.readerIndex < n + CheapPrepend
  THEN [b EXCEPT !.store = [i \in 1..(b.writerIndex + n) |->
                              IF i \in DOMAIN @ THEN @[i] ELSE 0]]
  ELSE [store |-> Copy(b.store, CheapPrepend, Readable(b)),
        readerIndex |-> CheapPrepend,
        writerIndex |-> CheapPrepend + ReadableBytes(b)]

BufferAppend(b, data) ==
  LET c == IF WritableBytes(b) < Len(data) THEN MakeSpace(b, Len(data)) ELSE b
  IN  [c EXCEPT !.store = Copy(@, c.writerIndex, data),
                !.writerIndex = @ + Len(data)]

\* how much one readv can take
Room(b) ==
  WritableBytes(b) + IF WritableBytes(b) < ExtraBuf THEN ExtraBuf ELSE 0

\* readv fills the vector first and the stack buffer with the rest
ReadFd(b, data) ==
  LET writable == WritableBytes(b)
      filled   == [b EXCEPT !.store = Copy(@, b.writerIndex, data)]
  IN  IF Len(data) <= writable
      THEN [filled EXCEPT !.writerIndex = @ + Len(data)]
      ELSE BufferAppend([filled EXCEPT !.writerIndex = Len(b.store)],
                   SubSeq(data, writable + 1, Len(data)))

----------------------------------------------------------------------------
(* MqttCodec: decoding *)

\* the loop over a length field's bytes, the first digit lowest
Digits(d) ==
  LET V[i \in 0..Len(d)] ==
        IF i = 0 THEN [value |-> 0, multiplier |-> 1]
        ELSE [value      |-> V[i - 1].value + (d[i] % Base) * V[i - 1].multiplier,
              multiplier |-> V[i - 1].multiplier * Base]
  IN  V[Len(d)].value

\* Variant: a field without a last byte counts the bytes it has
DecodeRemainingLengthCut(d) ==
  LET looked == IF Len(d) < LenBytes THEN Len(d) ELSE LenBytes
      last   == {i \in 1..looked : d[i] < Base}
      n      == IF last = {} THEN looked
                ELSE CHOOSE i \in last : \A j \in last : i <= j
  IN  [value |-> Digits(SubSeq(d, 1, n)), consumed |-> n]

\* d is what follows the first byte.  A field without a last byte, because d
\* ends or is longer than LenBytes, counts one byte more than it has
DecodeRemainingLength(d) ==
  LET looked == IF Len(d) < LenBytes THEN Len(d) ELSE LenBytes
      last   == {i \in 1..looked : d[i] < Base}
      n      == IF last = {} THEN looked
                ELSE CHOOSE i \in last : \A j \in last : i <= j
  IN  [value |-> Digits(SubSeq(d, 1, n)),
       consumed |-> IF last = {} THEN n + 1 ELSE n]

UInt16(b, p) == b[p + 1] * 2 * Base + b[p + 2]

\* the string at offset p of a body, and the offset behind it; a truncated
\* string is empty
HasString(b, p) == p + 2 <= Len(b) /\ p + 2 + UInt16(b, p) <= Len(b)
MqttString(b, p) ==
  IF HasString(b, p) THEN SubSeq(b, p + 3, p + 2 + UInt16(b, p)) ELSE << >>
AfterString(b, p) ==
  IF p + 2 > Len(b) THEN p
  ELSE IF HasString(b, p) THEN p + 2 + UInt16(b, p) ELSE p + 2

Ok(calls) == [result |-> "OK", calls |-> calls]
Error == [result |-> "ERROR", calls |-> << >>]
\* a callback, with its arguments as byte sequences and <<number>>s
Call(type, args) == << [type |-> type, args |-> args] >>

\* protocol name, level, flags, keep-alive, client id
ParseConnect(b) ==
  LET p == AfterString(b, 0) + 4
  IN  IF p > Len(b) THEN Error
      ELSE Ok(Call("CONNECT", <<MqttString(b, p)>>))

\* Variant: the packet id is left in the payload
ParsePublishKeepsId(qos, b) ==
  LET p == AfterString(b, 0)
  IN  IF qos > 0 /\ p + 2 > Len(b) THEN Error
      ELSE Ok(Call("PUBLISH", <<MqttString(b, 0), SubSeq(b, p + 1, Len(b)),
                                <<IF qos > 0 THEN UInt16(b, p) ELSE 0>> >>))

\* topic, a packet id when QoS > 0, payload
ParsePublish(qos, b) ==
  LET p == AfterString(b, 0)
      q == IF qos > 0 THEN p + 2 ELSE p
  IN  IF q > Len(b) THEN Error
      ELSE Ok(Call("PUBLISH", <<MqttString(b, 0), SubSeq(b, q + 1, Len(b)),
                                <<IF qos > 0 THEN UInt16(b, p) ELSE 0>> >>))

\* the topic filters from offset p on, each with a QoS byte
NoFilter == <<-1>>
Filters(b) ==
  LET F[p \in 0..Len(b)] ==
        LET q == AfterString(b, p)
        IN  IF p = Len(b) THEN << >>
            ELSE IF q >= Len(b) THEN <<NoFilter>>
            ELSE <<MqttString(b, p)>> \o F[q + 1]
  IN  F[2]

ParseSubscribe(b) ==
  IF Len(b) < 2 \/ NoFilter \in ToSet(Filters(b)) THEN Error
  ELSE Ok(Call("SUBSCRIBE", << <<UInt16(b, 0)>> >> \o Filters(b)))

\* the gateway sets no callback for it
ParsePubAck(b) == IF Len(b) < 2 THEN Error ELSE Ok(<< >>)

ParseBody(head, body) ==
  CASE Type[head] = "CONNECT"   -> ParseConnect(body)
    [] Type[head] = "PUBLISH"   -> ParsePublish(Qos[head], body)
    [] Type[head] = "PUBACK"    -> ParsePubAck(body)
    [] Type[head] = "SUBSCRIBE" -> ParseSubscribe(body)
    [] Type[head] \in {"PINGREQ", "DISCONNECT"} -> Ok(Call(Type[head], << >>))
    [] Type[head] = "other"     -> Ok(<< >>)

Incomplete == [result |-> "INCOMPLETE", calls |-> << >>, total |-> 0]

\* the first packet of the readable bytes r
Parse(r) ==
  LET rl    == DecodeRemainingLength(Tail(r))
      total == 1 + rl.consumed + rl.value
      out   == ParseBody(r[1], SubSeq(r, total - rl.value + 1, total))
  IN  IF Len(r) < 2 \/ Len(r) < total THEN Incomplete
      ELSE [result |-> out.result, calls |-> out.calls, total |-> total]

----------------------------------------------------------------------------
(* Encoding, on the device's side: the simulator's CONNECT and             *)
(* MqttCodec::encodePublish                                                *)

EncodeRemainingLength(len) ==
  LET E[n \in 0..len] ==
        IF n < Base THEN <<n>>
        ELSE <<(n % Base) + Base>> \o E[n \div Base]
  IN  E[len]

Htons(n) == <<n \div (2 * Base), n % (2 * Base)>>
WriteMqttString(s) == Htons(Len(s)) \o s

Packet(head, body) == <<head>> \o EncodeRemainingLength(Len(body)) \o body

\* the first byte with this type and QoS
FirstByte(type, qos) == CHOOSE h \in Byte : Type[h] = type /\ Qos[h] = qos

\* a protocol name, level and flags of one byte each, a keep-alive of two
ConnectBody(p) ==
  WriteMqttString(<<1>>) \o <<1, 0, 0, 1>> \o WriteMqttString(p.args[1])

PublishBody(p) ==
  WriteMqttString(p.args[1])
    \o (IF p.qos > 0 THEN Htons(p.args[3][1]) ELSE << >>) \o p.args[2]

SendConnect(p) == Packet(FirstByte("CONNECT", 0), ConnectBody(p))
EncodePublish(p) == Packet(FirstByte("PUBLISH", p.qos), PublishBody(p))

Encoded(p) == IF p.type = "CONNECT" THEN SendConnect(p) ELSE EncodePublish(p)
EncodeAll(ps) == FlattenSeq([i \in DOMAIN ps |-> Encoded(ps[i])])

\* What a device may encode: strings and packet ids have two length bytes, a
\* body's length fits its field, there is a first byte, and no packet id goes
\* with QoS 0
UInt16s == 0..(4 * Base * Base - 1)
Strings == {s \in Seq(Byte) : Len(s) \in UInt16s}
HasFirstByte(type, qos) == \E h \in Byte : Type[h] = type /\ Qos[h] = qos
LengthFits(body) == Len(EncodeRemainingLength(Len(body))) <= LenBytes

ConnectPackets ==
  {p \in [type : {"CONNECT"}, args : [1..1 -> Strings]] :
     HasFirstByte("CONNECT", 0) /\ LengthFits(ConnectBody(p))}
PublishPackets ==
  {p \in [type : {"PUBLISH"}, qos : 0..2,
          args : Strings \X Seq(Byte) \X [1..1 -> UInt16s]] :
     /\ HasFirstByte("PUBLISH", p.qos) /\ LengthFits(PublishBody(p))
     /\ p.qos = 0 => p.args[3] = <<0>>}

DevicePackets == ConnectPackets \cup PublishPackets

ASSUME SentAssumption == Sent \subseteq Seq(DevicePackets)

----------------------------------------------------------------------------
(* One connection *)

Init ==
  /\ stream \in Raw \cup {EncodeAll(ps) : ps \in Sent}
  /\ received = 0 /\ consumed = 0
  /\ buf = NewBuffer
  /\ pc = "poll"
  /\ handled = << >>

\* TcpConnection::handleRead gets n bytes and calls GatewayServer::onMessage
HandleRead(n) ==
  /\ pc = "poll"
  /\ n <= Len(stream) - received /\ n <= Room(buf)
  /\ buf' = ReadFd(buf, SubSeq(stream, received + 1, received + n))
  /\ received' = received + n
  /\ pc' = "parse"
  /\ UNCHANGED <<stream, consumed, handled>>

\* onMessage's loop ends: nothing is left, or no whole packet
OnMessageReturns ==
  /\ pc = "parse"
  /\ ReadableBytes(buf) = 0 \/ Parse(Readable(buf)).result = "INCOMPLETE"
  /\ pc' = "poll"
  /\ UNCHANGED <<stream, received, buf, consumed, handled>>

\* codec_.parse takes one packet, whether its handler was called or not
TakePacket(result) ==
  LET parsed == Parse(Readable(buf))
  IN  /\ pc = "parse"
      /\ ReadableBytes(buf) > 0
      /\ parsed.result = result
      /\ handled' = handled \o parsed.calls
      /\ buf' = Retrieve(buf, parsed.total)
      /\ consumed' = consumed + parsed.total
      /\ UNCHANGED <<stream, received>>

OnMessageParses == TakePacket("OK") /\ pc' = "parse"

\* conn->forceClose(): forceCloseInLoop runs before the next poll
OnMessageFails == TakePacket("ERROR") /\ pc' = "closed"

Next ==
  \/ \E n \in 1..Len(stream) : HandleRead(n)
  \/ OnMessageReturns
  \/ OnMessageParses
  \/ OnMessageFails

Spec == Init /\ [][Next]_vars

----------------------------------------------------------------------------
(* Properties *)

\* Types, and the asserts of Buffer: the indices stay in order and inside the
\* vector, and the reserved bytes at its front are never readable.
TypeOK ==
  /\ stream \in Seq(Byte)
  /\ received \in 0..Len(stream) /\ consumed \in 0..received
  /\ pc \in {"poll", "parse", "closed"}
  /\ buf.store \in Seq(Byte)
  /\ buf.readerIndex \in CheapPrepend..Len(buf.store)
  /\ buf.writerIndex \in buf.readerIndex..Len(buf.store)
  /\ \A i \in DOMAIN handled : handled[i].type \in Types

\* Whatever readFd, makeSpace and retrieve did to the vector, its two indices
\* are in range, behind the prepend area, and the readable bytes between them
\* are those received and not yet consumed, in order.
BufferHoldsTail ==
  /\ CheapPrepend <= buf.readerIndex /\ buf.readerIndex <= buf.writerIndex
  /\ buf.writerIndex <= Len(buf.store)
  /\ Readable(buf) = SubSeq(stream, consumed + 1, received)

\* What the handlers are called with for a stream that is parsed in one go
\* from an offset on, and whether that ends in an error.
ParsedFrom(s) ==
  LET R[i \in 0..Len(s)] ==
        LET parsed == Parse(SubSeq(s, i + 1, Len(s)))
            rest   == R[i + parsed.total]
        IN  CASE parsed.result = "INCOMPLETE" ->
                   [calls |-> << >>, failed |-> FALSE]
              [] parsed.result = "ERROR" -> [calls |-> << >>, failed |-> TRUE]
              [] parsed.result = "OK" ->
                   [calls |-> parsed.calls \o rest.calls,
                    failed |-> rest.failed]
  IN  R

InOneGo(s) == ParsedFrom(s)[0]

\* The chunks do not matter: each time onMessage returns, the handlers have
\* been called exactly as if all bytes received so far had come at once, and
\* the connection has been closed exactly if they contain a bad packet.  A
\* length field that ends with the chunk is never taken for a whole one.
ChunkingIrrelevant ==
  pc # "parse" =>
    LET whole == InOneGo(SubSeq(stream, 1, received))
    IN  handled = whole.calls /\ (pc = "closed" <=> whole.failed)

\* The calls that packets are to become.
SentCall(p) == [type |-> p.type, args |-> p.args]
SentCalls(ps) == [i \in DOMAIN ps |-> SentCall(ps[i])]

\* The codec inverts the encoders: of the packets a device encodes, the
\* handlers see client ids, topics, payloads and packet ids as sent, in order,
\* none is refused, and all of them are seen once all bytes are received.
PacketsAsSent ==
  \A ps \in Sent : stream = EncodeAll(ps) =>
    /\ IsPrefix(handled, SentCalls(ps))
    /\ pc # "closed"
    /\ pc = "poll" /\ received = Len(stream) => handled = SentCalls(ps)

----------------------------------------------------------------------------
(* What the induction needs *)

\* The first n bytes of the stream.
Received(n) == SubSeq(stream, 1, n)

\* However much more arrives, parsing it all in one go makes the calls that
\* were made and goes on where onMessage stands.
CallsAgree ==
  \A n \in received..Len(stream) :
    IF pc = "closed"
    THEN InOneGo(Received(n)) = [calls |-> handled, failed |-> TRUE]
    ELSE InOneGo(Received(n)) =
           [calls  |-> handled \o ParsedFrom(Received(n))[consumed].calls,
            failed |-> ParsedFrom(Received(n))[consumed].failed]

\* Between two reads the buffer holds no whole packet.
NoPacketWaits ==
  pc = "poll" =>
    \/ consumed = received
    \/ Parse(SubSeq(stream, consumed + 1, received)).result = "INCOMPLETE"

\* Of what a device sends, onMessage has taken whole packets, and made their
\* calls.
OnPacketBoundary ==
  \A ps \in Sent : stream = EncodeAll(ps) =>
    /\ pc # "closed"
    /\ \E k \in 0..Len(ps) :
         /\ consumed = Len(EncodeAll(SubSeq(ps, 1, k)))
         /\ handled = SubSeq(SentCalls(ps), 1, k)

====
