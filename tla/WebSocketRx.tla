------------------------------ MODULE WebSocketRx ------------------------------
(***************************************************************************)
(* The receive half of common/websocket_client.c: the byte buffer s_rx,    *)
(* the parser consume_frames and the reassembly of fragmented messages,    *)
(* together with the byte stream they read.                                *)
(*                                                                         *)
(* The stream is a sequence of items (one HTTP response, then frames).     *)
(* Each has the number of its first byte on the connection, so a buffer of *)
(* rxLen bytes, of which `arrived` is the last, starts at byte `Front`,    *)
(* whether or not an item does: a miscounted buffer shows as a Front       *)
(* inside an item.  Payload bytes are abstracted to a name with a length.  *)
(***************************************************************************)
EXTENDS Naturals, Sequences

CONSTANTS
  Capacity,     \* WEBSOCKET_CLIENT_RX_CAPACITY
  MaxSegment,   \* TCP_MSS, the most bytes one receive_cb gets
  ControlMax,   \* 125, the longest payload of a control frame
  Payload,      \* names of payloads
  Empty,        \* the one with no byte
  PayloadLen,   \* their lengths in bytes
  Frames,       \* the frames a server may send
  ResponseLen,  \* bytes of the HTTP response
  MaxItems      \* bound: items per connection

VARIABLES
  wire,         \* the items written by the server on this connection
  sent,         \* the complete text messages among them
  arrived,      \* how many of the bytes of wire receive_cb has got
  rxLen,        \* s_rx_length
  message,      \* the payloads in s_message[0 .. s_message_length)
  msgLen,       \* s_message_length
  fragOp,       \* s_fragment_opcode, "none" for 0
  delivered     \* the messages given to s_message_cb on this connection

peerVars == <<wire, sent>>
fragVars == <<message, msgLen, fragOp>>
rxVars   == <<arrived, rxLen, fragVars, delivered>>

DataOps    == {"text", "binary"}
ControlOps == {"close", "ping", "pong", "reserved-control"}
FrameOps   == DataOps \cup ControlOps \cup {"cont", "reserved"}

FrameShape(ops, exts) ==
  [op : ops, fin : BOOLEAN, ext : exts, masked : BOOLEAN, payload : Payload]

ASSUME RxAssumption ==
  /\ Capacity \in Nat \ {0}
  /\ MaxSegment \in Nat \ {0}
  /\ ControlMax \in Nat
  /\ ResponseLen \in Nat /\ ResponseLen >= 2
  /\ MaxItems \in Nat
  /\ Empty \in Payload
  /\ PayloadLen \in [Payload -> Nat]
  /\ PayloadLen[Empty] = 0
  /\ Frames \subseteq FrameShape(FrameOps, {2, 4, 10})

\* The server's answer to the upgrade request: "101", or anything else.
Response(op) ==
  [op |-> op, fin |-> TRUE, ext |-> ResponseLen, masked |-> FALSE,
   payload |-> Empty]
Accept == Response("accept")
Reject == Response("reject")

\* ext is the part of the header before the mask: 2, or 4 or 10 bytes when
\* the length field is 126 or 127 (the whole response for the first item).
Header(f) == f.ext + (IF f.masked THEN 4 ELSE 0)
Length(f) == PayloadLen[f.payload]
Size(f)   == Header(f) + Length(f)

NoMessage == [op |-> "none", data |-> <<>>, len |-> 0]
Messages  == [data : Seq(Payload), len : Nat]

(***************************************************************************)
(* The server's side: what RFC 6455 makes of a frame after an unfinished   *)
(* message p.  `Broken` means that nothing after this frame may be         *)
(* delivered: it violates the protocol, closes it or is too large.         *)
(***************************************************************************)
Broken == [op |-> "broken", data |-> <<>>, len |-> 0]

Breaks(p, f) ==
  \/ p.op = "broken"
  \/ f.op \in {"reserved", "reserved-control", "close", "reject"}
  \/ f.op \in ControlOps /\ (~f.fin \/ Length(f) > ControlMax)
  \/ f.op \in DataOps /\ p.op # "none"
  \/ f.op = "cont" /\ p.op = "none"
  \/ Size(f) > Capacity
  \/ f.op = "cont" /\ p.len + Length(f) > Capacity

\* The message p grown by the payload of f.
Extend(p, f) ==
  [op   |-> IF f.op = "cont" THEN p.op ELSE f.op,
   data |-> Append(p.data, f.payload),
   len  |-> p.len + Length(f)]

Unfinished(p, f) ==
  IF Breaks(p, f) THEN Broken
  ELSE IF f.op \notin DataOps \cup {"cont"} THEN p
  ELSE IF f.fin THEN NoMessage
  ELSE Extend(p, f)

Finished(p, f) ==
  IF /\ ~Breaks(p, f)
     /\ f.op \in DataOps \cup {"cont"}
     /\ f.fin
     /\ Extend(p, f).op = "text"
  THEN <<[data |-> Extend(p, f).data, len |-> Extend(p, f).len]>>
  ELSE <<>>

\* The last byte written so far, and the message left unfinished by it.
LastItem == wire[Len(wire)]
WireEnd  == IF wire = <<>> THEN 0 ELSE LastItem.start + Size(LastItem.frame)
Pending  == IF wire = <<>> THEN NoMessage ELSE LastItem.pending

(***************************************************************************)
(* The server writes item f.  An item remembers how many text messages are *)
(* complete (`count`) and which one is unfinished (`pending`) after it.    *)
(***************************************************************************)
Write(f) ==
  /\ Len(wire) < MaxItems
  /\ sent' = sent \o Finished(Pending, f)
  /\ wire' = Append(wire, [start   |-> WireEnd,
                           frame   |-> f,
                           count   |-> Len(sent'),
                           pending |-> Unfinished(Pending, f)])
  /\ UNCHANGED rxVars

-------------------------------------------------------------------------------

Front == arrived - rxLen

\* The item the parser takes the bytes at s_rx[0] for.
FrontIndex == CHOOSE i \in DOMAIN wire : wire[i].start = Front
FrontFrame == wire[FrontIndex].frame
OnBoundary == Front = WireEnd \/ \E i \in DOMAIN wire : wire[i].start = Front

\* Seeded bug: a segment that fills the buffer exactly is refused.
OverflowsWhenFull(n) == rxLen + n >= Capacity

\* receive_cb refuses n more bytes that do not fit.
Overflows(n) == rxLen + n > Capacity

\* ... and otherwise appends them.
Buffer(n) ==
  /\ arrived' = arrived + n
  /\ rxLen' = rxLen + n
  /\ UNCHANGED <<fragVars, delivered>>

TooLong(f) == Length(f) > Capacity \/ Header(f) + Length(f) > Capacity

\* consume_frames leaves its loop: the header or the payload is incomplete.
NeedsMore ==
  rxLen >= 2 =>
    \/ rxLen < FrontFrame.ext
    \/ ~TooLong(FrontFrame) /\ rxLen < Size(FrontFrame)

\* Seeded bug: the limit of s_message is not tested for a continuation.
RefusedWithoutTotal(f) ==
  \/ TooLong(f)
  \/ f.op \in ControlOps /\ (~f.fin \/ Length(f) > ControlMax)
  \/ f.op = "cont" /\ fragOp = "none"
  \/ f.op \in DataOps /\ fragOp # "none"
  \/ f.op \in {"close", "reserved", "reserved-control"}

\* consume_frames returns false on this frame.
Refused(f) ==
  \/ TooLong(f)
  \/ f.op \in ControlOps /\ (~f.fin \/ Length(f) > ControlMax)
  \/ f.op = "cont" /\ (fragOp = "none" \/ msgLen + Length(f) > Capacity)
  \/ f.op \in DataOps /\ fragOp # "none"
  \/ f.op \in {"close", "reserved", "reserved-control"}

\* Seeded bug: the mask is not counted.
UsedWithoutMask(f) == rxLen' = rxLen - (f.ext + Length(f))

\* used += header + length.
Used(f) == rxLen' = rxLen - Size(f)

\* s_message_cb, called for text only.
DeliverText(op, data, len) ==
  delivered' = IF op = "text"
               THEN Append(delivered, [data |-> data, len |-> len])
               ELSE delivered

ContinueMessage(f) ==
  /\ f.op = "cont" /\ ~f.fin
  /\ message' = Append(message, f.payload)
  /\ msgLen' = msgLen + Length(f)
  /\ UNCHANGED <<fragOp, delivered>>

FinishMessage(f) ==
  /\ f.op = "cont" /\ f.fin
  /\ DeliverText(fragOp, Append(message, f.payload), msgLen + Length(f))
  /\ message' = <<>> /\ msgLen' = 0 /\ fragOp' = "none"

WholeMessage(f) ==
  /\ f.op \in DataOps /\ f.fin
  /\ DeliverText(f.op, <<f.payload>>, Length(f))
  /\ UNCHANGED fragVars

StartMessage(f) ==
  /\ f.op \in DataOps /\ ~f.fin
  /\ message' = <<f.payload>> /\ msgLen' = Length(f) /\ fragOp' = f.op
  /\ UNCHANGED delivered

\* A frame that is neither refused nor answered with a pong.
TakeFrame(f) ==
  /\ \/ ContinueMessage(f)
     \/ FinishMessage(f)
     \/ WholeMessage(f)
     \/ StartMessage(f)
     \/ f.op = "pong" /\ UNCHANGED <<fragVars, delivered>>
  /\ Used(f)
  /\ UNCHANGED arrived

\* Seeded bug: an unfinished message survives the connection.
ClearRxKeepsFragment == rxLen' = 0 /\ UNCHANGED fragVars

\* close_connection and error_cb: the buffers empty and the stream is gone.
ClearRx ==
  /\ rxLen' = 0
  /\ message' = <<>> /\ msgLen' = 0 /\ fragOp' = "none"

DropStream ==
  /\ wire' = <<>> /\ sent' = <<>> /\ arrived' = 0 /\ delivered' = <<>>

RxInit ==
  /\ wire = <<>> /\ sent = <<>> /\ arrived = 0 /\ delivered = <<>>
  /\ rxLen = 0 /\ message = <<>> /\ msgLen = 0 /\ fragOp = "none"

Item == [start : Nat,
         frame : Frames \cup {Accept, Reject},
         count : Nat,
         pending : [op : DataOps \cup {"none", "broken"},
                    data : Seq(Payload), len : Nat]]

RxTypeOK ==
  /\ wire \in Seq(Item)
  /\ sent \in Seq(Messages)
  /\ arrived \in Nat
  /\ rxLen \in Nat
  /\ message \in Seq(Payload)
  /\ msgLen \in Nat
  /\ fragOp \in DataOps \cup {"none"}
  /\ delivered \in Seq(Messages)
===============================================================================
