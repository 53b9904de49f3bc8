-------------------------- MODULE EddjsonClientProofs --------------------------
(***************************************************************************)
(* Theorems about EddjsonClient, for every value of its constants.         *)
(*                                                                         *)
(* The inductive invariant has two layers.  ControlInv relates pc, s_state,*)
(* s_pcb, the requests and the timers and does not mention the byte        *)
(* stream; DataInv adds the layout of the stream and the place of the      *)
(* buffer in it.                                                           *)
(***************************************************************************)
EXTENDS EddjsonClient, SequenceTheorems, TLAPS

-------------------------------------------------------------------------------
\* Flags and timers.

LEMMA AtMostRange ==
  ASSUME NEW x \in Nat, NEW c \in Nat
  PROVE  AtMost(x, c) \in 0 .. c
  BY DEF AtMost

LEMMA CapIsNat ==
  /\ RxAgeCap \in Nat
  /\ CapOf(PingInterval) \in Nat
  /\ CapOf(PeriodicInterval) \in Nat
  BY WsAssumption, EddAssumption DEF RxAgeCap, CapOf

\* A retry keeps the delays in their range.
LEMMA RetryRange ==
  ASSUME TimersOK, ScheduleRetry
  PROVE  /\ retryDelay' \in RetryStep .. (RetryMax + RetryStep)
         /\ retryIn' \in 0 .. (RetryMax + RetryStep)
  BY WsAssumption DEF TimersOK, ScheduleRetry, LongerDelay

LEMMA FlagsNext == FlagsOK /\ [Next]_vars => FlagsOK'
  <1> SUFFICES ASSUME FlagsOK, [Next]_vars PROVE FlagsOK'
    OBVIOUS
  <1> USE DEF FlagsOK
  <1>1. CASE UNCHANGED vars
    BY <1>1 DEF vars, wsVars, linkVars
  <1>2. CASE Environment
    BY <1>2 DEF Environment, ServerRespond, ServerSend, NetworkChange, linkVars
  <1>3. CASE CallbackStep
    BY <1>3 DEF CallbackStep, Connected, ConnectedFail, Receive, ReceivePong,
      ReceiveOverflow, ReceiveFin, ErrorCallback, HandshakeWait,
      HandshakeRefused, HandshakeAccepted, FramesWait, FramesRefuse,
      FramesTake, FramesPing, FramesPingFail, ReceiveAbort, ScheduleRetry,
      CloseConnection, WriteOk, WriteFail, wsVars, linkVars
  <1>4. CASE TaskStep
    BY <1>4 DEF TaskStep, TaskOffline, TaskConnect, TaskConnectFail,
      TaskTimeout, TaskPing, TaskPingFail, TaskIdle, TaskGiveUp,
      ScheduleRetry, CloseConnection, WriteOk, WriteFail, wsVars, linkVars
  <1>5. CASE EddjsonStep
    BY <1>5 DEF EddjsonStep, OpenedRequest, OpenedFail, OpenedDone,
      PeriodicRequest, PeriodicFail, PeriodicSkip, Sleep, WriteOk, WriteFail,
      wsVars, linkVars
  <1> QED
    BY <1>1, <1>2, <1>3, <1>4, <1>5 DEF Next, WebSocketStep

ClocksOK == TimersOK /\ EddTypeOK

LEMMA ClocksNext == ClocksOK /\ [Next]_vars => ClocksOK'
  <1> SUFFICES ASSUME ClocksOK, [Next]_vars PROVE ClocksOK'
    OBVIOUS
  <1> USE DEF ClocksOK, TimersOK, EddTypeOK
  <1>1. CASE UNCHANGED vars
    BY <1>1 DEF vars, wsVars, linkVars, timers, eddVars
  <1>2. CASE Environment
    BY <1>2 DEF Environment, ServerRespond, ServerSend, NetworkChange,
      linkVars, timers, eddVars
  <1>3. ASSUME WebSocketStep PROVE EddTypeOK'
    BY <1>3, EddAssumption DEF WebSocketStep
  <1>4. ASSUME CallbackStep PROVE TimersOK'
    <2>1. CASE \/ ConnectedFail \/ ReceiveFin \/ ReceiveAbort
               \/ \E n \in Segments : ReceiveOverflow(n)
      BY <2>1, RetryRange
      DEF ConnectedFail, ReceiveFin, ReceiveAbort, ReceiveOverflow
    <2>2. CASE ErrorCallback
      BY <2>2, WsAssumption DEF ErrorCallback
    <2>3. CASE HandshakeAccepted
      BY <2>3, CapIsNat, WsAssumption DEF HandshakeAccepted
    <2>4. CASE ReceivePong \/ \E n \in Segments : Receive(n)
      BY <2>4, CapIsNat DEF Receive, ReceivePong
    <2>5. CASE \/ Connected \/ HandshakeWait \/ HandshakeRefused \/ FramesWait
               \/ FramesRefuse \/ FramesTake \/ FramesPing \/ FramesPingFail
      BY <2>5 DEF Connected, HandshakeWait, HandshakeRefused, FramesWait,
        FramesRefuse, FramesTake, FramesPing, FramesPingFail, wsVars,
        linkVars, timers
    <2> QED
      BY <1>4, <2>1, <2>2, <2>3, <2>4, <2>5 DEF CallbackStep
  <1>5. ASSUME TaskStep PROVE TimersOK'
    <2>1. CASE TaskTimeout \/ TaskGiveUp
      BY <2>1, RetryRange DEF TaskTimeout, TaskGiveUp
    <2>2. CASE TaskConnectFail
      BY <2>2, RetryRange, CapIsNat, WsAssumption DEF TaskConnectFail
    <2>3. CASE TaskOffline
      BY <2>3, WsAssumption DEF TaskOffline
    <2>4. CASE TaskConnect \/ TaskPing \/ TaskPingFail
      BY <2>4, CapIsNat, WsAssumption DEF TaskConnect, TaskPing, TaskPingFail
    <2>5. CASE TaskIdle
      BY <2>5 DEF TaskIdle, wsVars, linkVars, timers
    <2> QED
      BY <1>5, <2>1, <2>2, <2>3, <2>4, <2>5 DEF TaskStep
  <1>6. CASE OpenedRequest \/ OpenedFail \/ OpenedDone
    BY <1>6, CapIsNat, EddAssumption
    DEF OpenedRequest, OpenedFail, OpenedDone, wsVars, linkVars, timers, eddVars
  <1>7. CASE PeriodicRequest \/ PeriodicFail \/ PeriodicSkip
    BY <1>7, CapIsNat
    DEF PeriodicRequest, PeriodicFail, PeriodicSkip, wsVars, linkVars, timers,
        eddVars
  <1>8. CASE \E d \in 0 .. IterMax : Sleep(d)
    <2>1. PICK d \in 0 .. IterMax : Sleep(d)
      BY <1>8
    <2>0. /\ rxAge + d \in Nat /\ pingAge + d \in Nat /\ gap + d \in Nat
          /\ periodicAge + d \in Nat
      BY CapIsNat, WsAssumption
    <2>2. /\ rxAge' \in 0 .. RxAgeCap
          /\ pingAge' \in 0 .. CapOf(PingInterval)
          /\ gap' \in 0 .. OfflineDelay
          /\ periodicAge' \in 0 .. CapOf(PeriodicInterval)
      BY <2>0, <2>1, AtMostRange, CapIsNat, WsAssumption DEF Sleep, Age
    <2>3. retryIn' \in 0 .. (RetryMax + RetryStep)
      BY <2>1, WsAssumption DEF Sleep, Age
    <2>4. retryDelay' = retryDelay /\ requested' = requested
      BY <2>1 DEF Sleep, Age
    <2> QED
      BY <2>2, <2>3, <2>4
  <1> QED
    BY <1>1, <1>2, <1>3, <1>4, <1>5, <1>6, <1>7, <1>8
    DEF Next, WebSocketStep, EddjsonStep

-------------------------------------------------------------------------------
\* The state of the connection and the step of the handler.

PcMatchesState ==
  /\ pc = "handshake" => state = "HANDSHAKE"
  /\ pc \in {"opened", "frames", "giveup"} => state = "OPEN"
  /\ pc = "abort" => state \in {"HANDSHAKE", "OPEN"}

PlaceInv ==
  /\ PlacesOK
  /\ PcbMatchesState
  /\ PcMatchesState
  /\ OutboundWhole
  /\ OpenMeansRequested

LEMMA PlaceNext == PlaceInv /\ [Next]_vars => PlaceInv'
  <1> SUFFICES ASSUME PlaceInv, [Next]_vars PROVE PlaceInv'
    OBVIOUS
  <1> USE DEF PlaceInv, PlacesOK, States, PcbMatchesState, PcMatchesState,
              OutboundWhole, OpenMeansRequested
  <1>1. CASE UNCHANGED vars
    BY <1>1 DEF vars, wsVars, linkVars, eddVars
  <1>2. CASE Environment
    BY <1>2 DEF Environment, ServerRespond, ServerSend, NetworkChange,
      linkVars, eddVars
  <1>3. CASE WebSocketStep /\ CallbackStep
    <2> USE <1>3 DEF WebSocketStep
    <2>1. CASE \/ ConnectedFail \/ ReceiveFin \/ ReceiveAbort
               \/ \E n \in Segments : ReceiveOverflow(n)
      BY <2>1 DEF ConnectedFail, ReceiveFin, ReceiveAbort, ReceiveOverflow,
        ScheduleRetry, CloseConnection
    <2>2. CASE Connected \/ ErrorCallback
      BY <2>2 DEF Connected, ErrorCallback
    <2>3. CASE ReceivePong \/ \E n \in Segments : Receive(n)
      BY <2>3 DEF Receive, ReceivePong
    <2>4. CASE HandshakeWait \/ HandshakeRefused
      BY <2>4 DEF HandshakeWait, HandshakeRefused, wsVars, linkVars
    <2>7. CASE HandshakeAccepted
      BY <2>7, EddAssumption DEF HandshakeAccepted
    <2>5. CASE FramesWait \/ FramesRefuse \/ FramesTake
      BY <2>5 DEF FramesWait, FramesRefuse, FramesTake, wsVars, linkVars
    <2>6. CASE FramesPing \/ FramesPingFail
      BY <2>6 DEF FramesPing, FramesPingFail, WriteOk, WriteFail
    <2> QED
      BY <2>1, <2>2, <2>3, <2>4, <2>5, <2>6, <2>7 DEF CallbackStep
  <1>4. CASE WebSocketStep /\ TaskStep
    <2> USE <1>4 DEF WebSocketStep
    <2>1. CASE TaskOffline
      BY <2>1 DEF TaskOffline, CloseConnection
    <2>2. CASE TaskConnect
      BY <2>2 DEF TaskConnect, MayConnect
    <2>3. CASE TaskConnectFail
      BY <2>3 DEF TaskConnectFail, ScheduleRetry, CloseConnection
    <2>6. CASE TaskTimeout \/ TaskGiveUp
      BY <2>6 DEF TaskTimeout, TaskGiveUp, ScheduleRetry, CloseConnection
    <2>4. CASE TaskPing
      BY <2>4 DEF TaskPing, PingDue, WriteOk
    <2>7. CASE TaskPingFail
      BY <2>7 DEF TaskPingFail, PingDue, WriteFail
    <2>5. CASE TaskIdle
      BY <2>5 DEF TaskIdle, wsVars, linkVars
    <2> QED
      BY <2>1, <2>2, <2>3, <2>4, <2>5, <2>6, <2>7 DEF TaskStep
  <1>5. CASE EddjsonStep
    <2>1. CASE OpenedRequest \/ OpenedFail \/ OpenedDone
      BY <2>1 DEF OpenedRequest, OpenedFail, OpenedDone, WriteOk, WriteFail,
        wsVars, linkVars, eddVars
    <2>2. CASE PeriodicRequest \/ PeriodicFail \/ PeriodicSkip
      BY <2>2 DEF PeriodicRequest, PeriodicFail, PeriodicSkip, PeriodicDue,
        WriteOk, WriteFail, wsVars, linkVars, eddVars
    <2>3. CASE \E d \in 0 .. IterMax : Sleep(d)
      BY <2>3 DEF Sleep
    <2> QED
      BY <1>5, <2>1, <2>2, <2>3 DEF EddjsonStep
  <1> QED
    BY <1>1, <1>2, <1>3, <1>4, <1>5 DEF Next, WebSocketStep

ControlInv == FlagsOK /\ ClocksOK /\ PlaceInv

LEMMA ControlInit == Init => ControlInv
  <1> SUFFICES ASSUME Init PROVE ControlInv
    OBVIOUS
  <1>1. FlagsOK
    BY DEF Init, WsInit, FlagsOK
  <1>2. ClocksOK
    BY CapIsNat, WsAssumption, EddAssumption
    DEF Init, WsInit, ClocksOK, TimersOK, EddTypeOK
  <1>3. PlaceInv
    BY DEF Init, WsInit, PlaceInv, PlacesOK, States, PcbMatchesState,
      PcMatchesState, OutboundWhole, OpenMeansRequested
  <1> QED
    BY <1>1, <1>2, <1>3 DEF ControlInv

LEMMA ControlNext == ControlInv /\ [Next]_vars => ControlInv'
  BY FlagsNext, ClocksNext, PlaceNext DEF ControlInv

LEMMA ControlAlways == Spec => []ControlInv
  BY ControlInit, ControlNext, PTL DEF Spec

\* s_pcb and s_state agree at every step of every handler.
THEOREM PcbAlwaysMatchesState == Spec => []PcbMatchesState
  BY ControlAlways, PTL DEF ControlInv, PlaceInv

\* After a torn frame the connection is aborted before anything else happens.
THEOREM OutboundAlwaysWhole == Spec => []OutboundWhole
  BY ControlAlways, PTL DEF ControlInv, PlaceInv

\* An open connection has been asked for everything it must deliver.
THEOREM OpenAlwaysMeansRequested == Spec => []OpenMeansRequested
  BY ControlAlways, PTL DEF ControlInv, PlaceInv

-------------------------------------------------------------------------------
\* The layout of the stream.

Stream == Frames \cup {Accept, Reject}
End(i) == wire[i].start + Size(wire[i].frame)

LEMMA StreamFrame ==
  ASSUME NEW f \in Stream
  PROVE  /\ f.payload \in Payload
         /\ Length(f) \in Nat /\ Header(f) \in Nat
         /\ Size(f) \in Nat \ {0} /\ Size(f) = Header(f) + Length(f)
         /\ f.ext >= 2 /\ Size(f) >= f.ext
         /\ f.ext \in Nat
         /\ f.op \in FrameOps \cup {"accept", "reject"}
  <1>1. /\ f.ext \in Nat /\ f.ext >= 2 /\ f.payload \in Payload
        /\ f.op \in FrameOps \cup {"accept", "reject"}
    <2>1. CASE f \in Frames
      <3>1. f \in [op : FrameOps, fin : BOOLEAN, ext : {2, 4, 10},
                  masked : BOOLEAN, payload : Payload]
        BY <2>1, RxAssumption, Zenon DEF FrameShape
      <3> QED
        BY <3>1
    <2>2. CASE f \in {Accept, Reject}
      BY <2>2, RxAssumption DEF Accept, Reject, Response
    <2> QED
      BY <2>1, <2>2 DEF Stream
  <1>3. Length(f) \in Nat
    BY <1>1, RxAssumption DEF Length
  <1>4. Header(f) \in Nat \ {0} /\ Header(f) >= f.ext
    BY <1>1 DEF Header
  <1> QED
    BY <1>1, <1>3, <1>4 DEF Size

StreamOK ==
  /\ wire \in Seq(Item)
  /\ \A i \in 1 .. Len(wire) :
       wire[i].start = IF i = 1 THEN 0 ELSE End(i - 1)
  /\ \A i, j \in 1 .. Len(wire) : i < j => End(i) <= wire[j].start

\* A place in the stream with a byte at it is the start of an item.
LEMMA FrontItem ==
  ASSUME StreamOK, FramesAligned, arrived \in Nat, rxLen \in Nat, rxLen > 0
  PROVE  /\ FrontIndex \in 1 .. Len(wire)
         /\ wire[FrontIndex].start = Front
         /\ FrontFrame \in Stream
         /\ wire[FrontIndex] \in Item
  <1>1. WireEnd \in Nat
    <2>1. CASE wire = <<>>
      BY <2>1 DEF WireEnd
    <2>2. CASE wire # <<>>
      <3>1. Len(wire) \in Nat \ {0} /\ wire[Len(wire)] \in Item
        BY <2>2 DEF StreamOK
      <3>2. wire[Len(wire)].frame \in Stream /\ wire[Len(wire)].start \in Nat
        BY <3>1 DEF Item, Stream
      <3> QED
        BY <2>2, <3>2, StreamFrame DEF WireEnd, LastItem
    <2> QED
      BY <2>1, <2>2
  <1>2. \E i \in DOMAIN wire : wire[i].start = Front
    BY <1>1 DEF FramesAligned, OnBoundary, Front
  <1>3. FrontIndex \in DOMAIN wire /\ wire[FrontIndex].start = Front
    BY <1>2 DEF FrontIndex
  <1>4. DOMAIN wire = 1 .. Len(wire)
    BY DEF StreamOK
  <1>5. wire[FrontIndex] \in Item
    BY <1>3, <1>4 DEF StreamOK
  <1> QED
    BY <1>3, <1>4, <1>5 DEF FrontFrame, Item, Stream

PendingSet ==
  [op : DataOps \cup {"none", "broken"}, data : Seq(Payload), len : Nat]

LEMMA ExtendType ==
  ASSUME NEW p \in PendingSet, NEW f \in Stream
  PROVE  /\ Extend(p, f).data \in Seq(Payload)
         /\ Extend(p, f).len \in Nat
         /\ f.op \in DataOps => Extend(p, f).op = f.op
         /\ f.op = "cont" => Extend(p, f).op = p.op
  <1>1. f.payload \in Payload /\ Length(f) \in Nat
    BY StreamFrame
  <1>2. p.data \in Seq(Payload) /\ p.len \in Nat
    BY DEF PendingSet
  <1> QED
    BY <1>1, <1>2 DEF Extend, DataOps

LEMMA UnfinishedType ==
  ASSUME NEW p \in PendingSet, NEW f \in Stream
  PROVE  Unfinished(p, f) \in PendingSet
  <1>1. NoMessage \in PendingSet /\ Broken \in PendingSet
    BY DEF NoMessage, Broken, PendingSet, DataOps
  <1>2. ASSUME f.op \in DataOps \cup {"cont"}, ~Breaks(p, f)
        PROVE  Extend(p, f) \in PendingSet
    <2>1. Extend(p, f).op \in DataOps \cup {"none", "broken"}
      BY <1>2, ExtendType DEF PendingSet
    <2> QED
      BY <2>1, ExtendType DEF Extend, PendingSet
  <1> QED
    BY <1>1, <1>2 DEF Unfinished

LEMMA FinishedType ==
  ASSUME NEW p \in PendingSet, NEW f \in Stream
  PROVE  /\ Finished(p, f) \in Seq(Messages)
         /\ \/ Finished(p, f) = <<>>
            \/ /\ Len(Finished(p, f)) = 1
               /\ Finished(p, f)[1] = [data |-> Extend(p, f).data,
                                       len  |-> Extend(p, f).len]
  <1> DEFINE m == [data |-> Extend(p, f).data, len |-> Extend(p, f).len]
  <1>1. m \in Messages
    BY ExtendType DEF Messages
  <1>2. <<m>> \in Seq(Messages) /\ Len(<<m>>) = 1 /\ <<m>>[1] = m
    BY <1>1
  <1>3. Finished(p, f) = <<>> \/ Finished(p, f) = <<m>>
    BY DEF Finished
  <1>4. <<>> \in Seq(Messages)
    OBVIOUS
  <1> QED
    BY <1>2, <1>3, <1>4, Zenon

WriterOK == StreamOK /\ sent \in Seq(Messages)

LEMMA EndType ==
  ASSUME StreamOK
  PROVE  /\ \A i \in 1 .. Len(wire) :
              wire[i].start \in Nat /\ End(i) \in Nat /\ wire[i].start < End(i)
         /\ WireEnd = IF wire = <<>> THEN 0 ELSE End(Len(wire))
         /\ WireEnd \in Nat
         /\ Pending \in PendingSet
         /\ Len(wire) \in Nat
  <1>1. ASSUME NEW i \in 1 .. Len(wire)
        PROVE  wire[i].start \in Nat /\ End(i) \in Nat /\ wire[i].start < End(i)
    <2>1. wire[i] \in Item
      BY DEF StreamOK
    <2>2. wire[i].frame \in Stream /\ wire[i].start \in Nat
      BY <2>1 DEF Item, Stream
    <2>3. Size(wire[i].frame) \in Nat \ {0}
      BY <2>2, StreamFrame
    <2> QED
      BY <2>2, <2>3 DEF End
  <1>2. Len(wire) \in Nat
    BY DEF StreamOK
  <1>3. CASE wire = <<>>
    BY <1>1, <1>2, <1>3
    DEF WireEnd, Pending, NoMessage, PendingSet, DataOps
  <1>4. CASE wire # <<>>
    <2>1. Len(wire) \in 1 .. Len(wire) /\ wire[Len(wire)] \in Item
      BY <1>4 DEF StreamOK
    <2>2. Pending \in PendingSet
      BY <1>4, <2>1 DEF Pending, LastItem, Item, PendingSet
    <2> QED
      BY <1>1, <1>2, <1>4, <2>1, <2>2 DEF WireEnd, LastItem, End
  <1> QED
    BY <1>3, <1>4

\* Writing an item appends it at the end of the stream.
LEMMA WriteExtends ==
  ASSUME WriterOK, NEW f \in Stream, Write(f)
  PROVE  /\ WriterOK'
         /\ Len(wire') = Len(wire) + 1
         /\ \A i \in 1 .. Len(wire) : wire'[i] = wire[i]
         /\ wire'[Len(wire) + 1] = [start   |-> WireEnd,
                                    frame   |-> f,
                                    count   |-> Len(sent'),
                                    pending |-> Unfinished(Pending, f)]
         /\ WireEnd' = WireEnd + Size(f)
  <1> DEFINE item == [start   |-> WireEnd,
                      frame   |-> f,
                      count   |-> Len(sent'),
                      pending |-> Unfinished(Pending, f)]
  <1>1. sent' \in Seq(Messages)
    <2>1. Finished(Pending, f) \in Seq(Messages)
      BY EndType, FinishedType DEF WriterOK
    <2> QED
      BY <2>1, ConcatProperties DEF WriterOK, Write
  <1>2. item \in Item
    BY <1>1, EndType, UnfinishedType DEF Item, PendingSet, Stream, WriterOK
  <1>3. wire' = Append(wire, item)
    BY DEF Write
  <1>4. /\ wire' \in Seq(Item)
        /\ Len(wire') = Len(wire) + 1
        /\ \A i \in 1 .. Len(wire) : wire'[i] = wire[i]
        /\ wire'[Len(wire) + 1] = item
    BY <1>2, <1>3 DEF WriterOK, StreamOK
  <1>5. Size(f) \in Nat \ {0}
    BY StreamFrame
  <1>6. \A i \in 1 .. Len(wire) : End(i)' = End(i)
    BY <1>4, EndType DEF End, WriterOK
  <1>7. wire' # <<>> /\ WireEnd' = WireEnd + Size(f)
    <2>1. wire' # <<>> /\ wire'[Len(wire')] = item
      BY <1>4, EndType DEF WriterOK
    <2>2. item.start = WireEnd /\ item.frame = f
      OBVIOUS
    <2> HIDE DEF item
    <2>3. WireEnd' = item.start + Size(item.frame)
      BY <2>1 DEF WireEnd, LastItem
    <2> QED
      BY <2>1, <2>2, <2>3
  <1>8. \A i \in 1 .. Len(wire) : End(i) <= WireEnd
    <2>1. SUFFICES ASSUME NEW i \in 1 .. Len(wire) PROVE End(i) <= WireEnd
      OBVIOUS
    <2>2. CASE i = Len(wire)
      BY <2>2, EndType DEF WriterOK
    <2>3. CASE i < Len(wire)
      <3>1. End(i) <= wire[Len(wire)].start
        BY <2>3, EndType DEF WriterOK, StreamOK
      <3>2. wire[Len(wire)].start < End(Len(wire)) /\ WireEnd = End(Len(wire))
        BY <2>3, EndType DEF WriterOK
      <3> QED
        BY <3>1, <3>2, EndType DEF WriterOK
    <2> QED
      BY <2>2, <2>3, EndType DEF WriterOK
  <1>9. ASSUME NEW i \in 1 .. Len(wire')
        PROVE  wire'[i].start = IF i = 1 THEN 0 ELSE End(i - 1)'
    <2>1. CASE i \in 1 .. Len(wire)
      <3>1. wire[i].start = IF i = 1 THEN 0 ELSE End(i - 1)
        BY <2>1 DEF WriterOK, StreamOK
      <3>2. i # 1 => i - 1 \in 1 .. Len(wire)
        BY <2>1, EndType DEF WriterOK
      <3> QED
        BY <2>1, <3>1, <3>2, <1>4, <1>6
    <2>2. CASE i = Len(wire) + 1
      <3>1. wire'[i].start = WireEnd
        BY <2>2, <1>4
      <3>2. CASE wire = <<>>
        BY <2>2, <3>1, <3>2, EndType DEF WriterOK
      <3>3. CASE wire # <<>>
        <4>1. i # 1 /\ i - 1 = Len(wire) /\ Len(wire) \in 1 .. Len(wire)
          BY <2>2, <3>3, EndType DEF WriterOK, StreamOK
        <4> QED
          BY <3>1, <3>3, <4>1, <1>6, EndType DEF WriterOK
      <3> QED
        BY <3>2, <3>3
    <2> QED
      BY <2>1, <2>2, <1>4, EndType DEF WriterOK
  <1>10. ASSUME NEW i \in 1 .. Len(wire'), NEW j \in 1 .. Len(wire'), i < j
         PROVE  End(i)' <= wire'[j].start
    <2>1. i \in 1 .. Len(wire)
      BY <1>10, <1>4, EndType DEF WriterOK
    <2>2. CASE j \in 1 .. Len(wire)
      BY <2>1, <2>2, <1>4, <1>6, <1>10 DEF WriterOK, StreamOK
    <2>3. CASE j = Len(wire) + 1
      BY <2>1, <2>3, <1>4, <1>6, <1>8
    <2> QED
      BY <2>2, <2>3, <1>4, EndType DEF WriterOK
  <1>11. StreamOK'
    BY <1>4, <1>9, <1>10 DEF StreamOK
  <1> QED
    BY <1>1, <1>4, <1>7, <1>11 DEF WriterOK

-------------------------------------------------------------------------------
\* The buffer and its place in the stream.

BufferOK ==
  /\ arrived \in Nat /\ rxLen \in Nat
  /\ FramesAligned
  /\ BuffersHold
  /\ pc = "handshake" => rxLen > 0
  /\ message \in Seq(Payload) /\ msgLen \in Nat
  /\ fragOp \in DataOps \cup {"none"}
  /\ delivered \in Seq(Messages)

DataInv == WriterOK /\ BufferOK

LEMMA WriterStutters ==
  ASSUME WriterOK, UNCHANGED peerVars
  PROVE  WriterOK'
  <1>1. wire' = wire /\ sent' = sent
    BY DEF peerVars
  <1>2. \A i : End(i)' = End(i)
    BY <1>1 DEF End
  <1> QED
    BY <1>1, <1>2 DEF WriterOK, StreamOK

\* Consuming the item at the front moves the front to the next one.
LEMMA ConsumeAligned ==
  ASSUME DataInv, rxLen > 0, rxLen >= Size(FrontFrame),
         Used(FrontFrame), UNCHANGED <<arrived, wire>>
  PROVE  /\ rxLen' \in Nat /\ rxLen' < rxLen
         /\ FramesAligned'
         /\ Front' = End(FrontIndex)
  <1> DEFINE i == FrontIndex
  <1>1. /\ i \in 1 .. Len(wire) /\ wire[i].start = Front
        /\ FrontFrame = wire[i].frame /\ FrontFrame \in Stream
    BY FrontItem DEF DataInv, WriterOK, BufferOK, FrontFrame
  <1>2. Size(FrontFrame) \in Nat \ {0}
    BY <1>1, StreamFrame
  <1> HIDE DEF i
  <1>3. rxLen' \in Nat /\ rxLen' = rxLen - Size(FrontFrame) /\ rxLen' < rxLen
    BY <1>2 DEF DataInv, BufferOK, Used
  <1>4. Front' = End(i)
    BY <1>1, <1>2, <1>3 DEF Front, End, DataInv, BufferOK, FramesAligned
  <1>5. OnBoundary'
    <2>1. CASE i = Len(wire)
      <3>1. WireEnd' = End(i)
        BY <1>1, <2>1, EndType DEF DataInv, WriterOK, WireEnd, LastItem, End
      <3> QED
        BY <1>4, <3>1 DEF OnBoundary
    <2>2. CASE i # Len(wire)
      <3>1. i + 1 \in DOMAIN wire /\ i + 1 # 1 /\ (i + 1) - 1 = i
        BY <1>1, <2>2, EndType DEF DataInv, WriterOK, StreamOK
      <3>2. \A k \in 1 .. Len(wire) :
              wire[k].start = IF k = 1 THEN 0 ELSE End(k - 1)
        BY DEF DataInv, WriterOK, StreamOK
      <3>3. /\ i + 1 \in 1 .. Len(wire) /\ End((i + 1) - 1) = End(i)
            /\ i + 1 # 1
        BY <1>1, <3>1, EndType DEF DataInv, WriterOK, StreamOK
      <3>4. wire[i + 1].start = End(i)
        BY <3>2, <3>3, Zenon
      <3> QED
        BY <1>4, <3>1, <3>4 DEF OnBoundary
    <2> QED
      BY <2>1, <2>2
  <1>6. WireEnd' = WireEnd
    BY DEF WireEnd, LastItem
  <1> QED
    BY <1>3, <1>4, <1>5, <1>6 DEF i, FramesAligned, DataInv, BufferOK

\* Every step of a handler that drops the connection.
Dropped == ClearRx /\ DropStream

LEMMA DroppedData ==
  ASSUME Dropped
  PROVE  WriterOK' /\ (pc' # "handshake" => BufferOK')
  <1>1. WriterOK'
    BY DEF Dropped, DropStream, WriterOK, StreamOK
  <1>2. ASSUME pc' # "handshake" PROVE BufferOK'
    BY <1>2, RxAssumption
    DEF Dropped, ClearRx, DropStream, BufferOK, FramesAligned, BuffersHold,
        OnBoundary, Front, WireEnd
  <1> QED
    BY <1>1, <1>2

\* A frame that is taken leaves the buffers within their bounds.
LEMMA TakeData ==
  ASSUME DataInv, pc = "frames", pc' = "frames", ~NeedsMore,
         ~Refused(FrontFrame), UNCHANGED peerVars,
         \/ TakeFrame(FrontFrame)
         \/ Used(FrontFrame) /\ UNCHANGED <<arrived, fragVars, delivered>>
  PROVE  DataInv'
  <1>1. rxLen >= 2 /\ ~TooLong(FrontFrame)
    BY DEF NeedsMore, Refused
  <1>2. FrontFrame \in Stream
    BY <1>1, FrontItem DEF DataInv, WriterOK, BufferOK
  <1>3. /\ FrontFrame.payload \in Payload /\ Length(FrontFrame) \in Nat
        /\ Size(FrontFrame) \in Nat
    BY <1>2, StreamFrame
  <1>4. rxLen >= Size(FrontFrame)
    BY <1>1, <1>3 DEF NeedsMore, DataInv, BufferOK
  <1>5. Used(FrontFrame) /\ UNCHANGED <<arrived, wire, sent>>
    BY DEF TakeFrame, peerVars
  <1>6. rxLen' \in Nat /\ rxLen' < rxLen /\ FramesAligned'
    <2>1. rxLen > 0
      BY <1>1 DEF DataInv, BufferOK
    <2>2. UNCHANGED <<arrived, wire>>
      BY <1>5
    <2> QED
      BY <2>1, <2>2, <1>4, <1>5, ConsumeAligned
  <1>7. WriterOK'
    BY WriterStutters DEF DataInv
  <1>8. ASSUME NEW op \in DataOps \cup {"none"}, NEW data \in Seq(Payload),
               NEW len \in Nat, DeliverText(op, data, len)
        PROVE  delivered' \in Seq(Messages)
    <2>1. [data |-> data, len |-> len] \in Messages
      BY DEF Messages
    <2> QED
      BY <1>8, <2>1 DEF DeliverText, DataInv, BufferOK
  <1>9. /\ message' \in Seq(Payload) /\ msgLen' \in Nat
        /\ fragOp' \in DataOps \cup {"none"}
        /\ delivered' \in Seq(Messages)
        /\ msgLen' <= Capacity
    <2> DEFINE f == FrontFrame
    <2> HIDE DEF f
    <2>0. /\ f.payload \in Payload /\ Length(f) \in Nat /\ ~Refused(f)
          /\ ~TooLong(f)
      BY <1>1, <1>3 DEF f
    <2> USE <2>0, RxAssumption DEF DataInv, BufferOK, BuffersHold
    <2>1. CASE ContinueMessage(f)
      BY <2>1 DEF ContinueMessage, Refused
    <2>2. CASE FinishMessage(f)
      <3>1. Append(message, f.payload) \in Seq(Payload)
        OBVIOUS
      <3>4. msgLen + Length(f) \in Nat /\ fragOp \in DataOps \cup {"none"}
        OBVIOUS
      <3>5. DeliverText(fragOp, Append(message, f.payload), msgLen + Length(f))
        BY <2>2 DEF FinishMessage
      <3>2. delivered' \in Seq(Messages)
        BY <3>1, <3>4, <3>5, <1>8
      <3>3. message' = <<>> /\ msgLen' = 0 /\ fragOp' = "none"
        BY <2>2 DEF FinishMessage
      <3> QED
        BY <3>2, <3>3
    <2>3. CASE WholeMessage(f)
      <3>1. <<f.payload>> \in Seq(Payload)
        OBVIOUS
      <3> QED
        BY <2>3, <3>1, <1>8 DEF WholeMessage, fragVars
    <2>4. CASE StartMessage(f)
      BY <2>4 DEF StartMessage, TooLong
    <2>5. CASE UNCHANGED <<fragVars, delivered>>
      BY <2>5 DEF fragVars
    <2> QED
      BY <2>1, <2>2, <2>3, <2>4, <2>5 DEF TakeFrame, f
  <1>10. BufferOK'
    BY <1>5, <1>6, <1>9, RxAssumption DEF DataInv, BufferOK, BuffersHold
  <1> QED
    BY <1>7, <1>10 DEF DataInv

\* The server's writes leave the buffer where it is.
LEMMA WriteData ==
  ASSUME DataInv, NEW f \in Stream, Write(f), pc' = pc
  PROVE  DataInv'
  <1>1. /\ WriterOK'
        /\ Len(wire') = Len(wire) + 1
        /\ \A i \in 1 .. Len(wire) : wire'[i] = wire[i]
        /\ wire'[Len(wire) + 1].start = WireEnd
        /\ WireEnd' = WireEnd + Size(f)
    <2> DEFINE item == [start   |-> WireEnd,
                        frame   |-> f,
                        count   |-> Len(sent'),
                        pending |-> Unfinished(Pending, f)]
    <2>1. WriterOK
      BY DEF DataInv
    <2>2. /\ WriterOK'
          /\ Len(wire') = Len(wire) + 1
          /\ \A i \in 1 .. Len(wire) : wire'[i] = wire[i]
          /\ wire'[Len(wire) + 1] = item
          /\ WireEnd' = WireEnd + Size(f)
      BY <2>1, WriteExtends
    <2>3. item.start = WireEnd
      OBVIOUS
    <2> HIDE DEF item
    <2> QED
      BY <2>2, <2>3
  <1>2. /\ arrived' = arrived /\ rxLen' = rxLen /\ message' = message
        /\ msgLen' = msgLen /\ fragOp' = fragOp /\ delivered' = delivered
    BY DEF Write, rxVars, fragVars
  <1>3. Len(wire) \in Nat /\ WireEnd \in Nat /\ Size(f) \in Nat
    BY EndType, StreamFrame DEF DataInv, WriterOK
  <1>4. DOMAIN wire = 1 .. Len(wire) /\ DOMAIN wire' = 1 .. (Len(wire) + 1)
    BY <1>1 DEF DataInv, WriterOK, StreamOK
  <1>5. Front' = Front
    BY <1>2 DEF Front
  <1>6. OnBoundary'
    <2>1. CASE Front = WireEnd
      <3>1. Len(wire) + 1 \in DOMAIN wire'
        BY <1>3, <1>4
      <3> QED
        BY <2>1, <3>1, <1>1, <1>5 DEF OnBoundary
    <2>2. CASE \E i \in DOMAIN wire : wire[i].start = Front
      <3>1. PICK i \in 1 .. Len(wire) : wire[i].start = Front
        BY <2>2, <1>4
      <3>2. i \in DOMAIN wire' /\ wire'[i].start = Front'
        BY <3>1, <1>1, <1>3, <1>4, <1>5
      <3> QED
        BY <3>2 DEF OnBoundary
    <2> QED
      BY <2>1, <2>2 DEF DataInv, BufferOK, FramesAligned, OnBoundary
  <1>7. FramesAligned'
    BY <1>1, <1>2, <1>3, <1>6 DEF FramesAligned, DataInv, BufferOK
  <1> QED
    BY <1>1, <1>2, <1>7 DEF DataInv, BufferOK, BuffersHold

\* A segment that fits is appended without moving the front.
LEMMA ReceiveData ==
  ASSUME DataInv, NEW n \in Segments, Receive(n)
  PROVE  DataInv'
  <1>1. n \in Nat \ {0} /\ arrived + n <= WireEnd /\ rxLen + n <= Capacity
    BY RxAssumption
    DEF Segments, Receive, Overflows, DataInv, BufferOK
  <1>2. /\ arrived' = arrived + n /\ rxLen' = rxLen + n /\ message' = message
        /\ msgLen' = msgLen /\ fragOp' = fragOp /\ delivered' = delivered
    BY DEF Receive, Buffer, fragVars
  <1>3. wire' = wire /\ sent' = sent
    BY DEF Receive, peerVars
  <1>4. WriterOK'
    BY <1>3, WriterStutters DEF peerVars, DataInv
  <1>5. Front' = Front /\ WireEnd' = WireEnd
    BY <1>1, <1>2, <1>3 DEF Front, WireEnd, LastItem, DataInv, BufferOK
  <1>6. OnBoundary'
    BY <1>3, <1>5 DEF OnBoundary, DataInv, BufferOK, FramesAligned
  <1>7. /\ arrived' \in Nat /\ rxLen' \in Nat /\ rxLen' > 0
        /\ rxLen' <= arrived' /\ arrived' <= WireEnd'
    BY <1>1, <1>2, <1>5 DEF DataInv, BufferOK, FramesAligned
  <1> QED
    BY <1>1, <1>2, <1>4, <1>6, <1>7
    DEF DataInv, BufferOK, BuffersHold, FramesAligned

\* The response is consumed like a frame.
LEMMA AcceptData ==
  ASSUME DataInv, HandshakeAccepted
  PROVE  DataInv'
  <1>1. /\ rxLen > 0 /\ rxLen >= Size(FrontFrame) /\ Used(FrontFrame)
        /\ pc' # "handshake"
    BY DEF HandshakeAccepted, ResponseComplete, DataInv, BufferOK
  <1>2. /\ arrived' = arrived /\ message' = message /\ msgLen' = msgLen
        /\ fragOp' = fragOp /\ delivered' = delivered
        /\ wire' = wire /\ sent' = sent
    BY DEF HandshakeAccepted, peerVars, fragVars
  <1>3. rxLen' \in Nat /\ rxLen' < rxLen /\ FramesAligned'
    BY <1>1, <1>2, ConsumeAligned
  <1>4. WriterOK'
    BY <1>2, WriterStutters DEF peerVars, DataInv
  <1> QED
    BY <1>1, <1>2, <1>3, <1>4, RxAssumption
    DEF DataInv, BufferOK, BuffersHold

\* Steps that touch neither the stream nor the buffers.
LEMMA QuietData ==
  ASSUME DataInv, UNCHANGED <<rxVars, peerVars>>,
         pc' = "handshake" => pc = "handshake"
  PROVE  DataInv'
  <1>1. /\ arrived' = arrived /\ rxLen' = rxLen /\ message' = message
        /\ msgLen' = msgLen /\ fragOp' = fragOp /\ delivered' = delivered
        /\ wire' = wire /\ sent' = sent
    BY DEF rxVars, fragVars, peerVars
  <1>2. WriterOK'
    BY <1>1, WriterStutters DEF peerVars, DataInv
  <1>3. FramesAligned'
    BY <1>1 DEF DataInv, BufferOK, FramesAligned, OnBoundary, Front, WireEnd,
      LastItem
  <1> QED
    BY <1>1, <1>2, <1>3 DEF DataInv, BufferOK, BuffersHold

LEMMA RetryDrops == ScheduleRetry => Dropped
  BY DEF ScheduleRetry, CloseConnection, Dropped

LEMMA DroppedInv ==
  ASSUME Dropped, pc' # "handshake"
  PROVE  DataInv'
  BY DroppedData DEF DataInv

LEMMA DataInit == Init => DataInv
  <1> SUFFICES ASSUME Init PROVE DataInv
    OBVIOUS
  <1>1. RxInit
    BY DEF Init, WsInit
  <1>2. WriterOK
    BY <1>1 DEF RxInit, WriterOK, StreamOK
  <1>3. BufferOK
    BY <1>1, RxAssumption
    DEF Init, WsInit, RxInit, BufferOK, FramesAligned, BuffersHold,
        OnBoundary, Front, WireEnd
  <1> QED
    BY <1>2, <1>3 DEF DataInv

LEMMA DataNext == DataInv /\ [Next]_vars => DataInv'
  <1> SUFFICES ASSUME DataInv, [Next]_vars PROVE DataInv'
    OBVIOUS
  <1>1. CASE UNCHANGED vars
    BY <1>1, QuietData DEF vars, wsVars
  <1>2. CASE Environment
    <2>1. CASE ServerRespond
      BY <2>1, WriteData DEF ServerRespond, Stream
    <2>2. CASE ServerSend
      BY <2>2, WriteData DEF ServerSend, Stream
    <2>3. CASE NetworkChange
      BY <2>3, QuietData DEF NetworkChange
    <2> QED
      BY <1>2, <2>1, <2>2, <2>3 DEF Environment
  <1>3. CASE CallbackStep
    <2>1. CASE \/ ConnectedFail \/ ReceiveFin \/ ReceiveAbort
               \/ \E n \in Segments : ReceiveOverflow(n)
      BY <2>1, RetryDrops, DroppedInv
      DEF ConnectedFail, ReceiveFin, ReceiveAbort, ReceiveOverflow
    <2>2. CASE ErrorCallback
      BY <2>2, DroppedInv DEF ErrorCallback, Dropped
    <2>3. CASE \E n \in Segments : Receive(n)
      BY <2>3, ReceiveData
    <2>4. CASE Connected \/ HandshakeWait \/ HandshakeRefused \/ FramesWait
               \/ FramesRefuse \/ FramesPingFail \/ ReceivePong
      BY <2>4, QuietData DEF Connected, ReceivePong, HandshakeWait, HandshakeRefused,
        FramesWait, FramesRefuse, FramesPingFail, wsVars
    <2>5. CASE HandshakeAccepted
      BY <2>5, AcceptData
    <2>6. CASE FramesTake
      <3>1. UNCHANGED peerVars /\ pc' = "frames"
        BY <2>6 DEF FramesTake
      <3> QED
        BY <2>6, <3>1, TakeData DEF FramesTake
    <2>7. CASE FramesPing
      <3>1. /\ UNCHANGED peerVars /\ pc' = "frames"
            /\ UNCHANGED <<arrived, fragVars, delivered>>
        BY <2>7 DEF FramesPing
      <3> QED
        BY <2>7, <3>1, TakeData DEF FramesPing
    <2> QED
      BY <1>3, <2>1, <2>2, <2>3, <2>4, <2>5, <2>6, <2>7 DEF CallbackStep
  <1>4. CASE TaskStep
    <2>1. CASE TaskTimeout \/ TaskConnectFail \/ TaskGiveUp
      BY <2>1, RetryDrops, DroppedInv
      DEF TaskTimeout, TaskConnectFail, TaskGiveUp
    <2>2. CASE TaskOffline
      <3>1. pc' # "handshake"
        BY <2>2 DEF TaskOffline
      <3>2. CASE CloseConnection
        BY <3>1, <3>2, DroppedInv DEF CloseConnection, Dropped
      <3>3. CASE UNCHANGED <<rxVars, peerVars>>
        BY <3>1, <3>3, QuietData
      <3> QED
        BY <2>2, <3>2, <3>3 DEF TaskOffline
    <2>3. CASE TaskConnect \/ TaskPing \/ TaskPingFail \/ TaskIdle
      BY <2>3, QuietData
      DEF TaskConnect, TaskPing, TaskPingFail, TaskIdle, wsVars
    <2> QED
      BY <1>4, <2>1, <2>2, <2>3 DEF TaskStep
  <1>5. CASE EddjsonStep
    BY <1>5, QuietData
    DEF EddjsonStep, OpenedRequest, OpenedFail, OpenedDone, PeriodicRequest,
        PeriodicFail, PeriodicSkip, Sleep, wsVars
  <1> QED
    BY <1>1, <1>2, <1>3, <1>4, <1>5 DEF Next, WebSocketStep

LEMMA DataAlways == Spec => []DataInv
  BY DataInit, DataNext, PTL DEF Spec

\* Every variable has its type.
THEOREM TypeCorrect == Spec => []TypeOK
  <1>1. ControlInv /\ DataInv => TypeOK
    BY DEF ControlInv, FlagsOK, ClocksOK, PlaceInv, DataInv, WriterOK,
      StreamOK, BufferOK, TypeOK, WsTypeOK, RxTypeOK
  <1> QED
    BY <1>1, ControlAlways, DataAlways, PTL

\* The buffer starts at the first byte of an item, whatever the segmentation.
THEOREM AlwaysFramesAligned == Spec => []FramesAligned
  <1>1. DataInv => FramesAligned
    BY DEF DataInv, BufferOK
  <1> QED
    BY <1>1, DataAlways, PTL

\* No bytes pass the end of s_rx or of s_message.
THEOREM BuffersAlwaysHold == Spec => []BuffersHold
  <1>1. DataInv => BuffersHold
    BY DEF DataInv, BufferOK
  <1> QED
    BY <1>1, DataAlways, PTL

-------------------------------------------------------------------------------
\* What is left in the buffer between two handlers.

Idle == pc \in {"loop", "giveup", "periodic", "sleep"}

\* Between two handlers and throughout the task, the item at the front is not
\* complete.
DrainedInv == Idle /\ rxLen > 0 => rxLen < Size(FrontFrame)

\* A write of the server leaves the item at the front what it was: the item it
\* adds starts behind the bytes of the buffer.
LEMMA WriteKeepsFront ==
  ASSUME DataInv, rxLen > 0, NEW f \in Stream, Write(f)
  PROVE  rxLen' = rxLen /\ FrontFrame' = FrontFrame
  <1> DEFINE item == [start   |-> WireEnd,
                      frame   |-> f,
                      count   |-> Len(sent'),
                      pending |-> Unfinished(Pending, f)]
  <1>1. /\ Len(wire') = Len(wire) + 1
        /\ \A i \in 1 .. Len(wire) : wire'[i] = wire[i]
        /\ wire'[Len(wire) + 1] = item
        /\ WriterOK'
    BY WriteExtends DEF DataInv
  <1>2. item.start = WireEnd
    OBVIOUS
  <1> HIDE DEF item
  <1>3. arrived' = arrived /\ rxLen' = rxLen
    BY DEF Write, rxVars
  <1>4. Front' = Front /\ Front < WireEnd
    BY <1>3, EndType DEF Front, DataInv, WriterOK, BufferOK, FramesAligned
  <1>5. Len(wire) \in Nat /\ DOMAIN wire = 1 .. Len(wire)
        /\ DOMAIN wire' = 1 .. Len(wire) + 1
    BY <1>1, EndType DEF DataInv, WriterOK, StreamOK
  <1>6. FrontIndex \in 1 .. Len(wire) /\ wire[FrontIndex].start = Front
    BY FrontItem DEF DataInv, WriterOK, BufferOK
  <1>7. ASSUME NEW i \in 1 .. Len(wire) + 1, wire'[i].start = Front
        PROVE  i \in 1 .. Len(wire) /\ wire[i].start = Front
    <2>1. CASE i = Len(wire) + 1
      <3>1. wire'[i].start = WireEnd
        BY <1>1, <1>2, <2>1
      <3>2. WireEnd \in Nat /\ Front \in Int
        BY EndType DEF Front, DataInv, WriterOK, BufferOK
      <3>. QED
        BY <1>4, <1>7, <3>1, <3>2
    <2>2. CASE i \in 1 .. Len(wire)
      <3>1. wire'[i] = wire[i]
        BY <1>1, <2>2
      <3>. QED
        BY <1>7, <2>2, <3>1
    <2>. QED
      BY <1>5, <2>1, <2>2
  <1>8. ASSUME NEW i \in 1 .. Len(wire), NEW j \in 1 .. Len(wire),
               wire[i].start = wire[j].start
        PROVE  i = j
    <2>1. ASSUME NEW k \in 1 .. Len(wire), NEW l \in 1 .. Len(wire), k < l
          PROVE  wire[k].start < wire[l].start
      <3>1. End(k) <= wire[l].start
        BY <2>1 DEF DataInv, WriterOK, StreamOK
      <3>2. /\ wire[k].start \in Nat /\ End(k) \in Nat /\ wire[l].start \in Nat
            /\ wire[k].start < End(k)
        BY EndType DEF DataInv, WriterOK
      <3>. QED
        BY <3>1, <3>2
    <2>2. wire[i].start \in Nat /\ wire[j].start \in Nat
      BY EndType DEF DataInv, WriterOK
    <2>. QED
      BY <1>8, <2>1, <2>2
  <1>9. FrontIndex' \in 1 .. Len(wire) + 1 /\ wire'[FrontIndex'].start = Front
    <2>1. FrontIndex \in DOMAIN wire' /\ wire'[FrontIndex].start = Front'
      BY <1>1, <1>4, <1>5, <1>6
    <2>. QED
      BY <2>1, <1>4, <1>5 DEF FrontIndex
  <1>10. FrontIndex' = FrontIndex
    BY <1>6, <1>7, <1>8, <1>9
  <1>. QED
    BY <1>1, <1>3, <1>6, <1>10 DEF FrontFrame

\* Nor does a step that touches neither buffer nor stream.
LEMMA QuietKeepsFront ==
  ASSUME UNCHANGED <<rxVars, peerVars>>
  PROVE  rxLen' = rxLen /\ FrontFrame' = FrontFrame
BY DEF rxVars, peerVars, FrontFrame, FrontIndex, Front

\* When consume_frames has nothing more to do, the item is not complete.
LEMMA WaitDrains ==
  ASSUME DataInv, NeedsMore, rxLen > 0
  PROVE  rxLen < Size(FrontFrame)
  <1>1. FrontFrame \in Stream
    BY FrontItem DEF DataInv, WriterOK, BufferOK
  <1>2. /\ FrontFrame.ext \in Nat /\ Size(FrontFrame) \in Nat
        /\ FrontFrame.ext >= 2 /\ Size(FrontFrame) >= FrontFrame.ext
    BY <1>1, StreamFrame
  <1>. QED
    BY <1>2 DEF NeedsMore, DataInv, BufferOK

LEMMA DrainedNext == DataInv /\ DrainedInv /\ [Next]_vars => DrainedInv'
  <1> SUFFICES ASSUME DataInv, DrainedInv, [Next]_vars PROVE DrainedInv'
    OBVIOUS
  <1>0. ASSUME UNCHANGED <<rxVars, peerVars>>, Idle' => Idle PROVE DrainedInv'
    <2>1. (Size(FrontFrame))' = Size(FrontFrame) /\ rxLen' = rxLen
      BY <1>0, QuietKeepsFront DEF Size, Header, Length
    <2>. QED
      BY <1>0, <2>1 DEF DrainedInv
  <1>1. CASE UNCHANGED vars
    BY <1>0, <1>1 DEF vars, wsVars, Idle
  <1>2. CASE Environment
    <2>1. ASSUME NEW f \in Stream, Write(f), pc' = pc PROVE DrainedInv'
      <3>1. rxLen' = rxLen /\ rxLen \in Nat
        BY <2>1 DEF Write, rxVars, DataInv, BufferOK
      <3>2. rxLen > 0 => (Size(FrontFrame))' = Size(FrontFrame)
        BY <2>1, WriteKeepsFront DEF Size, Header, Length
      <3>. QED
        BY <2>1, <3>1, <3>2 DEF DrainedInv, Idle
    <2>2. CASE ServerRespond
      BY <2>1, <2>2 DEF ServerRespond, Stream
    <2>3. CASE ServerSend
      BY <2>1, <2>3 DEF ServerSend, Stream
    <2>4. CASE NetworkChange
      BY <1>0, <2>4 DEF NetworkChange, Idle
    <2>. QED
      BY <1>2, <2>2, <2>3, <2>4 DEF Environment
  <1>3. CASE CallbackStep
    <2>1. CASE \/ ConnectedFail \/ ReceiveFin \/ ReceiveAbort
               \/ \E n \in Segments : ReceiveOverflow(n)
      BY <2>1 DEF ConnectedFail, ReceiveFin, ReceiveAbort, ReceiveOverflow,
        ScheduleRetry, CloseConnection, ClearRx, DrainedInv
    <2>2. CASE ErrorCallback
      BY <2>2 DEF ErrorCallback, ClearRx, DrainedInv
    <2>3. CASE \/ \E n \in Segments : Receive(n)
               \/ HandshakeAccepted \/ FramesTake \/ FramesPing
      BY <2>3 DEF Receive, HandshakeAccepted, FramesTake, FramesPing, DrainedInv, Idle
    <2>4. CASE \/ Connected \/ HandshakeRefused \/ FramesRefuse \/ FramesPingFail
               \/ ReceivePong
      BY <1>0, <2>4 DEF Connected, ReceivePong, HandshakeRefused, FramesRefuse, FramesPingFail,
        wsVars, Idle
    <2>5. CASE HandshakeWait \/ FramesWait
      <3>1. UNCHANGED <<rxVars, peerVars>>
        BY <2>5 DEF HandshakeWait, FramesWait, wsVars
      <3>2. rxLen > 0 => rxLen < Size(FrontFrame)
        <4>1. CASE HandshakeWait
          <5>1. ASSUME rxLen > 0 PROVE Size(FrontFrame) \in Nat
            BY <5>1, FrontItem, StreamFrame DEF DataInv, WriterOK, BufferOK
          <5>. QED
            BY <4>1, <5>1 DEF HandshakeWait, ResponseComplete, DataInv, BufferOK
        <4>2. CASE FramesWait
          BY <4>2, WaitDrains DEF FramesWait
        <4>. QED
          BY <2>5, <4>1, <4>2
      <3>3. (Size(FrontFrame))' = Size(FrontFrame) /\ rxLen' = rxLen
        BY <3>1, QuietKeepsFront DEF Size, Header, Length
      <3>. QED
        BY <3>2, <3>3 DEF DrainedInv
    <2>. QED
      BY <1>3, <2>1, <2>2, <2>3, <2>4, <2>5 DEF CallbackStep
  <1>4. CASE TaskStep
    <2>1. CASE TaskTimeout \/ TaskConnectFail \/ TaskGiveUp
      BY <2>1 DEF TaskTimeout, TaskConnectFail, TaskGiveUp, ScheduleRetry,
        CloseConnection, ClearRx, DrainedInv
    <2>2. CASE TaskOffline
      <3>1. CASE CloseConnection
        BY <3>1 DEF CloseConnection, ClearRx, DrainedInv
      <3>2. CASE UNCHANGED <<rxVars, peerVars>>
        BY <1>0, <2>2, <3>2 DEF TaskOffline, Idle
      <3>. QED
        BY <2>2, <3>1, <3>2 DEF TaskOffline
    <2>3. CASE TaskConnect \/ TaskPing \/ TaskPingFail \/ TaskIdle
      BY <1>0, <2>3
      DEF TaskConnect, TaskPing, TaskPingFail, TaskIdle, wsVars, Idle
    <2>. QED
      BY <1>4, <2>1, <2>2, <2>3 DEF TaskStep
  <1>5. CASE EddjsonStep
    BY <1>0, <1>5
    DEF EddjsonStep, OpenedRequest, OpenedFail, OpenedDone, PeriodicRequest,
        PeriodicFail, PeriodicSkip, Sleep, wsVars, Idle
  <1>. QED
    BY <1>1, <1>2, <1>3, <1>4, <1>5 DEF Next, WebSocketStep

LEMMA DrainedAlways == Spec => []DrainedInv
  <1>1. Init => DrainedInv
    BY DEF Init, WsInit, RxInit, DrainedInv
  <1>. QED
    BY <1>1, DrainedNext, DataAlways, PTL DEF Spec

\* When receive_cb has returned no complete frame waits in the buffer for the
\* next segment, whatever came in one segment with what.
THEOREM AlwaysDrained == Spec => []Drained
  <1>1. DrainedInv => Drained
    BY DEF DrainedInv, Drained, Idle
  <1>. QED
    BY <1>1, DrainedAlways, PTL

\* receive_cb drops a connection for lack of room only when the item at the front
\* and one more segment could not share the buffer.
THEOREM NeverOverflowsNeedlessly == Spec => []NoNeedlessOverflow
  <1>1. ASSUME DataInv, DrainedInv PROVE NoNeedlessOverflow
    <2> SUFFICES ASSUME pc = "loop", NEW n \in Segments, Overflows(n)
                 PROVE  Size(FrontFrame) + MaxSegment > Capacity + 1
      BY DEF NoNeedlessOverflow
    <2>1. /\ n \in Nat \ {0} /\ n <= MaxSegment /\ arrived + n <= WireEnd
          /\ rxLen + n > Capacity /\ rxLen \in Nat
      BY <1>1, RxAssumption DEF Segments, Overflows, DataInv, BufferOK
    <2>2. FrontFrame \in Stream
      <3>1. /\ StreamOK /\ arrived \in Nat /\ rxLen <= arrived /\ WireEnd \in Nat
            /\ OnBoundary
        BY <1>1, EndType DEF DataInv, WriterOK, BufferOK, FramesAligned
      <3>2. Front # WireEnd
        BY <2>1, <3>1 DEF Front
      <3>3. FrontIndex \in DOMAIN wire
        BY <3>1, <3>2 DEF OnBoundary, FrontIndex
      <3>4. wire[FrontIndex] \in Item
        BY <3>1, <3>3 DEF StreamOK
      <3>. QED
        BY <3>4 DEF FrontFrame, Item, Stream
    <2>3. Size(FrontFrame) \in Nat \ {0}
      BY <2>2, StreamFrame
    <2>4. rxLen > 0 => rxLen < Size(FrontFrame)
      BY <1>1 DEF DrainedInv, Idle
    <2>. QED
      BY <2>1, <2>3, <2>4, RxAssumption
  <1>. QED
    BY <1>1, DataAlways, DrainedAlways, PTL

-------------------------------------------------------------------------------
\* Pings and periodic requests.

\* The task has looked at the ping when it comes to the periodic request.
AskingInv ==
  /\ pc \in {"periodic", "sleep"} /\ state = "OPEN" /\ PingInterval # 0
       => pingAge <= PingInterval
  /\ pc = "sleep" /\ state = "OPEN" /\ PeriodicInterval # 0
       => periodicAge <= PeriodicInterval

LEMMA AskingNext == ControlInv /\ AskingInv /\ [Next]_vars => AskingInv'
  <1> SUFFICES ASSUME ControlInv, AskingInv, [Next]_vars PROVE AskingInv'
    OBVIOUS
  <1>0. /\ pingAge \in Nat /\ periodicAge \in Nat
        /\ PingInterval \in Nat /\ PeriodicInterval \in Nat
    BY CapIsNat, WsAssumption, EddAssumption
    DEF ControlInv, ClocksOK, TimersOK, EddTypeOK
  <1>1. CASE UNCHANGED vars
    BY <1>1 DEF vars, wsVars, linkVars, timers, eddVars, AskingInv
  <1>2. CASE Environment
    BY <1>2 DEF Environment, ServerRespond, ServerSend, NetworkChange, AskingInv
  <1>3. CASE WebSocketStep /\ CallbackStep
    BY <1>3 DEF CallbackStep, Connected, ConnectedFail, Receive, ReceivePong, ReceiveOverflow,
      ReceiveFin, ErrorCallback, HandshakeWait, HandshakeRefused, HandshakeAccepted,
      FramesWait, FramesRefuse, FramesTake, FramesPing, FramesPingFail, ReceiveAbort,
      AskingInv
  <1>4. CASE WebSocketStep /\ TaskStep
    <2>1. CASE \/ TaskOffline \/ TaskConnect \/ TaskConnectFail \/ TaskTimeout
               \/ TaskGiveUp \/ TaskPingFail
      BY <2>1 DEF TaskOffline, TaskConnect, TaskConnectFail, TaskTimeout, TaskGiveUp,
        TaskPingFail, ScheduleRetry, AskingInv
    <2>2. CASE TaskPing
      BY <1>0, <2>2 DEF TaskPing, AskingInv
    <2>3. CASE TaskIdle
      BY <1>0, <2>3 DEF TaskIdle, PingDue, Elapsed, wsVars, linkVars, timers, AskingInv
    <2>. QED
      BY <1>4, <2>1, <2>2, <2>3 DEF TaskStep
  <1>5. CASE EddjsonStep
    <2>1. CASE OpenedRequest \/ OpenedFail \/ OpenedDone
      BY <2>1 DEF OpenedRequest, OpenedFail, OpenedDone, AskingInv
    <2>2. CASE PeriodicRequest \/ PeriodicFail \/ PeriodicSkip
      BY <1>0, <2>2 DEF PeriodicRequest, PeriodicFail, PeriodicSkip, PeriodicDue,
        Elapsed, wsVars, linkVars, timers, eddVars, AskingInv
    <2>3. CASE \E d \in 0 .. IterMax : Sleep(d)
      BY <2>3 DEF Sleep, AskingInv
    <2>. QED
      BY <1>5, <2>1, <2>2, <2>3 DEF EddjsonStep
  <1>. QED
    BY <1>2, <1>1, <1>3, <1>4, <1>5 DEF Next, WebSocketStep

\* When an iteration ends with an open connection, neither the ping nor the
\* periodic request is overdue.
THEOREM AlwaysKeepsAsking == Spec => []KeepsAsking
  <1>1. Init => AskingInv
    BY DEF Init, WsInit, AskingInv
  <1>2. AskingInv => KeepsAsking
    BY DEF AskingInv, KeepsAsking
  <1>. QED
    BY <1>1, <1>2, AskingNext, ControlAlways, PTL DEF Spec

-------------------------------------------------------------------------------
(***************************************************************************)
(* EddjsonClient implements ReconnectingLink and MessageChannel, for every *)
(* value of the constants.                                                 *)
(***************************************************************************)

\* Time.

\* A link that is down has waited since its last attempt, or still has to; and
\* once the task has looked at the clock, no timeout is over.
WaitInv == pcb = "none" => gap + retryIn >= OfflineDelay

HeardInv ==
  pc \in {"periodic", "sleep"} =>
    /\ state = "OPEN" /\ IdleTimeout # 0 => rxAge <= IdleTimeout
    /\ state \in {"CONNECTING", "HANDSHAKE"} /\ ConnectTimeout # 0
         => rxAge <= ConnectTimeout

LEMMA TimesAreNat ==
  ASSUME ControlInv
  PROVE  /\ gap \in Nat /\ retryIn \in Nat /\ rxAge \in Nat /\ gap <= OfflineDelay
         /\ retryDelay \in Nat /\ retryDelay >= OfflineDelay
BY CapIsNat, WsAssumption DEF ControlInv, ClocksOK, TimersOK

LEMMA RetryWaits ==
  ASSUME ControlInv, ScheduleRetry, gap' \in Nat
  PROVE  WaitInv'
BY TimesAreNat, WsAssumption DEF ScheduleRetry, WaitInv

LEMMA WaitNext == ControlInv /\ WaitInv /\ [Next]_vars => WaitInv'
  <1> SUFFICES ASSUME ControlInv, WaitInv, [Next]_vars PROVE WaitInv'
    OBVIOUS
  <1>0. /\ gap \in Nat /\ retryIn \in Nat /\ gap <= OfflineDelay
        /\ retryDelay \in Nat /\ retryDelay >= OfflineDelay /\ OfflineDelay \in Nat
    BY TimesAreNat, WsAssumption
  <1>1. CASE UNCHANGED vars
    BY <1>1 DEF vars, wsVars, linkVars, timers, WaitInv
  <1>2. CASE Environment
    BY <1>2 DEF Environment, ServerRespond, ServerSend, NetworkChange, linkVars,
      timers, WaitInv
  <1>3. CASE CallbackStep
    <2>1. CASE \/ ConnectedFail \/ ReceiveFin \/ ReceiveAbort
               \/ \E n \in Segments : ReceiveOverflow(n)
      BY <1>0, <2>1, RetryWaits
      DEF ConnectedFail, ReceiveFin, ReceiveAbort, ReceiveOverflow
    <2>2. CASE ErrorCallback
      BY <1>0, <2>2 DEF ErrorCallback, WaitInv
    <2>3. CASE \/ \E n \in Segments : Receive(n)
               \/ Connected \/ HandshakeAccepted \/ FramesPing \/ FramesPingFail
               \/ ReceivePong
      BY <2>3 DEF Receive, ReceivePong, Connected, HandshakeAccepted, FramesPing, FramesPingFail,
        timers, WaitInv
    <2>4. CASE HandshakeWait \/ HandshakeRefused \/ FramesWait \/ FramesRefuse
               \/ FramesTake
      BY <2>4 DEF HandshakeWait, HandshakeRefused, FramesWait, FramesRefuse,
        FramesTake, wsVars, linkVars, timers, WaitInv
    <2>. QED
      BY <1>3, <2>1, <2>2, <2>3, <2>4 DEF CallbackStep
  <1>4. CASE TaskStep
    <2>1. CASE TaskConnectFail \/ TaskTimeout \/ TaskGiveUp
      BY <1>0, <2>1, RetryWaits DEF TaskConnectFail, TaskTimeout, TaskGiveUp
    <2>2. CASE TaskOffline
      BY <1>0, <2>2 DEF TaskOffline, WaitInv
    <2>3. CASE TaskConnect
      BY <2>3 DEF TaskConnect, WaitInv
    <2>4. CASE TaskPing \/ TaskPingFail \/ TaskIdle
      BY <2>4 DEF TaskPing, TaskPingFail, TaskIdle, wsVars, linkVars, timers, WaitInv
    <2>. QED
      BY <1>4, <2>1, <2>2, <2>3, <2>4 DEF TaskStep
  <1>5. CASE EddjsonStep
    <2>1. CASE OpenedRequest \/ OpenedFail \/ OpenedDone
      BY <2>1 DEF OpenedRequest, OpenedFail, OpenedDone, wsVars, linkVars, timers,
        WaitInv
    <2>2. CASE PeriodicRequest \/ PeriodicFail \/ PeriodicSkip
      BY <2>2 DEF PeriodicRequest, PeriodicFail, PeriodicSkip, wsVars, linkVars,
        timers, WaitInv
    <2>3. CASE \E d \in 0 .. IterMax : Sleep(d)
      <3>1. PICK d \in 0 .. IterMax : Sleep(d)
        BY <2>3
      <3>2. /\ retryIn' = IF retryIn > d THEN retryIn - d ELSE 0
            /\ gap' = IF gap + d > OfflineDelay THEN OfflineDelay ELSE gap + d
            /\ pcb' = pcb
        BY <3>1 DEF Sleep, Age, AtMost
      <3>. QED
        BY <1>0, <3>2, WsAssumption DEF WaitInv
    <2>. QED
      BY <1>5, <2>1, <2>2, <2>3 DEF EddjsonStep
  <1>. QED
    BY <1>1, <1>2, <1>3, <1>4, <1>5 DEF Next, WebSocketStep

LEMMA HeardNext == ControlInv /\ HeardInv /\ [Next]_vars => HeardInv'
  <1> SUFFICES ASSUME ControlInv, HeardInv, [Next]_vars PROVE HeardInv'
    OBVIOUS
  <1>0. /\ rxAge \in Nat /\ IdleTimeout \in Nat /\ ConnectTimeout \in Nat
        /\ pcb = "none" <=> state \in {"OFFLINE", "ERROR"}
    BY TimesAreNat, WsAssumption DEF ControlInv, PlaceInv, PcbMatchesState
  <1>1. CASE UNCHANGED vars
    BY <1>1 DEF vars, wsVars, linkVars, timers, HeardInv
  <1>2. CASE Environment
    BY <1>2 DEF Environment, ServerRespond, ServerSend, NetworkChange, HeardInv
  <1>3. CASE CallbackStep
    BY <1>3 DEF CallbackStep, Connected, ConnectedFail, Receive, ReceivePong, ReceiveOverflow,
      ReceiveFin, ErrorCallback, HandshakeWait, HandshakeRefused, HandshakeAccepted,
      FramesWait, FramesRefuse, FramesTake, FramesPing, FramesPingFail, ReceiveAbort,
      HeardInv
  <1>4. CASE TaskStep
    <2>1. CASE TaskConnectFail \/ TaskTimeout \/ TaskGiveUp \/ TaskOffline
      BY <2>1 DEF TaskConnectFail, TaskTimeout, TaskGiveUp, TaskOffline, ScheduleRetry,
        HeardInv
    <2>2. CASE TaskConnect \/ TaskPingFail
      BY <1>0, <2>2 DEF TaskConnect, TaskPingFail, HeardInv
    <2>3. CASE TaskPing
      BY <1>0, <2>3 DEF TaskPing, PingDue, IdleExpired, Elapsed, HeardInv
    <2>4. CASE TaskIdle
      BY <1>0, <2>4 DEF TaskIdle, IdleExpired, ConnectExpired, Elapsed, wsVars,
        linkVars, timers, HeardInv
    <2>. QED
      BY <1>4, <2>1, <2>2, <2>3, <2>4 DEF TaskStep
  <1>5. CASE EddjsonStep
    BY <1>5 DEF EddjsonStep, OpenedRequest, OpenedFail, OpenedDone, PeriodicRequest,
      PeriodicFail, PeriodicSkip, Sleep, wsVars, linkVars, timers, HeardInv
  <1>. QED
    BY <1>1, <1>2, <1>3, <1>4, <1>5 DEF Next, WebSocketStep

TimeInv == ControlInv /\ WaitInv /\ HeardInv

LEMMA TimeAlways == Spec => []TimeInv
  <1>1. Init => WaitInv /\ HeardInv
    BY WsAssumption DEF Init, WsInit, WaitInv, HeardInv
  <1>2. Init => TimeInv
    BY <1>1, ControlInit DEF TimeInv
  <1>3. TimeInv /\ [Next]_vars => TimeInv'
    BY ControlNext, WaitNext, HeardNext DEF TimeInv
  <1>. QED
    BY <1>2, <1>3, PTL DEF Spec

\* The states of the client as phases of a link.
Quiet == IF Phase = "down" THEN 0 ELSE rxAge

LEMMA Phases ==
  ASSUME state \in States
  PROVE  /\ Phase = "down" <=> state \in {"OFFLINE", "ERROR"}
         /\ Phase = "trying" <=> state \in {"CONNECTING", "HANDSHAKE"}
         /\ Phase = "up" <=> state = "OPEN"
BY DEF Phase, States

\* Attempts are spaced, and neither an attempt nor a connection outlives its
\* timeout in silence: every step is one of ReconnectingLink or a stutter.
THEOREM AlwaysKeepsTime ==
  ASSUME ConnectTimeout # 0, IdleTimeout # 0
  PROVE  Spec => KeepsTime
  <1>1. Init => Link!Init
    BY DEF Init, WsInit, Link!Init, Phase
  <1>2. TimeInv /\ TimeInv' /\ [Next]_vars => [Link!Next]_(Link!linkVars)
    <2> SUFFICES ASSUME TimeInv, TimeInv', [Next]_vars
                 PROVE  Link!Next \/ UNCHANGED <<Phase, Quiet, gap>>
      BY DEF Link!linkVars, Quiet
    <2>0. /\ gap \in Nat /\ retryIn \in Nat /\ rxAge \in Nat /\ gap <= OfflineDelay
          /\ OfflineDelay \in Nat /\ IdleTimeout \in Nat /\ ConnectTimeout \in Nat
          /\ IterMax \in Nat
      BY TimesAreNat, WsAssumption DEF TimeInv
    <2>1. /\ state \in States /\ state' \in States
          /\ pcb = "none" <=> state \in {"OFFLINE", "ERROR"}
          /\ pcb = "syn" <=> state = "CONNECTING"
          /\ pc = "handshake" => state = "HANDSHAKE"
          /\ pc = "abort" => state \in {"HANDSHAKE", "OPEN"}
          /\ pc = "giveup" => state = "OPEN"
      BY DEF TimeInv, ControlInv, PlaceInv, PlacesOK, PcbMatchesState, PcMatchesState
    <2>2. /\ Phase = "down" <=> state \in {"OFFLINE", "ERROR"}
          /\ Phase = "trying" <=> state \in {"CONNECTING", "HANDSHAKE"}
          /\ Phase = "up" <=> state = "OPEN"
      BY <2>1, Phases
    <2>3. /\ Phase' = "down" <=> state' \in {"OFFLINE", "ERROR"}
          /\ Phase' = "trying" <=> state' \in {"CONNECTING", "HANDSHAKE"}
          /\ Phase' = "up" <=> state' = "OPEN"
      BY <2>1 DEF Phase, States
    <2>4. ASSUME Phase # "down", Phase' = "down", gap' = gap PROVE Link!Next
      BY <2>4 DEF Link!Next, Link!Lose
    <2>5. ASSUME state' = state, rxAge' = rxAge, gap' = gap
          PROVE  UNCHANGED <<Phase, Quiet, gap>>
      BY <2>5 DEF Phase, Quiet
    <2>6. ASSUME Phase = "down", Phase' = "down", gap' = gap
          PROVE  UNCHANGED <<Phase, Quiet, gap>>
      BY <2>6 DEF Quiet
    <2>7. CASE UNCHANGED vars
      BY <2>5, <2>7 DEF vars, wsVars, linkVars, timers
    <2>8. CASE Environment
      BY <2>5, <2>8 DEF Environment, ServerRespond, ServerSend, NetworkChange,
        linkVars, timers
    <2>9. CASE CallbackStep
      <3>1. CASE \/ ConnectedFail \/ ReceiveFin \/ ReceiveAbort \/ ErrorCallback
                 \/ \E n \in Segments : ReceiveOverflow(n)
        BY <2>1, <2>2, <2>3, <2>4, <3>1 DEF ConnectedFail, ReceiveFin, ReceiveAbort,
          ErrorCallback, ReceiveOverflow, ScheduleRetry
      <3>2. CASE Connected
        <4>1. Phase = "trying" /\ Phase' = "trying" /\ rxAge' = rxAge /\ gap' = gap
          BY <2>1, <2>2, <2>3, <3>2 DEF Connected, timers
        <4>. QED
          BY <4>1 DEF Quiet
      <3>3. CASE ReceivePong \/ \E n \in Segments : Receive(n)
        <4>1. /\ Phase # "down" /\ Phase' = Phase /\ rxAge' = 0 /\ gap' = gap
          BY <2>1, <2>2, <3>3 DEF Receive, ReceivePong, Phase
        <4>. QED
          BY <4>1 DEF Link!Next, Link!Hear
      <3>4. CASE HandshakeAccepted
        <4>1. Phase = "trying" /\ Phase' = "up" /\ rxAge' = 0 /\ gap' = gap
          BY <2>1, <2>2, <2>3, <3>4 DEF HandshakeAccepted
        <4>. QED
          BY <4>1 DEF Link!Next, Link!Establish
      <3>5. CASE FramesPing \/ FramesPingFail
        BY <2>5, <3>5 DEF FramesPing, FramesPingFail, timers
      <3>6. CASE HandshakeWait \/ HandshakeRefused \/ FramesWait \/ FramesRefuse
                 \/ FramesTake
        BY <2>5, <3>6 DEF HandshakeWait, HandshakeRefused, FramesWait, FramesRefuse,
          FramesTake, wsVars, linkVars, timers
      <3>. QED
        BY <2>9, <3>1, <3>2, <3>3, <3>4, <3>5, <3>6 DEF CallbackStep
    <2>10. CASE TaskStep
      <3>1. ASSUME MayConnect PROVE Phase = "down" /\ gap = OfflineDelay
        BY <2>0, <2>2, <3>1 DEF MayConnect, TimeInv, WaitInv
      <3>2. CASE TaskConnect
        <4>1. Phase' = "trying" /\ rxAge' = 0 /\ gap' = 0 /\ MayConnect
          BY <2>3, <3>2 DEF TaskConnect
        <4>. QED
          BY <3>1, <4>1 DEF Link!Next, Link!Attempt
      <3>3. CASE TaskConnectFail
        <4>1. Phase' = "down" /\ gap' = 0 /\ MayConnect
          BY <2>3, <3>3 DEF TaskConnectFail, ScheduleRetry
        <4>. QED
          BY <3>1, <4>1 DEF Link!Next, Link!Attempt
      <3>4. CASE TaskOffline
        BY <2>1, <2>2, <2>3, <2>4, <2>6, <3>4 DEF TaskOffline
      <3>5. CASE TaskTimeout \/ TaskGiveUp
        BY <2>1, <2>2, <2>3, <2>4, <3>5 DEF TaskTimeout, TaskGiveUp, ScheduleRetry,
          IdleExpired, ConnectExpired
      <3>6. CASE TaskPing \/ TaskPingFail \/ TaskIdle
        BY <2>5, <3>6 DEF TaskPing, TaskPingFail, TaskIdle, wsVars, linkVars, timers
      <3>. QED
        BY <2>10, <3>2, <3>3, <3>4, <3>5, <3>6 DEF TaskStep
    <2>11. CASE EddjsonStep
      <3>1. CASE \/ OpenedRequest \/ OpenedFail \/ OpenedDone
                 \/ PeriodicRequest \/ PeriodicFail \/ PeriodicSkip
        BY <2>5, <3>1 DEF OpenedRequest, OpenedFail, OpenedDone, PeriodicRequest,
          PeriodicFail, PeriodicSkip, wsVars, linkVars, timers
      <3>2. CASE \E d \in 0 .. IterMax : Sleep(d)
        <4>1. PICK d \in 0 .. IterMax : Sleep(d)
          BY <3>2
        <4>2. /\ rxAge' = IF rxAge + d > RxAgeCap THEN RxAgeCap ELSE rxAge + d
              /\ gap' = IF gap + d > OfflineDelay THEN OfflineDelay ELSE gap + d
              /\ state' = state /\ pc = "sleep"
          BY <4>1 DEF Sleep, Age, AtMost
        <4>3. Phase' = Phase
          BY <4>2 DEF Phase
        <4>4. ASSUME Phase # "down"
              PROVE  rxAge <= (IF Phase = "up" THEN IdleTimeout ELSE ConnectTimeout)
          BY <2>1, <2>2, <4>2, <4>4 DEF TimeInv, HeardInv, States
        <4>5. /\ RxAgeCap \in Nat
              /\ IdleTimeout + IterMax < RxAgeCap
              /\ ConnectTimeout + IterMax < RxAgeCap
          BY <2>0 DEF RxAgeCap, CapOf
        <4>6. ASSUME Phase # "down" PROVE rxAge' = rxAge + d
          BY <2>0, <4>2, <4>4, <4>5, <4>6
        <4>7. Link!Elapse(d)
          BY <4>2, <4>3, <4>4, <4>6 DEF Link!Elapse, Link!Timeout
        <4>. QED
          BY <4>7 DEF Link!Next
      <3>. QED
        BY <2>11, <3>1, <3>2 DEF EddjsonStep
    <2>. QED
      BY <2>7, <2>8, <2>9, <2>10, <2>11 DEF Next, WebSocketStep
  <1>. QED
    BY <1>1, <1>2, TimeAlways, PTL DEF Spec, KeepsTime, Link!Spec

-------------------------------------------------------------------------------
\* Messages.

\* What is complete and what is unfinished before item k, which starts at
\* StartOf(k); the place behind the last item counts as an item here.
StartOf(k) == IF k = 1 THEN 0 ELSE End(k - 1)
CountBefore(k) == IF k = 1 THEN 0 ELSE wire[k - 1].count
Before(k) == IF k = 1 THEN NoMessage ELSE wire[k - 1].pending

\* An item tells what follows from the one before it, and the message that it
\* completes is the one that its count says.
Told(k) ==
  LET m == Finished(Before(k), wire[k].frame)
  IN  /\ wire[k].pending = Unfinished(Before(k), wire[k].frame)
      /\ wire[k].count = CountBefore(k) + Len(m)
      /\ wire[k].count <= Len(sent)
      /\ m # <<>> => sent[wire[k].count] = m[1]

ServerInv ==
  /\ \A k \in 1 .. Len(wire) : Told(k)
  /\ CountBefore(Len(wire) + 1) = Len(sent)

\* The client has delivered what is complete before the item at the front of its
\* buffer, and its own unfinished message is the one before this item.
Holds(p) == p.op = fragOp /\ p.data = message /\ p.len = msgLen

ReaderInv ==
  /\ fragOp = "none" => message = <<>> /\ msgLen = 0
  /\ \A k \in 1 .. Len(wire) + 1 :
       Front = StartOf(k) => Len(delivered) = CountBefore(k) /\ Holds(Before(k))

StoryInv == DataInv /\ ServerInv /\ ReaderInv

LEMMA BeforeType ==
  ASSUME DataInv, NEW k \in 1 .. Len(wire) + 1
  PROVE  /\ Before(k) \in PendingSet /\ CountBefore(k) \in Nat /\ StartOf(k) \in Nat
         /\ Len(wire) \in Nat
  <1>1. Len(wire) \in Nat
    BY EndType DEF DataInv, WriterOK
  <1>2. CASE k = 1
    BY <1>1, <1>2 DEF Before, CountBefore, StartOf, NoMessage, PendingSet, DataOps
  <1>3. CASE k # 1
    <2>1. k - 1 \in 1 .. Len(wire)
      BY <1>1, <1>3
    <2>2. wire[k - 1] \in Item
      BY <2>1 DEF DataInv, WriterOK, StreamOK
    <2>3. wire[k - 1].pending \in PendingSet /\ wire[k - 1].count \in Nat
      BY <2>2 DEF Item, PendingSet
    <2>4. End(k - 1) \in Nat
      BY <2>1, EndType DEF DataInv, WriterOK
    <2>. QED
      BY <1>1, <1>3, <2>3, <2>4 DEF Before, CountBefore, StartOf
  <1>. QED
    BY <1>2, <1>3

\* Two items do not start at the same place.
LEMMA StartsDiffer ==
  ASSUME DataInv, NEW k \in 1 .. Len(wire) + 1, NEW l \in 1 .. Len(wire) + 1, k < l
  PROVE  StartOf(k) < StartOf(l)
  <1>1. k \in 1 .. Len(wire) /\ l - 1 \in 1 .. Len(wire) /\ l # 1
    BY EndType DEF DataInv, WriterOK
  <1>2. StartOf(k) = wire[k].start /\ StartOf(l) = End(l - 1)
    BY <1>1 DEF StartOf, DataInv, WriterOK, StreamOK
  <1>3. /\ wire[k].start < End(k) /\ wire[k].start \in Nat /\ End(k) \in Nat
        /\ wire[l - 1].start < End(l - 1) /\ wire[l - 1].start \in Nat
        /\ End(l - 1) \in Nat
    BY <1>1, EndType DEF DataInv, WriterOK
  <1>4. CASE k = l - 1
    BY <1>2, <1>3, <1>4
  <1>5. CASE k < l - 1
    <2>1. End(k) <= wire[l - 1].start
      BY <1>1, <1>5 DEF DataInv, WriterOK, StreamOK
    <2>. QED
      BY <1>2, <1>3, <2>1
  <1>. QED
    BY <1>4, <1>5

LEMMA OneStart ==
  ASSUME DataInv, NEW k \in 1 .. Len(wire) + 1, NEW l \in 1 .. Len(wire) + 1,
         StartOf(k) = StartOf(l)
  PROVE  k = l
  <1>1. Len(wire) \in Nat /\ StartOf(k) \in Nat /\ StartOf(l) \in Nat
    BY BeforeType
  <1>2. ~(k < l) /\ ~(l < k)
    BY <1>1, StartsDiffer
  <1>. QED
    BY <1>1, <1>2

\* RFC 6455 reassembly and the client's agree on every frame that is not refused:
\* this is where the server's view and the code of consume_frames meet.
LEMMA TakeAgrees ==
  ASSUME NEW p \in PendingSet, NEW f \in Stream, Holds(p),
         fragOp \in DataOps \cup {"none"}, delivered \in Seq(Messages),
         fragOp = "none" => message = <<>> /\ msgLen = 0,
         Size(f) <= Capacity, f.op # "accept" => ~Refused(f),
         \/ TakeFrame(f)
         \/ f.op \in {"ping", "accept"} /\ UNCHANGED <<fragVars, delivered>>
  PROVE  /\ Unfinished(p, f).op = fragOp'
         /\ Unfinished(p, f).data = message'
         /\ Unfinished(p, f).len = msgLen'
         /\ delivered' = delivered \o Finished(p, f)
         /\ fragOp' = "none" => message' = <<>> /\ msgLen' = 0
  <1>1. /\ f.payload \in Payload /\ Length(f) \in Nat /\ Size(f) \in Nat
        /\ p.data \in Seq(Payload) /\ p.len \in Nat /\ Capacity \in Nat
        /\ f.op \in FrameOps \cup {"accept", "reject"}
    BY StreamFrame, RxAssumption DEF PendingSet
  <1>2. /\ p.op = fragOp /\ p.data = message /\ p.len = msgLen
        /\ p.op = "none" => p.data = <<>> /\ p.len = 0
    BY DEF Holds
  <1>3. f.op \in DataOps \cup {"cont", "pong", "ping", "accept"}
    BY DEF TakeFrame, ContinueMessage, FinishMessage, WholeMessage, StartMessage
  <1>4. ~Breaks(p, f)
    BY <1>1, <1>2, <1>3 DEF Breaks, Refused, DataOps, ControlOps
  <1>5. CASE ContinueMessage(f)
    <2>1. Unfinished(p, f) = Extend(p, f) /\ Finished(p, f) = <<>>
      BY <1>4, <1>5 DEF ContinueMessage, Unfinished, Finished
    <2>. QED
      BY <1>2, <1>4, <1>5, <2>1, ConcatEmptySeq
      DEF ContinueMessage, Extend, Breaks
  <1>6. CASE FinishMessage(f)
    <2>1. Unfinished(p, f) = NoMessage
      BY <1>4, <1>6 DEF FinishMessage, Unfinished
    <2>2. /\ Extend(p, f).op = fragOp /\ Extend(p, f).data = Append(message, f.payload)
          /\ Extend(p, f).len = msgLen + Length(f)
      BY <1>2, <1>6 DEF FinishMessage, Extend
    <2>3. Finished(p, f) =
            IF fragOp = "text"
            THEN <<[data |-> Append(message, f.payload), len |-> msgLen + Length(f)]>>
            ELSE <<>>
      BY <1>4, <1>6, <2>2 DEF FinishMessage, Finished
    <2>4. [data |-> Append(message, f.payload), len |-> msgLen + Length(f)] \in Messages
      BY <1>1, <1>2 DEF Messages
    <2>5. delivered' = delivered \o Finished(p, f)
      BY <1>6, <2>3, <2>4, ConcatEmptySeq, AppendIsConcat DEF FinishMessage, DeliverText
    <2>. QED
      BY <1>6, <2>1, <2>5 DEF FinishMessage, NoMessage
  <1>7. CASE WholeMessage(f)
    <2>1. Unfinished(p, f) = NoMessage
      BY <1>4, <1>7 DEF WholeMessage, Unfinished
    <2>2. p.op = "none" /\ p.data = <<>> /\ p.len = 0 /\ f.op # "cont"
      BY <1>2, <1>4, <1>7 DEF WholeMessage, Breaks, DataOps
    <2>3. /\ Extend(p, f).op = f.op /\ Extend(p, f).data = <<f.payload>>
          /\ Extend(p, f).len = Length(f)
      BY <1>1, <2>2 DEF Extend
    <2>4. Finished(p, f) =
            IF f.op = "text" THEN <<[data |-> <<f.payload>>, len |-> Length(f)]>>
            ELSE <<>>
      BY <1>4, <1>7, <2>3 DEF WholeMessage, Finished
    <2>5. [data |-> <<f.payload>>, len |-> Length(f)] \in Messages
      BY <1>1 DEF Messages
    <2>6. delivered' = delivered \o Finished(p, f)
      BY <1>7, <2>4, <2>5, ConcatEmptySeq, AppendIsConcat DEF WholeMessage, DeliverText
    <2>. QED
      BY <1>2, <1>7, <2>1, <2>2, <2>6 DEF WholeMessage, NoMessage, fragVars
  <1>8. CASE StartMessage(f)
    <2>1. Unfinished(p, f) = Extend(p, f) /\ Finished(p, f) = <<>>
      BY <1>4, <1>8 DEF StartMessage, Unfinished, Finished
    <2>2. p.op = "none" /\ p.data = <<>> /\ p.len = 0 /\ f.op # "cont"
      BY <1>2, <1>4, <1>8 DEF StartMessage, Breaks, DataOps
    <2>. QED
      BY <1>1, <1>8, <2>1, <2>2, ConcatEmptySeq DEF StartMessage, Extend, DataOps
  <1>9. CASE f.op \in {"pong", "ping", "accept"} /\ UNCHANGED <<fragVars, delivered>>
    <2>1. Unfinished(p, f) = p /\ Finished(p, f) = <<>>
      BY <1>4, <1>9 DEF Unfinished, Finished, DataOps
    <2>. QED
      BY <1>2, <1>9, <2>1, ConcatEmptySeq DEF fragVars
  <1>. QED
    BY <1>5, <1>6, <1>7, <1>8, <1>9 DEF TakeFrame

\* The item at the front is taken as the server meant it, and its message, if it
\* completes one, is the next that the server has sent.
LEMMA TakeStory ==
  ASSUME StoryInv, DataInv', rxLen > 0, rxLen >= Size(FrontFrame),
         FrontFrame.op # "accept" => ~Refused(FrontFrame),
         UNCHANGED peerVars, Used(FrontFrame), arrived' = arrived,
         \/ TakeFrame(FrontFrame)
         \/ FrontFrame.op \in {"ping", "accept"} /\ UNCHANGED <<fragVars, delivered>>
  PROVE  StoryInv' /\ (Channel!Deliver \/ UNCHANGED <<sent, delivered>>)
  <1> DEFINE i == FrontIndex
             f == FrontFrame
             m == Finished(Before(i), f)
  <1>1. /\ i \in 1 .. Len(wire) /\ wire[i].start = Front /\ f \in Stream
        /\ f = wire[i].frame
    BY FrontItem DEF StoryInv, DataInv, WriterOK, BufferOK, FrontFrame
  <1>2. /\ Len(wire) \in Nat /\ i \in 1 .. Len(wire) + 1 /\ i + 1 \in 1 .. Len(wire) + 1
        /\ i + 1 # 1 /\ (i + 1) - 1 = i
    BY <1>1, EndType DEF StoryInv, DataInv, WriterOK
  <1>3. StartOf(i) = Front
    BY <1>1 DEF StartOf, StoryInv, DataInv, WriterOK, StreamOK
  <1>4. /\ Before(i) \in PendingSet /\ CountBefore(i) \in Nat
        /\ Holds(Before(i)) /\ Len(delivered) = CountBefore(i)
    BY <1>2, <1>3, BeforeType DEF StoryInv, ReaderInv
  <1>5. Size(f) <= Capacity
    BY <1>1, StreamFrame, RxAssumption DEF StoryInv, DataInv, BufferOK, BuffersHold
  <1>6. wire' = wire /\ sent' = sent
    BY DEF peerVars
  <1>7. Front' = StartOf(i + 1)
    <2>1. Front' = End(i)
      BY <1>6, ConsumeAligned DEF StoryInv
    <2>. QED
      BY <1>2, <2>1 DEF StartOf
  <1> HIDE DEF i, f
  <1>8. /\ Unfinished(Before(i), f).op = fragOp'
        /\ Unfinished(Before(i), f).data = message'
        /\ Unfinished(Before(i), f).len = msgLen'
        /\ delivered' = delivered \o m
        /\ fragOp' = "none" => message' = <<>> /\ msgLen' = 0
    <2>1. /\ fragOp \in DataOps \cup {"none"} /\ delivered \in Seq(Messages)
          /\ fragOp = "none" => message = <<>> /\ msgLen = 0
      BY DEF StoryInv, DataInv, BufferOK, ReaderInv
    <2>2. /\ f.op # "accept" => ~Refused(f)
          /\ \/ TakeFrame(f)
             \/ f.op \in {"ping", "accept"} /\ UNCHANGED <<fragVars, delivered>>
      BY DEF f
    <2>. QED
      BY <1>1, <1>4, <1>5, <2>1, <2>2, TakeAgrees
  <1>9. Told(i)
    BY <1>1 DEF StoryInv, ServerInv
  <1>10. /\ wire[i].pending = Unfinished(Before(i), f)
         /\ wire[i].count = CountBefore(i) + Len(m)
         /\ wire[i].count <= Len(sent)
         /\ m # <<>> => sent[wire[i].count] = m[1]
    BY <1>1, <1>9 DEF Told
  <1>11. /\ m \in Seq(Messages)
         /\ m = <<>> \/ (Len(m) = 1 /\ m[1] \in Messages /\ m = <<m[1]>>)
    <2>1. m \in Seq(Messages) /\ (m = <<>> \/ Len(m) = 1)
      BY <1>1, <1>4, FinishedType
    <2> HIDE DEF m
    <2>2. Len(m) = 1 => m[1] \in Messages /\ m = <<m[1]>>
      BY <2>1
    <2>. QED
      BY <2>1, <2>2
  <1> HIDE DEF m
  <1>12. delivered \in Seq(Messages) /\ sent \in Seq(Messages)
    BY DEF StoryInv, DataInv, BufferOK, WriterOK
  <1>13. Len(delivered') = Len(delivered) + Len(m)
    BY <1>8, <1>11, <1>12, ConcatProperties
  <1>14. \A k : /\ StartOf(k)' = StartOf(k) /\ Before(k)' = Before(k)
                /\ CountBefore(k)' = CountBefore(k)
    BY <1>6 DEF StartOf, Before, CountBefore, End
  <1>15. ReaderInv'
    <2> SUFFICES ASSUME NEW k \in 1 .. Len(wire) + 1, Front' = StartOf(k)
                 PROVE  Len(delivered') = CountBefore(k) /\ Holds(Before(k))'
      BY <1>6, <1>8, <1>14 DEF ReaderInv
    <2>1. k = i + 1
      BY <1>2, <1>7, OneStart DEF StoryInv
    <2>2. CountBefore(k) = wire[i].count /\ Before(k) = wire[i].pending
      BY <1>2, <2>1 DEF CountBefore, Before
    <2>3. Before(k)' = wire[i].pending
      BY <1>14, <2>2
    <2>. QED
      BY <1>4, <1>8, <1>10, <1>13, <2>2, <2>3 DEF Holds
  <1>16. ServerInv'
    BY <1>6, <1>14 DEF ServerInv, Told, StoryInv
  <1>17. m # <<>> => Channel!Deliver
    <2> SUFFICES ASSUME m # <<>> PROVE Channel!Deliver
      OBVIOUS
    <2>1. Len(m) = 1 /\ m = <<m[1]>> /\ m[1] \in Messages
      BY <1>11
    <2>2. wire[i].count = Len(delivered) + 1 /\ Len(delivered) \in Nat /\ Len(sent) \in Nat
      BY <1>4, <1>10, <1>12, <2>1
    <2>3. m[1] = sent[Len(delivered) + 1] /\ Len(delivered) < Len(sent)
      BY <1>10, <2>2
    <2>4. delivered' = Append(delivered, m[1])
      BY <1>8, <1>12, <2>1, AppendIsConcat
    <2>. QED
      BY <1>6, <2>3, <2>4 DEF Channel!Deliver
  <1>18. m = <<>> => UNCHANGED <<sent, delivered>>
    BY <1>6, <1>8, <1>12, ConcatEmptySeq
  <1>. QED
    BY <1>15, <1>16, <1>17, <1>18 DEF StoryInv

\* The server's next item.
LEMMA WriteStory ==
  ASSUME StoryInv, DataInv', NEW f \in Stream, Write(f)
  PROVE  StoryInv' /\ (Channel!Send \/ UNCHANGED <<sent, delivered>>)
  <1>0. PICK n \in Nat : n = Len(wire) + 1
    BY EndType DEF StoryInv, DataInv, WriterOK
  <1> DEFINE m == Finished(Pending, f)
             item == [start |-> WireEnd, frame |-> f, count |-> Len(sent'),
                      pending |-> Unfinished(Pending, f)]
  <1>1. /\ Len(wire') = n /\ wire'[n] = item
        /\ \A k \in 1 .. Len(wire) : wire'[k] = wire[k]
        /\ WireEnd' = WireEnd + Size(f)
    BY <1>0, WriteExtends DEF StoryInv, DataInv
  <1>2. /\ Len(wire) \in Nat /\ n \in 1 .. Len(wire) + 1 /\ WireEnd \in Nat
        /\ Pending \in PendingSet
    BY <1>0, EndType DEF StoryInv, DataInv, WriterOK
  <1>3. item.frame = f /\ item.count = Len(sent') /\ item.pending = Unfinished(Pending, f)
    OBVIOUS
  <1>4. /\ m \in Seq(Messages) /\ (m = <<>> \/ Len(m) = 1)
        /\ sent \in Seq(Messages) /\ sent' = sent \o m /\ delivered' = delivered
        /\ rxLen' = rxLen /\ arrived' = arrived /\ message' = message
        /\ msgLen' = msgLen /\ fragOp' = fragOp
    BY <1>2, FinishedType
    DEF StoryInv, DataInv, WriterOK, Write, rxVars, fragVars
  <1>5. Pending = Before(n) /\ CountBefore(n) = Len(sent)
    <2>1. CountBefore(n) = Len(sent)
      BY <1>0 DEF StoryInv, ServerInv
    <2>2. CASE wire = <<>>
      BY <1>0, <2>1, <2>2 DEF Pending, Before
    <2>3. CASE wire # <<>>
      <3>1. n # 1 /\ n - 1 = Len(wire)
        BY <1>0, <1>2, <2>3 DEF StoryInv, DataInv, WriterOK, StreamOK
      <3>. QED
        BY <2>1, <2>3, <3>1 DEF Pending, LastItem, Before
    <2>. QED
      BY <2>2, <2>3
  <1> HIDE DEF item, m
  <1>6. ASSUME NEW k \in 1 .. Len(wire) + 1
        PROVE  /\ Before(k)' = Before(k) /\ CountBefore(k)' = CountBefore(k)
               /\ StartOf(k)' = StartOf(k)
    <2>1. CASE k = 1
      BY <2>1 DEF Before, CountBefore, StartOf
    <2>2. CASE k # 1
      <3>1. k - 1 \in 1 .. Len(wire)
        BY <1>2, <2>2
      <3>2. wire'[k - 1] = wire[k - 1]
        BY <1>1, <3>1
      <3>. QED
        BY <2>2, <3>2 DEF Before, CountBefore, StartOf, End
    <2>. QED
      BY <2>1, <2>2
  <1>7. /\ Len(sent') = Len(sent) + Len(m) /\ Len(sent) \in Nat /\ Len(m) \in Nat
        /\ \A c \in 1 .. Len(sent) : sent'[c] = sent[c]
        /\ m # <<>> => sent'[Len(sent) + 1] = m[1]
    BY <1>4, ConcatProperties
  <1>8. ASSUME NEW k \in 1 .. Len(wire) PROVE Told(k)'
    <2>1. Told(k) /\ k \in 1 .. Len(wire) + 1
      BY <1>2 DEF StoryInv, ServerInv
    <2>2. wire'[k] = wire[k] /\ Before(k)' = Before(k) /\ CountBefore(k)' = CountBefore(k)
      BY <1>1, <1>6, <2>1
    <2>3. ASSUME Finished(Before(k), wire[k].frame) # <<>>
          PROVE  sent'[wire[k].count] = sent[wire[k].count]
      <3>1. wire[k].frame \in Stream
        <4>1. wire[k] \in Item
          BY DEF StoryInv, DataInv, WriterOK, StreamOK
        <4>. QED
          BY <4>1 DEF Item, Stream
      <3>2. Before(k) \in PendingSet /\ CountBefore(k) \in Nat
        BY <2>1, BeforeType DEF StoryInv
      <3>3. Len(Finished(Before(k), wire[k].frame)) = 1
        BY <2>3, <3>1, <3>2, FinishedType
      <3>4. wire[k].count \in 1 .. Len(sent)
        BY <1>7, <2>1, <3>2, <3>3 DEF Told
      <3>. QED
        BY <1>7, <3>4
    <2>4. CountBefore(k) \in Nat /\ wire[k].count <= Len(sent')
      <3>1. wire[k].count \in Nat
        <4>1. wire[k] \in Item
          BY DEF StoryInv, DataInv, WriterOK, StreamOK
        <4>. QED
          BY <4>1 DEF Item
      <3>. QED
        BY <1>7, <2>1, <3>1, BeforeType DEF Told, StoryInv
    <2>. QED
      BY <2>1, <2>2, <2>3, <2>4 DEF Told
  <1>9. Told(n)'
    <2>1. /\ wire'[n] = item /\ Before(n)' = Pending /\ CountBefore(n)' = Len(sent)
      BY <1>0, <1>1, <1>2, <1>5, <1>6
    <2>2. Len(m) = 1 => Len(sent') = Len(sent) + 1
      BY <1>7
    <2>3. m # <<>> => sent'[Len(sent')] = m[1]
      BY <1>4, <1>7, <2>2
    <2>. QED
      BY <1>3, <1>7, <2>1, <2>3 DEF Told, m
  <1>10. CountBefore(Len(wire) + 1)' = Len(sent')
    <2>1. n + 1 # 1 /\ (n + 1) - 1 = n
      BY <1>0, <1>2
    <2>2. wire'[Len(wire')].count = Len(sent') /\ Len(wire') + 1 # 1
          /\ (Len(wire') + 1) - 1 = Len(wire')
      BY <1>1, <1>3, <2>1
    <2>. QED
      BY <2>2 DEF CountBefore
  <1>11. ServerInv'
    <2> SUFFICES ASSUME NEW k \in 1 .. Len(wire') PROVE Told(k)'
      BY <1>10 DEF ServerInv
    <2>1. k \in 1 .. Len(wire) \/ k = n
      BY <1>0, <1>1, <1>2
    <2>. QED
      BY <1>8, <1>9, <2>1
  <1>12. ReaderInv'
    <2>1. Front' = Front /\ Front <= WireEnd /\ Front \in Int
      BY <1>2, <1>4 DEF Front, StoryInv, DataInv, BufferOK, FramesAligned
    <2>2. StartOf(n + 1)' > WireEnd
      <3>1. n + 1 # 1 /\ (n + 1) - 1 = n
        BY <1>0, <1>2
      <3>2. StartOf(n + 1)' = WireEnd + Size(f)
        <4>1. wire'[n].start + Size(wire'[n].frame) = WireEnd + Size(f)
          BY <1>1 DEF item
        <4>. QED
          BY <3>1, <4>1 DEF StartOf, End
      <3>. QED
        BY <1>2, <3>2, StreamFrame
    <2> SUFFICES ASSUME NEW k \in 1 .. Len(wire') + 1, Front' = StartOf(k)'
                 PROVE  Len(delivered') = CountBefore(k)' /\ Holds(Before(k))'
      BY <1>4 DEF ReaderInv, StoryInv
    <2>3. k \in 1 .. Len(wire) + 1
      <3>1. k \in 1 .. Len(wire) + 1 \/ k = n + 1
        BY <1>0, <1>1, <1>2
      <3>2. ASSUME k = n + 1 PROVE FALSE
        <4>1. StartOf(k)' = StartOf(n + 1)'
          BY <3>2 DEF StartOf
        <4>2. StartOf(n + 1)' = Front
          BY <2>1, <4>1
        <4>. QED
          BY <1>2, <2>1, <2>2, <4>2
      <3>. QED
        BY <3>1, <3>2
    <2>4. Front = StartOf(k)
      BY <1>6, <2>1, <2>3
    <2>. QED
      BY <1>4, <1>6, <2>3, <2>4 DEF StoryInv, ReaderInv, Holds
  <1>13. m = <<>> => UNCHANGED <<sent, delivered>>
    BY <1>4, ConcatEmptySeq
  <1>14. m # <<>> => Channel!Send
    <2> SUFFICES ASSUME m # <<>> PROVE Channel!Send
      OBVIOUS
    <2>1. Len(m) = 1 /\ m[1] \in Messages /\ m = <<m[1]>>
      BY <1>4
    <2>2. sent' = Append(sent, m[1]) /\ Len(sent') = Len(sent) + 1
      BY <1>4, <1>7, <2>1
    <2>3. sent'[Len(sent) + 1] = m[1]
      BY <1>7
    <2>. QED
      BY <1>4, <2>1, <2>2, <2>3 DEF Channel!Send
  <1>. QED
    BY <1>11, <1>12, <1>13, <1>14 DEF StoryInv

\* A lost connection is forgotten.
LEMMA DropStory ==
  ASSUME Dropped, DataInv'
  PROVE  StoryInv' /\ Channel!Lose
  <1>1. /\ wire' = <<>> /\ sent' = <<>> /\ arrived' = 0 /\ delivered' = <<>>
        /\ rxLen' = 0 /\ message' = <<>> /\ msgLen' = 0 /\ fragOp' = "none"
    BY DEF Dropped, ClearRx, DropStream
  <1>2. ServerInv'
    BY <1>1 DEF ServerInv, CountBefore
  <1>3. ReaderInv'
    BY <1>1 DEF ReaderInv, CountBefore, Before, Holds, NoMessage
  <1>. QED
    BY <1>1, <1>2, <1>3 DEF StoryInv, Channel!Lose

LEMMA ReceiveStory ==
  ASSUME StoryInv, DataInv', NEW n \in Segments, Receive(n)
  PROVE  StoryInv' /\ UNCHANGED <<sent, delivered>>
  <1>1. /\ wire' = wire /\ sent' = sent /\ message' = message /\ msgLen' = msgLen
        /\ fragOp' = fragOp /\ delivered' = delivered
        /\ arrived' = arrived + n /\ rxLen' = rxLen + n
    BY DEF Receive, Buffer, fragVars, peerVars
  <1>2. Front' = Front
    BY <1>1, RxAssumption DEF Front, Segments, StoryInv, DataInv, BufferOK
  <1>3. \A k : /\ StartOf(k)' = StartOf(k) /\ Before(k)' = Before(k)
               /\ CountBefore(k)' = CountBefore(k)
    BY <1>1 DEF StartOf, Before, CountBefore, End
  <1>. QED
    BY <1>1, <1>2, <1>3 DEF StoryInv, ServerInv, ReaderInv, Told, Holds

LEMMA QuietStory ==
  ASSUME StoryInv, DataInv', UNCHANGED <<rxVars, peerVars>>
  PROVE  StoryInv' /\ UNCHANGED <<sent, delivered>>
  <1>1. /\ wire' = wire /\ sent' = sent /\ message' = message /\ msgLen' = msgLen
        /\ fragOp' = fragOp /\ delivered' = delivered
        /\ arrived' = arrived /\ rxLen' = rxLen
    BY DEF rxVars, peerVars, fragVars
  <1>2. Front' = Front
    BY <1>1 DEF Front
  <1>3. \A k : /\ StartOf(k)' = StartOf(k) /\ Before(k)' = Before(k)
               /\ CountBefore(k)' = CountBefore(k)
    BY <1>1 DEF StartOf, Before, CountBefore, End
  <1>. QED
    BY <1>1, <1>2, <1>3 DEF StoryInv, ServerInv, ReaderInv, Told, Holds

LEMMA StoryNext ==
  ASSUME StoryInv, [Next]_vars
  PROVE  StoryInv' /\ [Channel!Next]_(Channel!channelVars)
  <1> SUFFICES StoryInv' /\ (\/ Channel!Send \/ Channel!Deliver \/ Channel!Lose
                             \/ UNCHANGED <<sent, delivered>>)
    BY DEF Channel!Next, Channel!channelVars
  <1>0. DataInv'
    BY DataNext DEF StoryInv
  <1>1. CASE UNCHANGED vars
    BY <1>0, <1>1, QuietStory DEF vars, wsVars
  <1>2. CASE Environment
    <2>1. CASE ServerRespond
      BY <1>0, <2>1, WriteStory DEF ServerRespond, Stream
    <2>2. CASE ServerSend
      BY <1>0, <2>2, WriteStory DEF ServerSend, Stream
    <2>3. CASE NetworkChange
      BY <1>0, <2>3, QuietStory DEF NetworkChange
    <2>. QED
      BY <1>2, <2>1, <2>2, <2>3 DEF Environment
  <1>3. CASE CallbackStep
    <2>1. CASE \/ ConnectedFail \/ ReceiveFin \/ ReceiveAbort
               \/ \E n \in Segments : ReceiveOverflow(n)
      BY <1>0, <2>1, RetryDrops, DropStory
      DEF ConnectedFail, ReceiveFin, ReceiveAbort, ReceiveOverflow
    <2>2. CASE ErrorCallback
      BY <1>0, <2>2, DropStory DEF ErrorCallback, Dropped
    <2>3. CASE \E n \in Segments : Receive(n)
      BY <1>0, <2>3, ReceiveStory
    <2>4. CASE Connected \/ HandshakeWait \/ HandshakeRefused \/ FramesWait
               \/ FramesRefuse \/ FramesPingFail \/ ReceivePong
      BY <1>0, <2>4, QuietStory DEF Connected, ReceivePong, HandshakeWait, HandshakeRefused,
        FramesWait, FramesRefuse, FramesPingFail, wsVars
    <2>5. CASE HandshakeAccepted
      <3>1. /\ rxLen > 0 /\ rxLen >= Size(FrontFrame) /\ FrontFrame.op = "accept"
            /\ UNCHANGED peerVars /\ Used(FrontFrame) /\ arrived' = arrived
            /\ UNCHANGED <<fragVars, delivered>>
        BY <2>5 DEF HandshakeAccepted, ResponseComplete, StoryInv, DataInv, BufferOK
      <3>. QED
        BY <1>0, <3>1, TakeStory
    <2>6. ASSUME ~NeedsMore, ~Refused(FrontFrame)
          PROVE  rxLen > 0 /\ rxLen >= Size(FrontFrame)
      <3>1. rxLen >= 2 /\ ~TooLong(FrontFrame) /\ rxLen \in Nat
        BY <2>6 DEF NeedsMore, Refused, StoryInv, DataInv, BufferOK
      <3>2. FrontFrame \in Stream
        BY <3>1, FrontItem DEF StoryInv, DataInv, WriterOK, BufferOK
      <3>3. Size(FrontFrame) \in Nat
        BY <3>2, StreamFrame
      <3>. QED
        BY <2>6, <3>1, <3>3 DEF NeedsMore
    <2>7. CASE FramesTake
      <3>1. /\ ~NeedsMore /\ ~Refused(FrontFrame) /\ TakeFrame(FrontFrame)
            /\ UNCHANGED peerVars /\ Used(FrontFrame) /\ arrived' = arrived
        BY <2>7 DEF FramesTake, TakeFrame
      <3>. QED
        BY <1>0, <2>6, <3>1, TakeStory
    <2>8. CASE FramesPing
      <3>1. /\ ~NeedsMore /\ ~Refused(FrontFrame) /\ FrontFrame.op = "ping"
            /\ UNCHANGED peerVars /\ Used(FrontFrame) /\ arrived' = arrived
            /\ UNCHANGED <<fragVars, delivered>>
        BY <2>8 DEF FramesPing
      <3>. QED
        BY <1>0, <2>6, <3>1, TakeStory
    <2>. QED
      BY <1>3, <2>1, <2>2, <2>3, <2>4, <2>5, <2>7, <2>8 DEF CallbackStep
  <1>4. CASE TaskStep
    <2>1. CASE TaskTimeout \/ TaskConnectFail \/ TaskGiveUp
      BY <1>0, <2>1, RetryDrops, DropStory
      DEF TaskTimeout, TaskConnectFail, TaskGiveUp
    <2>2. CASE TaskOffline
      <3>1. CASE CloseConnection
        BY <1>0, <3>1, DropStory DEF CloseConnection, Dropped
      <3>2. CASE UNCHANGED <<rxVars, peerVars>>
        BY <1>0, <3>2, QuietStory
      <3>. QED
        BY <2>2, <3>1, <3>2 DEF TaskOffline
    <2>3. CASE TaskConnect \/ TaskPing \/ TaskPingFail \/ TaskIdle
      BY <1>0, <2>3, QuietStory
      DEF TaskConnect, TaskPing, TaskPingFail, TaskIdle, wsVars
    <2>. QED
      BY <1>4, <2>1, <2>2, <2>3 DEF TaskStep
  <1>5. CASE EddjsonStep
    BY <1>0, <1>5, QuietStory
    DEF EddjsonStep, OpenedRequest, OpenedFail, OpenedDone, PeriodicRequest,
        PeriodicFail, PeriodicSkip, Sleep, wsVars
  <1>. QED
    BY <1>1, <1>2, <1>3, <1>4, <1>5 DEF Next, WebSocketStep

\* The application gets the server's text messages whole, in their order, each
\* once, and nothing of an earlier connection: every step is one of
\* MessageChannel or a stutter.
THEOREM AlwaysDeliversMessages == Spec => DeliversMessages
  <1>1. Init => Channel!Init
    BY DEF Init, WsInit, RxInit, Channel!Init
  <1>2. Init => StoryInv
    <2> SUFFICES ASSUME Init PROVE StoryInv
      OBVIOUS
    <2>1. RxInit
      BY DEF Init, WsInit
    <2>2. ServerInv
      BY <2>1 DEF RxInit, ServerInv, CountBefore
    <2>3. ReaderInv
      BY <2>1 DEF RxInit, ReaderInv, CountBefore, Before, Holds, NoMessage
    <2>. QED
      BY <2>2, <2>3, DataInit DEF StoryInv
  <1>3. StoryInv /\ [Next]_vars => StoryInv' /\ [Channel!Next]_(Channel!channelVars)
    BY StoryNext
  <1>. QED
    BY <1>1, <1>2, <1>3, PTL DEF Spec, DeliversMessages, Channel!Spec
===============================================================================
