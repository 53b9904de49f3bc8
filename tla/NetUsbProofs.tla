------------------------------ MODULE NetUsbProofs ------------------------------
(***************************************************************************)
(* Theorems about NetUsb, for every size of the pool, whatever lwIP keeps  *)
(* of it, and any number of frames.                                        *)
(*                                                                         *)
(* The frame invariant adds to the two properties that TinyUSB holds no    *)
(* frame while the network is closed, and that a frame that is held was    *)
(* given a buffer lwIP did not keep, so that with it lwIP keeps no more    *)
(* than the pool has.  The address invariant follows mac from main to the  *)
(* host; that the host refuses nothing needs only that every descriptor it *)
(* can know of is usable, on either board.                                 *)
(***************************************************************************)
EXTENDS NetUsb, SequenceTheorems, TLAPS

ClosedIsEmpty == usb \notin {"mounted", "suspended"} => ntb = <<>>

HeldHasBuffer == held # NoFrame => kept < PoolSize

FrameInv ==
  NetTypeOK /\ ClosedIsEmpty /\ HeldHasBuffer /\ OnlyThePoolStops /\ FramesInOrder

MacAsked == <<"string", Mac>> \in asked

\* The events of the bus are handled by the loop only; until then nothing was
\* asked.  From then on mac stays, and who has asked for it has it.
AddressInv ==
  /\ ~Running => usb \in {"off", "attached"} /\ asked = {}
  /\ boot # "identity" => mac = <<"board", 0>>
  /\ Running => netif = <<"board", 1>>
  /\ MacAsked => hostMac = mac
  /\ usb \in {"mounted", "suspended"} => MacAsked

-------------------------------------------------------------------------------
\* Lemmas about the operators of NetUsb.

\* With the frame that was held lwIP keeps no more than the pool has.
LEMMA KeptAfterRange ==
  ASSUME NetTypeOK, HeldHasBuffer, held # NoFrame, NEW k \in KeptAfter, NEW j \in 0 .. k
  PROVE  k \in 0 .. PoolSize /\ j \in 0 .. PoolSize /\ (k < PoolSize => j < PoolSize)
BY NetUsbAssumption DEF NetTypeOK, KeptAfter, HeldHasBuffer

\* An offer to a free slot is refused only for want of a buffer.
LEMMA RefusedIsExhausted ==
  ASSUME NEW k, ~Accepts(NoFrame, k)
  PROVE  Exhausted(NoFrame, k)
BY DEF Exhausted

\* A frame is not NoFrame, and a sequence of a frame is a sequence of frames.
LEMMA FrameIsOne ==
  ASSUME NEW f \in Frames
  PROVE  f # NoFrame /\ <<f>> \in Seq(Frames)
BY NetUsbAssumption DEF Frames, NoFrame

LEMMA HeldSeq ==
  ASSUME NetTypeOK PROVE Held \in Seq(Frames)
BY FrameIsOne DEF Held, NetTypeOK

\* The frames of a transfer are the next ones.
LEMMA TransferFrames ==
  ASSUME NEW m \in Nat, NEW n \in 1 .. 2, m + n <= MaxFrames
  PROVE  LET frames == [i \in 1 .. n |-> m + i]
         IN  /\ frames \in Seq(Frames) /\ frames # <<>>
             /\ Head(frames) \in Frames /\ Tail(frames) \in Seq(Frames)
<1> DEFINE frames == [i \in 1 .. n |-> m + i]
<1>1. \A i \in 1 .. n : m + i \in Frames
  BY NetUsbAssumption DEF Frames
<1>2. frames \in Seq(Frames)
  BY <1>1
<1>3. frames # <<>>
  BY <1>2, Len(frames) = n
<1>. QED
  BY <1>2, <1>3, HeadTailProperties

\* A sequence is its head and its tail.
LEMMA HeadAndTail ==
  ASSUME NEW s \in Seq(Frames), s # <<>>
  PROVE  <<Head(s)>> \o Tail(s) = s
<1>1. /\ Head(s) \in Frames /\ Tail(s) \in Seq(Frames)
      /\ Len(Tail(s)) = Len(s) - 1
      /\ \A i \in 1 .. Len(Tail(s)) : Tail(s)[i] = s[i + 1]
  BY HeadTailProperties
<1>2. <<Head(s)>> \in Seq(Frames) /\ Len(<<Head(s)>>) = 1 /\ <<Head(s)>>[1] = s[1]
  BY <1>1
<1>3. /\ <<Head(s)>> \o Tail(s) \in Seq(Frames)
      /\ Len(<<Head(s)>> \o Tail(s)) = Len(s)
      /\ \A i \in 1 .. Len(s) : (<<Head(s)>> \o Tail(s))[i] = s[i]
  BY <1>1, <1>2, ConcatProperties, LenProperties
<1>. QED
  BY <1>3, SeqEqual

\* A frame between two sequences belongs to either.
LEMMA OneAndTail ==
  ASSUME NEW s \in Seq(Frames), NEW f \in Frames, NEW t \in Seq(Frames)
  PROVE  (s \o <<f>>) \o t = s \o (<<f>> \o t)
BY FrameIsOne, ConcatAssociative

-------------------------------------------------------------------------------
\* The frame invariant.

LEMMA FrameInit == Init => FrameInv
<1> SUFFICES ASSUME Init PROVE FrameInv
  OBVIOUS
<1> USE NetUsbAssumption DEF Init
<1>1. NetTypeOK
  <2>1. <<"default", 0>> \in Addresses /\ NoAddress \in Addresses
    BY DEF Addresses, NoAddress
  <2>2. kept \in 0 .. PoolSize /\ queued \in 0 .. OutRoom
    OBVIOUS
  <2>3. ntb \in Seq(Frames) /\ sent \in Seq(Frames) /\ delivered \in Seq(Frames)
    BY EmptySeq
  <2>4. asked \subseteq Requests /\ ready \in BOOLEAN
    OBVIOUS
  <2>. QED
    BY <2>1, <2>2, <2>3, <2>4 DEF NetTypeOK
<1>2. ClosedIsEmpty /\ HeldHasBuffer /\ OnlyThePoolStops /\ FramesInOrder
  BY DEF ClosedIsEmpty, HeldHasBuffer, OnlyThePoolStops, FramesInOrder
<1>. QED
  BY <1>1, <1>2 DEF FrameInv

\* A step that leaves the frames and the bus alone.
LEMMA FramesUntouched ==
  ASSUME FrameInv, UNCHANGED <<frameVars, usb>>
  PROVE  ClosedIsEmpty' /\ HeldHasBuffer' /\ OnlyThePoolStops' /\ FramesInOrder'
BY DEF FrameInv, ClosedIsEmpty, HeldHasBuffer, OnlyThePoolStops, FramesInOrder, Held,
       frameVars

\* Both boards answer for the string of the address with mac.
LEMMA MacString ==
  ASSUME board \in Boards
  PROVE  String(board, Mac, mac).mac = mac
BY DEF Boards, String, DisplayString, KeyboardString, Mac, Serial

\* A transfer: its first frame is taken at once if none is held.
LEMMA RxCompleteKeeps ==
  ASSUME FrameInv, NEW n \in 1 .. 2, RxComplete(n)
  PROVE  FrameInv'
<1> DEFINE frames == [i \in 1 .. n |-> Len(sent) + i]
<1>0. NetTypeOK /\ sent \in Seq(Frames) /\ delivered \in Seq(Frames) /\ ntb = <<>>
  BY DEF FrameInv, NetTypeOK, RxComplete
<1>1. /\ frames \in Seq(Frames) /\ frames # <<>>
      /\ Head(frames) \in Frames /\ Tail(frames) \in Seq(Frames)
  <2>1. Len(sent) \in Nat /\ Len(sent) + n <= MaxFrames
    BY <1>0, LenProperties DEF RxComplete
  <2>. QED
    BY <2>1, TransferFrames
<1>2. sent' = sent \o frames /\ sent' \in Seq(Frames)
  BY <1>0, <1>1, ConcatProperties DEF RxComplete
<1>3. sent = delivered \o Held
  <2>1. delivered \o Held \in Seq(Frames)
    BY <1>0, HeldSeq, ConcatProperties
  <2>2. (delivered \o Held) \o <<>> = sent
    BY <1>0, ConcatAssociative, HeldSeq, EmptySeq DEF FrameInv, FramesInOrder, RxComplete
  <2>. QED
    BY <2>1, <2>2, ConcatEmptySeq
<1>4. /\ UNCHANGED <<bootVars, busVars, kept, delivered, queued>> /\ usb = "mounted"
      /\ exhausted' = Exhausted(held, kept) /\ exhausted' \in BOOLEAN
  BY DEF RxComplete, Exhausted
<1>5. CASE Accepts(held, kept)
  <2>1. held = NoFrame /\ held' = Head(frames) /\ ntb' = Tail(frames)
    BY <1>5 DEF RxComplete, Accepts
  <2>2. NetTypeOK'
    BY <1>0, <1>1, <1>2, <1>4, <2>1
    DEF NetTypeOK, bootVars, busVars
  <2>3. sent = delivered
    BY <1>0, <1>3, <2>1, ConcatEmptySeq DEF Held
  <2>4. Held' = <<Head(frames)>>
    BY <1>1, <2>1, FrameIsOne DEF Held
  <2>5. delivered' \o Held' \o ntb' = sent'
    <3>1. (delivered \o <<Head(frames)>>) \o Tail(frames)
            = delivered \o (<<Head(frames)>> \o Tail(frames))
      BY <1>0, <1>1, FrameIsOne, OneAndTail
    <3>. QED
      BY <1>1, <1>2, <1>4, <2>1, <2>3, <2>4, <3>1, HeadAndTail
  <2>6. ClosedIsEmpty' /\ HeldHasBuffer' /\ OnlyThePoolStops'
    BY <1>1, <1>4, <1>5, <2>1, FrameIsOne
    DEF ClosedIsEmpty, HeldHasBuffer, OnlyThePoolStops, Accepts, busVars
  <2>. QED
    BY <2>2, <2>5, <2>6 DEF FrameInv, FramesInOrder
<1>6. CASE ~Accepts(held, kept)
  <2>1. held' = held /\ ntb' = frames
    BY <1>6 DEF RxComplete
  <2>2. held = NoFrame => exhausted'
    BY <1>4, <1>6, RefusedIsExhausted
  <2>3. NetTypeOK'
    BY <1>0, <1>1, <1>2, <1>4, <2>1 DEF NetTypeOK, bootVars, busVars
  <2>4. ClosedIsEmpty' /\ HeldHasBuffer' /\ OnlyThePoolStops'
    BY <1>4, <2>1, <2>2
    DEF FrameInv, ClosedIsEmpty, HeldHasBuffer, OnlyThePoolStops, busVars
  <2>5. FramesInOrder'
    BY <1>2, <1>3, <1>4, <2>1 DEF FramesInOrder, Held
  <2>. QED
    BY <2>3, <2>4, <2>5 DEF FrameInv
<1>. QED
  BY <1>5, <1>6

\* The frame held goes to lwIP, and the next one of the transfer takes its place.
LEMMA TaskFrameKeeps ==
  ASSUME FrameInv, TaskFrame
  PROVE  FrameInv'
<1>0. /\ NetTypeOK /\ sent \in Seq(Frames) /\ delivered \in Seq(Frames)
      /\ ntb \in Seq(Frames) /\ held \in Frames
  BY DEF FrameInv, NetTypeOK, TaskFrame
<1>1. UNCHANGED <<bootVars, busVars, sent, queued>>
  BY DEF TaskFrame
<1>2. delivered' = delivered \o <<held>> /\ delivered' \in Seq(Frames)
  <2>1. delivered' = Append(delivered, held)
    BY DEF TaskFrame
  <2>2. delivered' = delivered \o <<held>>
    BY <1>0, <2>1, FrameIsOne, AppendIsConcat
  <2>. QED
    BY <1>0, <2>2, FrameIsOne, ConcatProperties
<1>3. PICK k \in KeptAfter :
        /\ IF ntb # <<>> /\ Accepts(NoFrame, k)
             THEN held' = Head(ntb) /\ ntb' = Tail(ntb)
             ELSE held' = NoFrame /\ UNCHANGED ntb
        /\ exhausted' = (ntb # <<>> /\ Exhausted(NoFrame, k))
        /\ kept' \in 0 .. k
  BY DEF TaskFrame
<1>4. /\ kept' \in 0 .. PoolSize /\ exhausted' \in BOOLEAN
      /\ Accepts(NoFrame, k) => kept' < PoolSize
  <2>1. HeldHasBuffer /\ held # NoFrame
    BY DEF FrameInv, TaskFrame
  <2>. QED
    BY <1>0, <1>3, <2>1, KeptAfterRange DEF Accepts
<1>5. usb \in {"mounted", "suspended"} => (delivered \o <<held>>) \o ntb = sent
  BY <1>0, FrameIsOne DEF FrameInv, FramesInOrder, Held
<1>6. CASE ntb # <<>> /\ Accepts(NoFrame, k)
  <2>1. held' = Head(ntb) /\ ntb' = Tail(ntb)
    BY <1>3, <1>6
  <2>2. Head(ntb) \in Frames /\ Tail(ntb) \in Seq(Frames)
    BY <1>0, <1>6, HeadTailProperties
  <2>3. NetTypeOK'
    BY <1>0, <1>1, <1>2, <1>4, <2>1, <2>2 DEF NetTypeOK, bootVars, busVars
  <2>4. ClosedIsEmpty' /\ HeldHasBuffer' /\ OnlyThePoolStops'
    BY <1>1, <1>4, <1>6, <2>1, <2>2, FrameIsOne
    DEF FrameInv, ClosedIsEmpty, HeldHasBuffer, OnlyThePoolStops, busVars
  <2>5. Held' = <<Head(ntb)>>
    BY <2>1, <2>2, FrameIsOne DEF Held
  <2>6. (delivered' \o Held') \o ntb' = delivered' \o ntb
    <3>1. (delivered' \o <<Head(ntb)>>) \o Tail(ntb)
            = delivered' \o (<<Head(ntb)>> \o Tail(ntb))
      BY <1>2, <2>2, OneAndTail
    <3>2. <<Head(ntb)>> \o Tail(ntb) = ntb
      BY <1>0, <1>6, HeadAndTail
    <3>. QED
      BY <2>1, <2>5, <3>1, <3>2
  <2>7. FramesInOrder'
    BY <1>1, <1>2, <1>5, <2>6 DEF FramesInOrder, busVars
  <2>. QED
    BY <2>3, <2>4, <2>7 DEF FrameInv
<1>7. CASE ~(ntb # <<>> /\ Accepts(NoFrame, k))
  <2>1. held' = NoFrame /\ ntb' = ntb
    BY <1>3, <1>7
  <2>2. NetTypeOK'
    BY <1>0, <1>1, <1>2, <1>4, <2>1 DEF NetTypeOK, bootVars, busVars
  <2>3. OnlyThePoolStops'
    BY <1>3, <1>7, <2>1, RefusedIsExhausted DEF OnlyThePoolStops
  <2>4. ClosedIsEmpty' /\ HeldHasBuffer'
    BY <1>1, <2>1 DEF FrameInv, ClosedIsEmpty, HeldHasBuffer, busVars
  <2>5. delivered' \o Held' = delivered'
    <3>1. Held' = <<>>
      BY <2>1 DEF Held
    <3>. QED
      BY <1>2, <3>1, ConcatEmptySeq
  <2>6. FramesInOrder'
    BY <1>1, <1>2, <1>5, <2>1, <2>5 DEF FramesInOrder, busVars
  <2>. QED
    BY <2>2, <2>3, <2>4, <2>6 DEF FrameInv
<1>. QED
  BY <1>6, <1>7

\* The network is opened: whatever frame was held is of the past.
LEMMA OpenKeeps ==
  ASSUME FrameInv, Open
  PROVE  FrameInv'
<1>1. /\ UNCHANGED <<bootVars, asked, hostMac, ntb, kept, queued, exhausted>>
      /\ usb' = "mounted" /\ held' = NoFrame /\ sent' = <<>> /\ delivered' = <<>>
      /\ ntb = <<>>
  BY DEF Open, FrameInv, ClosedIsEmpty
<1>2. NetTypeOK'
  <2>1. sent' \in Seq(Frames) /\ delivered' \in Seq(Frames)
    BY <1>1, EmptySeq
  <2>. QED
    BY <1>1, <2>1 DEF FrameInv, NetTypeOK, bootVars
<1>3. ClosedIsEmpty' /\ HeldHasBuffer' /\ OnlyThePoolStops'
  BY <1>1 DEF ClosedIsEmpty, HeldHasBuffer, OnlyThePoolStops
<1>4. FramesInOrder'
  <2>1. Held' = <<>>
    BY <1>1 DEF Held
  <2>2. <<>> \o <<>> = <<>>
    BY EmptySeq, ConcatEmptySeq
  <2>. QED
    BY <1>1, <2>1, <2>2 DEF FramesInOrder
<1>. QED
  BY <1>2, <1>3, <1>4 DEF FrameInv

\* Actions that neither open the network nor move a frame.
LEMMA BootKeeps ==
  ASSUME FrameInv, AddressInv, Boot
  PROVE  FrameInv'
<1> USE DEF FrameInv
<1>1. <<"board", 0>> \in Addresses /\ (mac \in Addresses => Flipped(mac) \in Addresses)
  BY DEF Addresses, Flipped
<1>2. CASE PrepareIdentity
  <2>1. NetTypeOK'
    BY <1>1, <1>2 DEF PrepareIdentity, NetTypeOK, busVars, frameVars
  <2>. QED
    BY <1>2, <2>1, FramesUntouched DEF PrepareIdentity, busVars
<1>3. CASE TusbInit
  <2>1. NetTypeOK'
    BY <1>3 DEF TusbInit, NetTypeOK, frameVars
  <2>2. ClosedIsEmpty' /\ HeldHasBuffer' /\ OnlyThePoolStops' /\ FramesInOrder'
    BY <1>3
    DEF TusbInit, frameVars, Running, AddressInv, ClosedIsEmpty, HeldHasBuffer,
        OnlyThePoolStops, FramesInOrder
  <2>. QED
    BY <2>1, <2>2
<1>4. CASE NetUsbInit
  <2>1. NetTypeOK'
    BY <1>1, <1>4 DEF NetUsbInit, NetTypeOK, busVars, frameVars
  <2>. QED
    BY <1>4, <2>1, FramesUntouched DEF NetUsbInit, busVars
<1>. QED
  BY <1>2, <1>3, <1>4 DEF Boot

LEMMA BusEventKeeps ==
  ASSUME FrameInv, BusEvent
  PROVE  FrameInv'
<1>1. CASE BusReset
  <2>0. NoAddress \in Addresses /\ 0 \in 0 .. OutRoom /\ <<>> \in Seq(Frames)
    BY EmptySeq, NetUsbAssumption DEF Addresses, NoAddress
  <2>1. NetTypeOK'
    BY <1>1, <2>0 DEF BusReset, FrameInv, NetTypeOK, bootVars
  <2>. QED
    BY <1>1, <2>1
    DEF BusReset, FrameInv, ClosedIsEmpty, HeldHasBuffer, OnlyThePoolStops, FramesInOrder
<1>2. CASE Open
  BY <1>2, OpenKeeps
<1>3. CASE Suspend \/ Resume
  BY <1>3
  DEF Suspend, Resume, FrameInv, NetTypeOK, bootVars, frameVars, ClosedIsEmpty,
      HeldHasBuffer, OnlyThePoolStops, FramesInOrder, Held
<1>4. CASE TxComplete
  <2>1. NetTypeOK'
    BY <1>4, NetUsbAssumption
    DEF TxComplete, FrameInv, NetTypeOK, bootVars, busVars, frameVars
  <2>. QED
    BY <1>4, <2>1, FramesUntouched DEF TxComplete, FrameInv, busVars
<1>5. ASSUME NEW r \in Requests, Ask(r) PROVE FrameInv'
  <2>1. hostMac' \in Addresses
    BY <1>5, MacString DEF Ask, FrameInv, NetTypeOK
  <2>2. NetTypeOK'
    BY <1>5, <2>1 DEF Ask, FrameInv, NetTypeOK, bootVars, frameVars
  <2>3. UNCHANGED frameVars /\ usb = "attached" /\ usb' \in {"attached", "refused"}
    BY <1>5 DEF Ask
  <2>. QED
    BY <2>2, <2>3
    DEF FrameInv, frameVars, ClosedIsEmpty, HeldHasBuffer, OnlyThePoolStops,
        FramesInOrder, Held
<1>6. ASSUME NEW n \in 1 .. 2, RxComplete(n) PROVE FrameInv'
  BY <1>6, RxCompleteKeeps
<1>. QED
  BY <1>1, <1>2, <1>3, <1>4, <1>5, <1>6 DEF BusEvent

\* Every step keeps the frame invariant.
LEMMA FrameNext == FrameInv /\ AddressInv /\ [Next]_vars => FrameInv'
<1> SUFFICES ASSUME FrameInv, AddressInv, [Next]_vars PROVE FrameInv'
  OBVIOUS
<1>1. CASE Boot
  BY <1>1, BootKeeps
<1>2. CASE BusEvent
  BY <1>2, BusEventKeeps
<1>3. CASE TaskFrame
  BY <1>3, TaskFrameKeeps
<1>4. CASE TaskTimers
  <2>1. kept' \in 0 .. PoolSize
    BY <1>4, NetUsbAssumption DEF TaskTimers, FrameInv, NetTypeOK
  <2>. QED
    BY <1>4, <2>1
    DEF TaskTimers, FrameInv, NetTypeOK, bootVars, busVars, ClosedIsEmpty,
        HeldHasBuffer, OnlyThePoolStops, FramesInOrder, Held
<1>5. CASE Transmit
  <2>1. NetTypeOK'
    BY <1>5, NetUsbAssumption
    DEF Transmit, Output, FrameInv, NetTypeOK, bootVars, busVars, frameVars
  <2>. QED
    BY <1>5, <2>1, FramesUntouched DEF Transmit, FrameInv, busVars
<1>6. CASE UNCHANGED vars
  BY <1>6
  DEF vars, bootVars, busVars, frameVars, FrameInv, NetTypeOK, ClosedIsEmpty,
      HeldHasBuffer, OnlyThePoolStops, FramesInOrder, Held
<1>. QED
  BY <1>1, <1>2, <1>3, <1>4, <1>5, <1>6 DEF Next, Task

-------------------------------------------------------------------------------
\* The address invariant.

\* Initially nothing was asked.
LEMMA AddressInit == Init => AddressInv
BY DEF Init, AddressInv, MacAsked, Running

\* A host that has read all descriptors it knows of has read the address.
LEMMA MacIsKnown ==
  ASSUME board \in Boards, Known \subseteq asked
  PROVE  MacAsked
<1>1. <<"device", 0>> \in asked
  BY DEF Known
<1>2. <<"config", 0>> \in asked
  BY <1>1 DEF Known
<1>3. Mac \in FunctionStrings
  <2>1. CASE board = "display"
    <3>1. 1 \in DOMAIN Config(board, 0).functions
      BY <2>1 DEF Config, DisplayConfig, DisplayConfiguration
    <3>2. Mac \in Config(board, 0).functions[1].strings
      BY <2>1 DEF Config, DisplayConfig, DisplayConfiguration, NcmFunction
    <3>. QED
      BY <3>1, <3>2 DEF FunctionStrings
  <2>2. CASE board = "keyboard"
    <3>1. 2 \in DOMAIN Config(board, 0).functions
      BY <2>2 DEF Config, KeyboardConfig, KeyboardConfiguration
    <3>2. Mac \in Config(board, 0).functions[2].strings
      BY <2>2 DEF Config, KeyboardConfig, KeyboardConfiguration, NcmFunction
    <3>. QED
      BY <3>1, <3>2 DEF FunctionStrings
  <2>. QED
    BY <2>1, <2>2 DEF Boards
<1>4. <<"string", Mac>> \in Known
  BY <1>2, <1>3 DEF Known, Strings
<1>. QED
  BY <1>4 DEF MacAsked

\* Every step keeps the address invariant.
LEMMA AddressNext == NetTypeOK /\ AddressInv /\ [Next]_vars => AddressInv'
<1> SUFFICES ASSUME NetTypeOK, AddressInv, [Next]_vars PROVE AddressInv'
  OBVIOUS
<1> USE DEF AddressInv, MacAsked
<1>1. CASE Boot
  <2>1. CASE PrepareIdentity
    BY <2>1 DEF PrepareIdentity, Running, busVars
  <2>2. CASE TusbInit
    BY <2>2 DEF TusbInit, Running
  <2>3. CASE NetUsbInit
    <3>1. mac = <<"board", 0>> /\ netif' = <<"board", 1>>
      BY <2>3 DEF NetUsbInit, Flipped
    <3>. QED
      BY <2>3, <3>1 DEF NetUsbInit, Running, busVars
  <2>. QED
    BY <1>1, <2>1, <2>2, <2>3 DEF Boot
<1>2. CASE BusReset
  BY <1>2 DEF BusReset, bootVars, Running
<1>3. CASE Open
  <2>1. MacAsked
    BY <1>3, MacIsKnown DEF Open, NetTypeOK
  <2>. QED
    BY <1>3, <2>1 DEF Open, bootVars, Running
<1>4. ASSUME NEW r \in Requests, Ask(r) PROVE AddressInv'
  <2>1. /\ Running /\ usb = "attached" /\ UNCHANGED bootVars
        /\ usb' \in {"attached", "refused"}
    BY <1>4 DEF Ask
  <2>2. MacAsked' => hostMac' = mac
    BY <1>4, MacString DEF Ask, NetTypeOK
  <2>. QED
    BY <2>1, <2>2 DEF bootVars, Running
<1>5. CASE Suspend \/ Resume
  BY <1>5 DEF Suspend, Resume, bootVars, Running
<1>6. CASE TxComplete \/ Transmit \/ Task \/ \E n \in 1 .. 2 : RxComplete(n)
  BY <1>6
  DEF TxComplete, Transmit, Task, TaskFrame, TaskTimers, RxComplete, bootVars,
      busVars, Running
<1>7. CASE UNCHANGED vars
  BY <1>7 DEF vars, bootVars, busVars, Running
<1>. QED
  BY <1>1, <1>2, <1>3, <1>4, <1>5, <1>6, <1>7 DEF Next, BusEvent

-------------------------------------------------------------------------------
\* What the host reads is usable, on either board.

\* Partial sums are determined by their equation.
LEMMA SumsAgree ==
  ASSUME NEW functions, NEW n \in 1 .. 2,
         NEW f, f = [i \in 0 .. n |-> IF i = 0 THEN 0 ELSE f[i - 1] + functions[i].bytes]
  PROVE  /\ f[0] = 0 /\ f[1] = 0 + functions[1].bytes
         /\ n = 2 => f[2] = (0 + functions[1].bytes) + functions[2].bytes
<1>1. f[0] = 0
  <2>1. 0 \in 0 .. n
    OBVIOUS
  <2>. QED
    BY <2>1
<1>2. f[1] = 0 + functions[1].bytes
  <2>1. 1 \in 0 .. n /\ 1 # 0 /\ 1 - 1 = 0
    OBVIOUS
  <2>2. f[1] = f[1 - 1] + functions[1].bytes
    BY <2>1
  <2>. QED
    BY <1>1, <2>1, <2>2
<1>3. ASSUME n = 2 PROVE f[2] = (0 + functions[1].bytes) + functions[2].bytes
  <2>1. 2 \in 0 .. n /\ 2 # 0 /\ 2 - 1 = 1
    BY <1>3
  <2>2. f[2] = f[2 - 1] + functions[2].bytes
    BY <2>1
  <2>. QED
    BY <1>2, <2>1, <2>2
<1>. QED
  BY <1>1, <1>2, <1>3

\* A sum of one or two lengths.
LEMMA BytesOfFunctions ==
  ASSUME NEW functions, NEW n \in 1 .. 2, Len(functions) = n,
         \A i \in 1 .. n : functions[i].bytes \in Nat
  PROVE  Bytes(functions) = IF n = 1 THEN functions[1].bytes
                            ELSE functions[1].bytes + functions[2].bytes
<1> DEFINE R(f) == f = [i \in 0 .. n |-> IF i = 0 THEN 0
                                         ELSE f[i - 1] + functions[i].bytes]
           one == functions[1].bytes
           two == functions[2].bytes
           g == [i \in 0 .. n |-> IF i = 0 THEN 0 ELSE IF i = 1 THEN one ELSE one + two]
           h == [i \in 0 .. n |-> IF i = 0 THEN 0 ELSE g[i - 1] + functions[i].bytes]
<1>1. R(g)
  <2>1. one \in Nat /\ (n = 2 => two \in Nat)
    OBVIOUS
  <2>2. \A i \in 0 .. n : g[i] = h[i]
    <3> TAKE i \in 0 .. n
    <3>1. CASE i = 0
      BY <3>1
    <3>2. CASE i = 1
      <4>1. i # 0 /\ i - 1 = 0 /\ 0 \in 0 .. n
        BY <3>2
      <4>2. g[i] = one /\ h[i] = 0 + one
        BY <3>2, <4>1
      <4>. QED
        BY <2>1, <4>2
    <3>3. CASE i = 2
      <4>1. i # 0 /\ i # 1 /\ i - 1 = 1 /\ 1 \in 0 .. n /\ 1 # 0
        BY <3>3
      <4>2. g[i] = one + two /\ h[i] = one + two
        BY <3>3, <4>1
      <4>. QED
        BY <4>2
    <3>. QED
      BY <3>1, <3>2, <3>3
  <2>. QED
    BY <2>2
<1>2. R(CHOOSE f : R(f))
  BY <1>1
<1>3. PICK f : f = (CHOOSE any : R(any)) /\ R(f)
  BY <1>2
<1>4. Bytes(functions) = f[n]
  BY <1>3 DEF Bytes
<1>5. f = [i \in 0 .. n |-> IF i = 0 THEN 0 ELSE f[i - 1] + functions[i].bytes]
  BY <1>3
<1>6. /\ f[1] = 0 + functions[1].bytes
      /\ n = 2 => f[2] = (0 + functions[1].bytes) + functions[2].bytes
  <2> HIDE DEF R
  <2>. QED
    BY <1>5, SumsAgree
<1>7. CASE n = 1
  BY <1>4, <1>6, <1>7
<1>8. CASE n = 2
  <2>1. functions[1].bytes \in Nat
    BY <1>8
  <2>. QED
    BY <1>4, <1>6, <1>8, <2>1
<1>. QED
  BY <1>7, <1>8

\* The configuration descriptors: lengths, interfaces and endpoints add up.
LEMMA DisplayConfigUsable == ConfigUsable(DisplayConfiguration)
<1> DEFINE c == DisplayConfiguration
<1>1. c.functions = <<NcmFunction(0, Interface, Mac, 129, 2, 130)>>
      /\ c.total = 94 /\ c.interfaces = 2
  BY DEF DisplayConfiguration, ConfigLen, NcmLen
<1>2. /\ Len(c.functions) = 1 /\ DOMAIN c.functions = {1}
      /\ c.functions[1].bytes = 85
      /\ c.functions[1].itfs = {0, 1}
  BY <1>1 DEF NcmFunction, NcmLen
<1>3. Bytes(c.functions) = 85
  BY <1>2, BytesOfFunctions
<1>4. c # Stall
  <2>1. DOMAIN c = {"total", "interfaces", "functions"} /\ DOMAIN Stall = {"stalled"}
    BY DEF DisplayConfiguration, Stall
  <2>. QED
    BY <2>1
<1>5. UNION {c.functions[i].itfs : i \in DOMAIN c.functions} = 0 .. c.interfaces - 1
  <2>1. UNION {c.functions[i].itfs : i \in {1}} = {0, 1}
    BY <1>2
  <2>. QED
    BY <1>1, <1>2, <2>1
<1>. QED
  BY <1>1, <1>2, <1>3, <1>4, <1>5 DEF ConfigUsable, ConfigLen

LEMMA KeyboardConfigUsable == ConfigUsable(KeyboardConfiguration)
<1> DEFINE c == KeyboardConfiguration
<1>1. c.functions = <<HidFunction(0, 129), NcmFunction(1, Interface, Mac, 130, 3, 131)>>
      /\ c.total = 119 /\ c.interfaces = 3
  BY DEF KeyboardConfiguration, ConfigLen, NcmLen, HidLen
<1>2. /\ Len(c.functions) = 2 /\ DOMAIN c.functions = {1, 2}
      /\ c.functions[1].bytes = 25 /\ c.functions[2].bytes = 85
      /\ c.functions[1].itfs = {0} /\ c.functions[2].itfs = {1, 2}
      /\ c.functions[1].eps = {129} /\ c.functions[2].eps = {130, 3, 131}
  BY <1>1 DEF HidFunction, NcmFunction, HidLen, NcmLen
<1>3. Bytes(c.functions) = 110
  BY <1>2, BytesOfFunctions
<1>4. c # Stall
  <2>1. DOMAIN c = {"total", "interfaces", "functions"} /\ DOMAIN Stall = {"stalled"}
    BY DEF KeyboardConfiguration, Stall
  <2>. QED
    BY <2>1
<1>5. UNION {c.functions[i].itfs : i \in DOMAIN c.functions} = 0 .. c.interfaces - 1
  <2>1. UNION {c.functions[i].itfs : i \in {1, 2}} = {0, 1, 2}
    BY <1>2
  <2>. QED
    BY <1>1, <1>2, <2>1
<1>6. \A i, j \in DOMAIN c.functions :
        i # j => /\ c.functions[i].itfs \cap c.functions[j].itfs = {}
                 /\ c.functions[i].eps \cap c.functions[j].eps = {}
  <2>1. /\ {0} \cap {1, 2} = {} /\ {1, 2} \cap {0} = {}
        /\ {129} \cap {130, 3, 131} = {} /\ {130, 3, 131} \cap {129} = {}
    OBVIOUS
  <2>. QED
    BY <1>2, <2>1
<1>. QED
  BY <1>1, <1>2, <1>3, <1>4, <1>5, <1>6 DEF ConfigUsable, ConfigLen

\* The Microsoft OS 2.0 set: every length, and the interface WINNCM is bound to.
LEMMA SetUsable ==
  ASSUME NEW b \in Boards
  PROVE  MsOsUsable(Vendor(b, Bos(b).vendor, 7), Bos(b), Config(b, 0))
<1>1. CASE b = "display"
  <2>1. Vendor(b, Bos(b).vendor, 7) = DisplayMsOs /\ Bos(b) = DisplayBos
        /\ Config(b, 0) = DisplayConfiguration
    BY <1>1 DEF Vendor, DisplayVendor, Bos, DisplayBos, Config, DisplayConfig
  <2>2. DisplayMsOs # Stall
    <3>1. "stalled" \notin DOMAIN DisplayMsOs /\ "stalled" \in DOMAIN Stall
      BY DEF DisplayMsOs, Stall
    <3>. QED
      BY <3>1
  <2>3. \E i \in DOMAIN DisplayConfiguration.functions :
          DisplayConfiguration.functions[i].itfs = {DisplayMsOs.itf, DisplayMsOs.itf + 1}
    <3>1. /\ 1 \in DOMAIN DisplayConfiguration.functions
          /\ DisplayConfiguration.functions[1].itfs = {0, 0 + 1}
      BY DEF DisplayConfiguration, NcmFunction
    <3>2. DisplayMsOs.itf = 0
      BY DEF DisplayMsOs
    <3>. QED
      BY <3>1, <3>2
  <2>4. DisplayMsOs.total = 178 /\ DisplayMsOs.config = 168 /\ DisplayMsOs.function = 160
        /\ DisplayMsOs.compatible = 20 /\ DisplayMsOs.property = 132
        /\ DisplayMsOs.text = 132 /\ DisplayBos.msosLen = 178
    BY DEF DisplayMsOs, DisplayBos
  <2>. QED
    BY <2>1, <2>2, <2>3, <2>4 DEF MsOsUsable
<1>2. CASE b = "keyboard"
  <2>1. Vendor(b, Bos(b).vendor, 7) = KeyboardMsOs /\ Bos(b) = KeyboardBos
        /\ Config(b, 0) = KeyboardConfiguration
    BY <1>2 DEF Vendor, KeyboardVendor, Bos, KeyboardBos, Config, KeyboardConfig
  <2>2. KeyboardMsOs # Stall
    <3>1. "stalled" \notin DOMAIN KeyboardMsOs /\ "stalled" \in DOMAIN Stall
      BY DEF KeyboardMsOs, Stall
    <3>. QED
      BY <3>1
  <2>3. \E i \in DOMAIN KeyboardConfiguration.functions :
          KeyboardConfiguration.functions[i].itfs
            = {KeyboardMsOs.itf, KeyboardMsOs.itf + 1}
    <3>1. /\ 2 \in DOMAIN KeyboardConfiguration.functions
          /\ KeyboardConfiguration.functions[2].itfs = {1, 1 + 1}
      BY DEF KeyboardConfiguration, NcmFunction
    <3>2. KeyboardMsOs.itf = 1
      BY DEF KeyboardMsOs
    <3>. QED
      BY <3>1, <3>2
  <2>4. KeyboardMsOs.total = 178 /\ KeyboardMsOs.config = 168 /\ KeyboardMsOs.function = 160
        /\ KeyboardMsOs.compatible = 20 /\ KeyboardMsOs.property = 132
        /\ KeyboardMsOs.text = 132 /\ KeyboardBos.msosLen = 178
    BY DEF KeyboardMsOs, KeyboardBos
  <2>. QED
    BY <2>1, <2>2, <2>3, <2>4 DEF MsOsUsable
<1>. QED
  BY <1>1, <1>2 DEF Boards

\* There is a text for every index a descriptor refers to.
LEMMA StringUsable ==
  ASSUME NEW b \in Boards, NEW i \in 1 .. 5
  PROVE  String(b, i, mac) # Stall
<1>1. \/ String(b, i, mac) = [chars |-> 12, mac |-> mac]
      \/ \E n : String(b, i, mac) = Text(n)
  BY DEF String, DisplayString, KeyboardString, Serial, Mac, Boards
<1>2. "chars" \in DOMAIN String(b, i, mac)
  BY <1>1 DEF Text
<1>3. "chars" \notin DOMAIN Stall
  BY DEF Stall
<1>. QED
  BY <1>2, <1>3

\* Whatever the host knows to ask for, it can use the answer.
LEMMA KnownUsable ==
  ASSUME board \in Boards, NEW r \in Known
  PROVE  Usable(r)
<1>1. /\ Device(board).strings = {1, 2, 3} /\ Device(board).configurations = 1
  BY DEF Device, DisplayDevice, KeyboardDevice, Manufacturer, Product, Serial
<1>2. FunctionStrings \subseteq 1 .. 5
  <2>1. CASE board = "display"
    <3>1. \A i \in DOMAIN Config(board, 0).functions :
            Config(board, 0).functions[i].strings = {4, 5}
      BY <2>1 DEF Config, DisplayConfig, DisplayConfiguration, NcmFunction, Interface, Mac
    <3>. QED
      BY <3>1 DEF FunctionStrings
  <2>2. CASE board = "keyboard"
    <3>1. \A i \in DOMAIN Config(board, 0).functions :
            Config(board, 0).functions[i].strings \subseteq {4, 5}
      BY <2>2
      DEF Config, KeyboardConfig, KeyboardConfiguration, NcmFunction, HidFunction,
          Interface, Mac
    <3>. QED
      BY <3>1 DEF FunctionStrings
  <2>. QED
    BY <2>1, <2>2 DEF Boards
<1>3. /\ Config(board, 0) # Stall
      /\ ConfigUsable(Config(board, 0))
  <2>1. Config(board, 0)
          = IF board = "display" THEN DisplayConfiguration ELSE KeyboardConfiguration
    BY DEF Config, DisplayConfig, KeyboardConfig
  <2>2. ConfigUsable(Config(board, 0))
    BY <2>1, DisplayConfigUsable, KeyboardConfigUsable
  <2>. QED
    BY <2>2 DEF ConfigUsable
<1>4. BosUsable(Bos(board))
  BY DEF BosUsable, Bos, DisplayBos, KeyboardBos, BosLen, BosMsOsLen
<1>5. r \in {<<"device", 0>>, <<"config", 0>>, <<"bos", 0>>, <<"msos", 0>>}
        \cup ({"string"} \X (1 .. 5))
  <2>1. Strings(Device(board).strings) \subseteq {"string"} \X (1 .. 5)
    BY <1>1 DEF Strings
  <2>2. Strings(FunctionStrings) \subseteq {"string"} \X (1 .. 5)
    BY <1>2 DEF Strings
  <2>. QED
    BY <2>1, <2>2 DEF Known
<1>6. CASE r = <<"device", 0>>
  BY <1>1, <1>3, <1>6 DEF Usable
<1>7. CASE r = <<"config", 0>>
  BY <1>3, <1>7 DEF Usable
<1>8. CASE r = <<"bos", 0>>
  BY <1>4, <1>8 DEF Usable
<1>9. CASE r = <<"msos", 0>>
  BY <1>9, SetUsable DEF Usable
<1>10. CASE r \in {"string"} \X (1 .. 5)
  <2>1. r[1] = "string" /\ r[2] \in 1 .. 5
    BY <1>10
  <2>2. String(board, r[2], mac) # Stall
    BY <2>1, StringUsable
  <2>. QED
    BY <2>1, <2>2 DEF Usable
<1>. QED
  BY <1>5, <1>6, <1>7, <1>8, <1>9, <1>10

\* No step makes the host give the device up.
NotRefused == usb # "refused"

LEMMA RefusedNext == NetTypeOK /\ NotRefused /\ [Next]_vars => NotRefused'
<1> SUFFICES ASSUME NetTypeOK, NotRefused, [Next]_vars PROVE NotRefused'
  OBVIOUS
<1>1. ASSUME NEW r \in Requests, Ask(r) PROVE NotRefused'
  <2>1. Usable(r)
    BY <1>1, KnownUsable DEF Ask, NetTypeOK
  <2>. QED
    BY <1>1, <2>1 DEF Ask, NotRefused
<1>2. CASE Boot
  BY <1>2 DEF Boot, PrepareIdentity, TusbInit, NetUsbInit, busVars, NotRefused
<1>3. CASE BusReset \/ Open \/ Suspend \/ Resume \/ TxComplete
  BY <1>3 DEF BusReset, Open, Suspend, Resume, TxComplete, busVars, NotRefused
<1>4. CASE Transmit \/ Task \/ \E n \in 1 .. 2 : RxComplete(n)
  BY <1>4 DEF Transmit, Task, TaskFrame, TaskTimers, RxComplete, busVars, NotRefused
<1>5. CASE UNCHANGED vars
  BY <1>5 DEF vars, busVars, NotRefused
<1>. QED
  BY <1>1, <1>2, <1>3, <1>4, <1>5 DEF Next, BusEvent

-------------------------------------------------------------------------------
\* Theorems.

NetInv == FrameInv /\ AddressInv /\ NotRefused

LEMMA NetAlways == Spec => []NetInv
<1>1. Init => NetInv
  BY FrameInit, AddressInit DEF NetInv, NotRefused, Init
<1>2. NetInv /\ [Next]_vars => NetInv'
  BY FrameNext, AddressNext, RefusedNext DEF NetInv, FrameInv
<1>. QED
  BY <1>1, <1>2, PTL DEF Spec

\* Every variable has its type; lwIP never keeps more than the pool has.
THEOREM TypeCorrect == Spec => []NetTypeOK
<1>1. NetInv => NetTypeOK
  BY DEF NetInv, FrameInv
<1>. QED
  BY <1>1, NetAlways, PTL

\* Reception stops with a frame waiting and none held only if lwIP had kept the
\* whole pool when TinyUSB offered that frame: whatever is kept below that, and
\* whenever it is freed, every refused frame is asked for again (net_usb_task,
\* tud_network_recv_cb).
THEOREM StoppedOnlyByThePool == Spec => []OnlyThePoolStops
<1>1. NetInv => OnlyThePoolStops
  BY DEF NetInv, FrameInv
<1>. QED
  BY <1>1, NetAlways, PTL

\* No frame of an enumeration is lost, repeated, reordered or carried over into
\* the next one (tud_network_recv_cb, tud_network_init_cb, net_usb_task).
THEOREM AlwaysFramesInOrder == Spec => []FramesInOrder
<1>1. NetInv => FramesInOrder
  BY DEF NetInv, FrameInv
<1>. QED
  BY <1>1, NetAlways, PTL

\* A device that is ready and its host have the two addresses made from the
\* board's id (net_usb_prepare_identity before tusb_init, net_usb_init).
THEOREM AddressesAlwaysDiffer == Spec => []AddressesDiffer
<1>1. NetInv => AddressesDiffer
  BY DEF NetInv, FrameInv, NetTypeOK, AddressInv, AddressesDiffer, NetUsbReady,
     Running
<1>. QED
  BY <1>1, NetAlways, PTL

\* The host never reads a descriptor that it cannot use, in whatever order it
\* asks, and the two ends of the link have their two addresses (the tables and
\* callbacks of usb_descriptors.c, NULL for what is not there).
THEOREM HostAlwaysAccepts == Spec => []HostAccepts
<1>1. NetInv => AddressesDiffer
  BY DEF NetInv, FrameInv, NetTypeOK, AddressInv, AddressesDiffer, NetUsbReady,
     Running
<1>2. NetInv => HostAccepts
  BY <1>1 DEF NetInv, NotRefused, HostAccepts
<1>. QED
  BY <1>2, NetAlways, PTL
===============================================================================
