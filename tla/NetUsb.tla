--------------------------------- MODULE NetUsb ---------------------------------
(***************************************************************************)
(* common/net_usb.c between TinyUSB and lwIP, with the start-up of either  *)
(* firmware's main and the enumeration by the host.                        *)
(*                                                                         *)
(* One thread runs everything: tud_task runs the callbacks of TinyUSB one  *)
(* event at a time, net_usb_task hands the one frame that is held to lwIP. *)
(* TinyUSB has one receive buffer (CFG_TUD_NCM_OUT_NTB_N), a transfer of   *)
(* up to two frames.  It offers the next frame to tud_network_recv_cb when *)
(* the transfer is complete and when tud_network_recv_renew is called, and *)
(* receives again when every frame of it was accepted.                     *)
(***************************************************************************)
EXTENDS UsbDescriptors, Integers

CONSTANTS
  PoolSize,   \* PBUF_POOL_SIZE
  OutRoom,    \* frames the send buffer takes
  MaxFrames   \* bound: frames the host sends in one enumeration

ASSUME NetUsbAssumption ==
  PoolSize \in Nat /\ OutRoom \in Nat /\ MaxFrames \in Nat

VARIABLES
  board,      \* the firmware
  boot,       \* where main is
  mac,        \* tud_network_mac_address
  netif,      \* s_netif.hwaddr
  ready,      \* s_initialized
  usb,        \* TinyUSB's and the host's view of the bus
  asked,      \* what the host has read
  hostMac,    \* the address the host gave its interface
  ntb,        \* frames of the receive buffer that were not accepted yet
  held,       \* s_received_frame, or NoFrame
  kept,       \* pool buffers lwIP keeps, as fragments that wait for the others
  queued,     \* frames in the send buffer
  sent,       \* history: frames the host has sent since it opened the network
  delivered,  \* history: those given to ethernet_input
  exhausted   \* history: TinyUSB's last offer found the slot free and no buffer

bootVars == <<board, boot, mac, netif, ready>>
busVars == <<usb, asked, hostMac>>
frameVars == <<ntb, held, kept, sent, delivered, exhausted>>
vars == <<bootVars, busVars, frameVars, queued>>

NoFrame == 0
Frames == 1 .. MaxFrames

Running == boot = "loop"

\* An address: the id it was made from, and its last bit.
Addresses == {"none", "default", "board"} \X {0, 1}
NoAddress == <<"none", 0>>
Flipped(a) == <<a[1], 1 - a[2]>>

-------------------------------------------------------------------------------
\* main, up to its loop.

\* Seeded bug: the host may enumerate while the default address is in place.
PrepareIdentityLate ==
  /\ boot = "identity"
  /\ boot' = "usb"
  /\ UNCHANGED <<board, mac, netif, ready, busVars, frameVars, queued>>

PrepareIdentity ==
  /\ boot = "identity"
  /\ mac' = <<"board", 0>>
  /\ boot' = "usb"
  /\ UNCHANGED <<board, netif, ready, busVars, frameVars, queued>>

TusbInit ==
  /\ boot = "usb"
  /\ usb' = "attached"
  /\ boot' = "network"
  /\ UNCHANGED <<board, mac, netif, ready, asked, hostMac, frameVars, queued>>

\* net_usb_init; whether netif_add and dhserv_init succeed is left open.
NetUsbInit ==
  /\ boot = "network"
  /\ netif' = Flipped(mac)
  /\ ready' \in BOOLEAN
  /\ boot' = "loop"
  /\ UNCHANGED <<board, mac, busVars, frameVars, queued>>

-------------------------------------------------------------------------------
\* tud_task: the events of the bus.

\* Power, reset or a new cable: TinyUSB forgets its transfers.
BusReset ==
  /\ Running /\ usb # "attached"
  /\ usb' = "attached" /\ asked' = {} /\ hostMac' = NoAddress
  /\ ntb' = <<>> /\ queued' = 0 /\ exhausted' = FALSE
  /\ UNCHANGED <<bootVars, held, kept, sent, delivered>>

\* The host reads descriptors in any order in which it can know of them, and
\* gives up on one it cannot use.
Requests == ({"device", "config", "bos", "msos"} \X {0}) \cup ({"string"} \X (1 .. 5))

Strings(indices) == {"string"} \X indices
FunctionStrings ==
  UNION {Config(board, 0).functions[i].strings :
           i \in DOMAIN Config(board, 0).functions}

Known ==
  {<<"device", 0>>} \cup
  (IF <<"device", 0>> \in asked
     THEN {<<"config", 0>>} \cup Strings(Device(board).strings)
            \cup (IF Device(board).usb > 512 THEN {<<"bos", 0>>} ELSE {})
     ELSE {}) \cup
  (IF <<"config", 0>> \in asked THEN Strings(FunctionStrings) ELSE {}) \cup
  (IF {<<"config", 0>>, <<"bos", 0>>} \subseteq asked THEN {<<"msos", 0>>} ELSE {})

Usable(r) ==
  CASE r[1] = "device" -> \A i \in 0 .. Device(board).configurations - 1 :
                            Config(board, i) # Stall
    [] r[1] = "config" -> ConfigUsable(Config(board, 0))
    [] r[1] = "bos" -> BosUsable(Bos(board))
    [] r[1] = "msos" -> MsOsUsable(Vendor(board, Bos(board).vendor, 7),
                                   Bos(board), Config(board, 0))
    [] r[1] = "string" -> String(board, r[2], mac) # Stall

Ask(r) ==
  /\ Running /\ usb = "attached" /\ r \in Known \ asked
  /\ IF Usable(r) THEN asked' = asked \cup {r} /\ UNCHANGED usb
                  ELSE usb' = "refused" /\ UNCHANGED asked
  /\ hostMac' = IF r = <<"string", Mac>> /\ Usable(r)
                 THEN String(board, Mac, mac).mac ELSE hostMac
  /\ UNCHANGED <<bootVars, frameVars, queued>>

\* Seeded bug: the frame of the last enumeration stays.
OpenKeepsFrame ==
  /\ Running /\ usb = "attached" /\ Known \subseteq asked
  /\ usb' = "mounted"
  /\ sent' = <<>> /\ delivered' = <<>>
  /\ UNCHANGED <<bootVars, asked, hostMac, ntb, held, kept, queued, exhausted>>

\* tud_network_init_cb: the host configured the device and opens the network.
Open ==
  /\ Running /\ usb = "attached" /\ Known \subseteq asked
  /\ usb' = "mounted"
  /\ held' = NoFrame
  /\ sent' = <<>> /\ delivered' = <<>>
  /\ UNCHANGED <<bootVars, asked, hostMac, ntb, kept, queued, exhausted>>

Suspend ==
  /\ Running /\ usb = "mounted" /\ usb' = "suspended"
  /\ UNCHANGED <<bootVars, asked, hostMac, frameVars, queued>>

Resume ==
  /\ Running /\ usb = "suspended" /\ usb' = "mounted"
  /\ UNCHANGED <<bootVars, asked, hostMac, frameVars, queued>>

\* tud_network_recv_cb: one frame at a time, if the pool has a buffer.  An
\* empty frame, which it accepts and drops, ends a transfer: none is offered.
Accepts(slot, k) == slot = NoFrame /\ k < PoolSize
Exhausted(slot, k) == slot = NoFrame /\ ~Accepts(slot, k)

\* A transfer of one or two frames; TinyUSB offers the first.
RxComplete(n) ==
  /\ Running /\ usb = "mounted" /\ ntb = <<>>
  /\ Len(sent) + n <= MaxFrames
  /\ LET frames == [i \in 1 .. n |-> Len(sent) + i]
     IN  /\ sent' = sent \o frames
         /\ IF Accepts(held, kept)
              THEN held' = Head(frames) /\ ntb' = Tail(frames)
              ELSE ntb' = frames /\ UNCHANGED held
         /\ exhausted' = Exhausted(held, kept)
  /\ UNCHANGED <<bootVars, busVars, kept, delivered, queued>>

\* The host has read a frame of the send buffer.
TxComplete ==
  /\ Running /\ usb = "mounted" /\ queued > 0
  /\ queued' = queued - 1
  /\ UNCHANGED <<bootVars, busVars, frameVars>>

-------------------------------------------------------------------------------
\* net_usb_task.

\* lwIP keeps the frame, as a fragment of a datagram, or frees it, and with the
\* last fragment, or to make room, others too.  Its own limit
\* (IP_REASS_MAX_PBUFS, 10) is above that of the pool and never reached.
KeptAfter == 0 .. kept + 1

\* Seeded bug: the frame is still held while TinyUSB offers the next one.
TaskFrameRenewsFirst ==
  /\ Running /\ held # NoFrame
  /\ delivered' = Append(delivered, held)
  /\ held' = NoFrame
  /\ kept' \in KeptAfter
  /\ UNCHANGED <<bootVars, busVars, ntb, sent, queued, exhausted>>

\* Seeded bug: the next frame is not asked for at all when lwIP kept this one.
TaskFrameWithoutRenew ==
  /\ Running /\ held # NoFrame
  /\ delivered' = Append(delivered, held)
  /\ \E k \in KeptAfter :
       /\ IF ntb # <<>> /\ k <= kept
            THEN held' = Head(ntb) /\ ntb' = Tail(ntb)
            ELSE held' = NoFrame /\ UNCHANGED ntb
       /\ exhausted' = (ntb # <<>> /\ Exhausted(NoFrame, k))
       /\ kept' \in 0 .. k
  /\ UNCHANGED <<bootVars, busVars, sent, queued>>

\* ethernet_input, then tud_network_recv_renew, then sys_check_timeouts.
TaskFrame ==
  /\ Running /\ held # NoFrame
  /\ delivered' = Append(delivered, held)
  /\ \E k \in KeptAfter :
       /\ IF ntb # <<>> /\ Accepts(NoFrame, k)
            THEN held' = Head(ntb) /\ ntb' = Tail(ntb)
            ELSE held' = NoFrame /\ UNCHANGED ntb
       /\ exhausted' = (ntb # <<>> /\ Exhausted(NoFrame, k))
       /\ kept' \in 0 .. k
  /\ UNCHANGED <<bootVars, busVars, sent, queued>>

\* No frame is held: only the timers run.
TaskTimers ==
  /\ Running /\ held = NoFrame
  /\ kept' \in 0 .. kept
  /\ UNCHANGED <<bootVars, busVars, ntb, held, sent, delivered, queued, exhausted>>

Task == TaskFrame \/ TaskTimers

\* linkoutput_cb: ERR_USE, ERR_MEM or ERR_OK.
Output ==
  CASE usb # "mounted" -> "use"
    [] usb = "mounted" /\ queued = OutRoom -> "mem"
    [] OTHER -> "ok"

Transmit ==
  /\ Running /\ Output = "ok"
  /\ queued' = queued + 1
  /\ UNCHANGED <<bootVars, busVars, frameVars>>

\* net_usb_ready; the interface stays up from net_usb_init on.
NetUsbReady == ready /\ usb \in {"mounted", "suspended"}

-------------------------------------------------------------------------------

Init ==
  /\ board \in Boards /\ boot = "identity"
  /\ mac = <<"default", 0>> /\ netif = NoAddress /\ ready = FALSE
  /\ usb = "off" /\ asked = {} /\ hostMac = NoAddress
  /\ ntb = <<>> /\ held = NoFrame /\ kept = 0 /\ queued = 0
  /\ sent = <<>> /\ delivered = <<>> /\ exhausted = FALSE

Boot == PrepareIdentity \/ TusbInit \/ NetUsbInit

BusEvent ==
  \/ BusReset \/ Open \/ Suspend \/ Resume \/ TxComplete
  \/ \E r \in Requests : Ask(r)
  \/ \E n \in 1 .. 2 : RxComplete(n)

Next == Boot \/ BusEvent \/ Task \/ Transmit

Spec == Init /\ [][Next]_vars

\* Each iteration of the loop calls net_usb_task, since tud_task returns when
\* the events that have arrived are handled.
LiveSpec == Spec /\ WF_vars(Boot) /\ WF_vars(Task)

-------------------------------------------------------------------------------
\* Properties.

NetTypeOK ==
  /\ board \in Boards
  /\ boot \in {"identity", "usb", "network", "loop"}
  /\ mac \in Addresses /\ netif \in Addresses /\ hostMac \in Addresses
  /\ ready \in BOOLEAN
  /\ usb \in {"off", "attached", "refused", "mounted", "suspended"}
  /\ asked \subseteq Requests
  /\ ntb \in Seq(Frames) /\ held \in Frames \cup {NoFrame}
  /\ kept \in 0 .. PoolSize /\ queued \in 0 .. OutRoom
  /\ sent \in Seq(Frames) /\ delivered \in Seq(Frames) /\ exhausted \in BOOLEAN

\* TinyUSB waits with a frame while none is held only if lwIP kept the whole
\* pool when it offered that frame; reception then stops until the bus is
\* reset, since nothing calls tud_network_recv_renew when lwIP frees buffers
\* (net_usb.c:110, 128).  Every other refused frame is asked for again.
OnlyThePoolStops == ntb # <<>> /\ held = NoFrame => exhausted

AddressesDiffer ==
  NetUsbReady => hostMac = <<"board", 0>> /\ netif = <<"board", 1>>

\* The host can use whatever it reads; and once net_usb_ready lets the client
\* connect, the host's end and the device's end of the link have addresses that
\* differ in the bit net_usb_init flips, both made from the board's own id (the
\* tables of usb_descriptors.c; net_usb_prepare_identity, tusb_init and
\* net_usb_init in the order of main).
HostAccepts ==
  /\ usb # "refused"
  /\ AddressesDiffer

Held == IF held = NoFrame THEN <<>> ELSE <<held>>

\* Every frame sent since the network was opened is with lwIP, held or with
\* TinyUSB, in this order: none is lost or repeated, and none of an earlier
\* enumeration is among them (tud_network_recv_cb, tud_network_init_cb).
FramesInOrder ==
  usb \in {"mounted", "suspended"} => delivered \o Held \o ntb = sent

\* Every frame the host sends reaches lwIP, unless the bus is reset or an offer
\* met an exhausted pool: buffers that are kept below that, and freed before or
\* after, never stop reception (tud_network_recv_cb, net_usb_task).
FramesArrive ==
  \A n \in Frames :
    Len(sent) >= n ~> (Len(delivered) >= n \/ usb = "attached" \/ exhausted)
===============================================================================
