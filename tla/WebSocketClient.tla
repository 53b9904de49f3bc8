---------------------------- MODULE WebSocketClient ----------------------------
(***************************************************************************)
(* common/websocket_client.c: the connection's life cycle, its timers and  *)
(* what it writes, over the receive half of WebSocketRx.                   *)
(*                                                                         *)
(* The firmware has one thread.  A handler is split into steps where it    *)
(* loops or calls out; pc names the step, and "loop" is the main loop      *)
(* between two handlers, the only place where the environment is seen.     *)
(*                                                                         *)
(* Timestamps are ages: rxAge is now - s_last_rx_ms, and so on.  An age is *)
(* only ever compared with its threshold, so it stops at a cap beyond it.  *)
(***************************************************************************)
EXTENDS WebSocketRx

CONSTANTS
  OfflineDelay,    \* 500 ms
  RetryStep,       \* 1000 ms
  RetryMax,        \* 5000 ms
  ConnectTimeout,  \* connect_timeout_ms, 0 for none
  IdleTimeout,     \* idle_timeout_ms, 0 for none
  PingInterval,    \* ping_interval_ms, 0 for none
  IterMax          \* the longest iteration of the main loop

VARIABLES
  pc,          \* where the one thread is
  netReady,    \* what net_usb_ready() returns
  pcb,         \* s_pcb: "none", "syn" (connecting) or "established"
  state,       \* s_state
  retryDelay,  \* s_retry_delay_ms
  retryIn,     \* s_retry_at_ms - now, 0 when it has passed
  rxAge,       \* now - s_last_rx_ms
  pingAge,     \* now - s_last_ping_ms
  outbound,    \* "torn" when a frame was queued in part, else "whole"
  gap          \* history: time since the last connect_now, up to OfflineDelay

timers   == <<retryDelay, retryIn, rxAge, pingAge, gap>>
linkVars == <<netReady, pcb, state, outbound, timers>>
wsVars   == <<rxVars, peerVars, linkVars>>

States == {"OFFLINE", "CONNECTING", "HANDSHAKE", "OPEN", "ERROR"}

ASSUME WsAssumption ==
  /\ OfflineDelay \in Nat \ {0}
  /\ RetryStep \in Nat \ {0}
  /\ RetryMax \in Nat
  /\ OfflineDelay <= RetryStep
  /\ RetryStep <= RetryMax
  /\ ConnectTimeout \in Nat /\ IdleTimeout \in Nat /\ PingInterval \in Nat
  /\ IterMax \in Nat

AtMost(x, cap) == IF x > cap THEN cap ELSE x

\* Past its cap an age exceeds the threshold by more than one iteration.
CapOf(threshold) == IF threshold = 0 THEN 0 ELSE threshold + IterMax + 1
RxAgeCap ==
  IF ConnectTimeout > IdleTimeout THEN CapOf(ConnectTimeout)
  ELSE CapOf(IdleTimeout)

Age(d) ==
  /\ rxAge' = AtMost(rxAge + d, RxAgeCap)
  /\ pingAge' = AtMost(pingAge + d, CapOf(PingInterval))
  /\ retryIn' = IF retryIn > d THEN retryIn - d ELSE 0
  /\ gap' = AtMost(gap + d, OfflineDelay)
  /\ UNCHANGED retryDelay

Elapsed(threshold, age) == threshold # 0 /\ age > threshold

-------------------------------------------------------------------------------
\* What the handlers are made of.

\* close_connection: the pcb loses its callbacks and is aborted.
CloseConnection ==
  /\ pcb' = "none"
  /\ outbound' = "whole"
  /\ ClearRx
  /\ DropStream

\* Seeded bug: the delay grows for ever.
LongerDelayUncapped == retryDelay + RetryStep

\* After a failure the next one waits a second more, up to RetryMax.
LongerDelay ==
  IF retryDelay < RetryMax THEN retryDelay + RetryStep ELSE retryDelay

ScheduleRetry ==
  /\ CloseConnection
  /\ state' = "ERROR"
  /\ retryIn' = retryDelay
  /\ retryDelay' = LongerDelay

\* send_frame and write_bytes: tcp_write may run out of memory before the
\* first byte is queued, or after it, or tcp_output may fail.
WriteOk   == UNCHANGED outbound
WriteFail == outbound' \in {outbound, "torn"}

-------------------------------------------------------------------------------
\* lwIP calls back from net_usb_task.

\* connected_cb: the upgrade request is written.
Connected ==
  /\ pc = "loop" /\ pcb = "syn"
  /\ pcb' = "established"
  /\ state' = "HANDSHAKE"
  /\ UNCHANGED <<pc, netReady, outbound, timers, rxVars, peerVars>>

ConnectedFail ==
  /\ pc = "loop" /\ pcb = "syn"
  /\ ScheduleRetry
  /\ UNCHANGED <<pc, netReady, rxAge, pingAge, gap>>

\* receive_cb with a segment of n bytes.
Segments ==
  {n \in 1 .. MaxSegment : arrived + n <= WireEnd}

Receive(n) ==
  /\ pc = "loop" /\ pcb = "established"
  /\ ~Overflows(n)
  /\ Buffer(n)
  /\ rxAge' = 0
  /\ pc' = IF state = "HANDSHAKE" THEN "handshake" ELSE "frames"
  /\ UNCHANGED <<peerVars, netReady, pcb, state, outbound, retryDelay, retryIn,
                 pingAge, gap>>

\* ... with a pong, the answer to a ping, and nothing before or behind it.  It is
\* consumed at once.  Such pongs are not counted in MaxItems.
ReceivePong ==
  /\ pc = "loop" /\ pcb = "established" /\ state = "OPEN"
  /\ arrived = WireEnd /\ rxLen = 0
  /\ rxAge' = 0
  /\ UNCHANGED <<pc, rxVars, peerVars, netReady, pcb, state, outbound, retryDelay,
                 retryIn, pingAge, gap>>

ReceiveOverflow(n) ==
  /\ pc = "loop" /\ pcb = "established"
  /\ Overflows(n)
  /\ ScheduleRetry
  /\ UNCHANGED <<pc, netReady, rxAge, pingAge, gap>>

\* receive_cb without a pbuf: the server closed its side, after all it wrote.
ReceiveFin ==
  /\ pc = "loop" /\ pcb = "established"
  /\ arrived = WireEnd
  /\ ScheduleRetry
  /\ UNCHANGED <<pc, netReady, rxAge, pingAge, gap>>

\* error_cb: refused, reset or given up by lwIP, which has freed the pcb.
ErrorCallback ==
  /\ pc = "loop" /\ pcb # "none"
  /\ pcb' = "none"
  /\ outbound' = "whole"
  /\ ClearRx
  /\ DropStream
  /\ state' = "ERROR"
  /\ retryIn' = retryDelay
  /\ UNCHANGED <<pc, netReady, retryDelay, rxAge, pingAge, gap>>

\* Seeded bug: the end of the response is only seen with a byte after it.
ResponseFollowed == rxLen > Size(FrontFrame)

\* consume_handshake: wait for the blank line, then look for "101".
ResponseComplete == rxLen >= Size(FrontFrame)

HandshakeWait ==
  /\ pc = "handshake"
  /\ ~ResponseComplete
  /\ pc' = "loop"
  /\ UNCHANGED wsVars

HandshakeRefused ==
  /\ pc = "handshake"
  /\ ResponseComplete /\ FrontFrame.op # "accept"
  /\ pc' = "abort"
  /\ UNCHANGED wsVars

HandshakeAccepted ==
  /\ pc = "handshake"
  /\ ResponseComplete /\ FrontFrame.op = "accept"
  /\ Used(FrontFrame)
  /\ state' = "OPEN"
  /\ retryDelay' = RetryStep
  /\ rxAge' = 0 /\ pingAge' = 0
  /\ pc' = "opened"
  /\ UNCHANGED <<arrived, fragVars, delivered, peerVars, netReady, pcb, outbound,
                 retryIn, gap>>

\* consume_frames, one round of its loop.
FramesWait ==
  /\ pc = "frames"
  /\ NeedsMore
  /\ pc' = "loop"
  /\ UNCHANGED wsVars

FramesRefuse ==
  /\ pc = "frames"
  /\ ~NeedsMore /\ Refused(FrontFrame)
  /\ pc' = "abort"
  /\ UNCHANGED wsVars

FramesTake ==
  /\ pc = "frames"
  /\ ~NeedsMore /\ ~Refused(FrontFrame)
  /\ TakeFrame(FrontFrame)
  /\ UNCHANGED <<pc, peerVars, linkVars>>

FramesPing ==
  /\ pc = "frames"
  /\ ~NeedsMore /\ ~Refused(FrontFrame) /\ FrontFrame.op = "ping"
  /\ WriteOk
  /\ Used(FrontFrame)
  /\ UNCHANGED <<pc, arrived, fragVars, delivered, peerVars, netReady, pcb,
                 state, timers>>

\* Seeded bug: the result of send_frame is ignored.
FramesPingFailIgnored ==
  /\ pc = "frames"
  /\ ~NeedsMore /\ ~Refused(FrontFrame) /\ FrontFrame.op = "ping"
  /\ WriteFail
  /\ Used(FrontFrame)
  /\ UNCHANGED <<pc, arrived, fragVars, delivered, peerVars, netReady, pcb,
                 state, timers>>

FramesPingFail ==
  /\ pc = "frames"
  /\ ~NeedsMore /\ ~Refused(FrontFrame) /\ FrontFrame.op = "ping"
  /\ WriteFail
  /\ pc' = "abort"
  /\ UNCHANGED <<rxVars, peerVars, netReady, pcb, state, timers>>

\* receive_cb got false from the parsers: retry and return ERR_ABRT.
ReceiveAbort ==
  /\ pc = "abort"
  /\ ScheduleRetry
  /\ pc' = "loop"
  /\ UNCHANGED <<netReady, rxAge, pingAge, gap>>

-------------------------------------------------------------------------------
\* websocket_client_task, which ends in the rest of eddjson_client_task.

\* Seeded bug: only an open connection is closed when the network goes.
TaskOfflineClosesOpen ==
  /\ pc = "loop" /\ ~netReady
  /\ IF state = "OPEN" THEN CloseConnection
     ELSE UNCHANGED <<pcb, outbound, rxVars, peerVars>>
  /\ state' = "OFFLINE"
  /\ retryIn' = OfflineDelay
  /\ pc' = "periodic"
  /\ UNCHANGED <<netReady, retryDelay, rxAge, pingAge, gap>>

TaskOffline ==
  /\ pc = "loop" /\ ~netReady
  /\ IF pcb # "none" THEN CloseConnection
     ELSE UNCHANGED <<pcb, outbound, rxVars, peerVars>>
  /\ state' = "OFFLINE"
  /\ retryIn' = OfflineDelay
  /\ pc' = "periodic"
  /\ UNCHANGED <<netReady, retryDelay, rxAge, pingAge, gap>>

\* Seeded bug: a failed connection is not tried again.
MayConnectOnce == pcb = "none" /\ state = "OFFLINE" /\ retryIn = 0

MayConnect ==
  pcb = "none" /\ state \in {"OFFLINE", "ERROR"} /\ retryIn = 0

\* connect_now.
TaskConnect ==
  /\ pc = "loop" /\ netReady /\ MayConnect
  /\ pcb' = "syn"
  /\ state' = "CONNECTING"
  /\ rxAge' = 0
  /\ gap' = 0
  /\ pc' = "periodic"
  /\ UNCHANGED <<netReady, outbound, retryDelay, retryIn, pingAge, rxVars, peerVars>>

\* No pcb, or tcp_connect returned an error.
TaskConnectFail ==
  /\ pc = "loop" /\ netReady /\ MayConnect
  /\ ScheduleRetry
  /\ rxAge' \in {rxAge, 0}
  /\ gap' = 0
  /\ pc' = "periodic"
  /\ UNCHANGED <<netReady, pingAge>>

IdleExpired == state = "OPEN" /\ Elapsed(IdleTimeout, rxAge)
\* Seeded bug: only a silent connection is pinged.
PingDueWhenQuiet == state = "OPEN" /\ Elapsed(PingInterval, rxAge)
\* Seeded bug: the ping waits for the idle timeout.
PingDueWhenIdle == state = "OPEN" /\ IdleExpired /\ Elapsed(PingInterval, pingAge)
PingDue == state = "OPEN" /\ ~IdleExpired /\ Elapsed(PingInterval, pingAge)
\* Seeded bug: the handshake has no timeout.
ConnectExpiredBeforeHandshake ==
  state = "CONNECTING" /\ Elapsed(ConnectTimeout, rxAge)
ConnectExpired ==
  state \in {"CONNECTING", "HANDSHAKE"} /\ Elapsed(ConnectTimeout, rxAge)

TaskTimeout ==
  /\ pc = "loop" /\ netReady /\ ~MayConnect
  /\ IdleExpired \/ ConnectExpired
  /\ ScheduleRetry
  /\ pc' = "periodic"
  /\ UNCHANGED <<netReady, rxAge, pingAge, gap>>

TaskPing ==
  /\ pc = "loop" /\ netReady /\ PingDue
  /\ WriteOk
  /\ pingAge' = 0
  /\ pc' = "periodic"
  /\ UNCHANGED <<netReady, pcb, state, retryDelay, retryIn, rxAge, gap, rxVars,
                 peerVars>>

TaskPingFail ==
  /\ pc = "loop" /\ netReady /\ PingDue
  /\ WriteFail
  /\ pingAge' = 0
  /\ pc' = "giveup"
  /\ UNCHANGED <<netReady, pcb, state, retryDelay, retryIn, rxAge, gap, rxVars,
                 peerVars>>

TaskIdle ==
  /\ pc = "loop" /\ netReady /\ ~MayConnect
  /\ ~IdleExpired /\ ~PingDue /\ ~ConnectExpired
  /\ pc' = "periodic"
  /\ UNCHANGED wsVars

\* schedule_retry after a failed write in a task, not in a callback.
TaskGiveUp ==
  /\ pc = "giveup"
  /\ ScheduleRetry
  /\ pc' = "sleep"
  /\ UNCHANGED <<netReady, rxAge, pingAge, gap>>

-------------------------------------------------------------------------------

WsInit ==
  /\ RxInit
  /\ pc = "loop"
  /\ netReady = FALSE
  /\ pcb = "none" /\ state = "OFFLINE"
  /\ retryDelay = RetryStep /\ retryIn = 0
  /\ rxAge = 0 /\ pingAge = 0
  /\ outbound = "whole"
  /\ gap = OfflineDelay

FlagsOK == netReady \in BOOLEAN

PlacesOK ==
  /\ pc \in {"loop", "handshake", "opened", "frames", "abort", "giveup",
             "periodic", "sleep"}
  /\ pcb \in {"none", "syn", "established"}
  /\ state \in States
  /\ outbound \in {"whole", "torn"}

TimersOK ==
  /\ retryDelay \in RetryStep .. (RetryMax + RetryStep)
  /\ retryIn \in 0 .. (RetryMax + RetryStep)
  /\ rxAge \in 0 .. RxAgeCap
  /\ pingAge \in 0 .. CapOf(PingInterval)
  /\ gap \in 0 .. OfflineDelay

WsTypeOK == FlagsOK /\ PlacesOK /\ TimersOK

CallbackStep ==
  \/ Connected \/ ConnectedFail
  \/ \E n \in Segments : Receive(n) \/ ReceiveOverflow(n)
  \/ ReceivePong \/ ReceiveFin \/ ErrorCallback
  \/ HandshakeWait \/ HandshakeRefused \/ HandshakeAccepted
  \/ FramesWait \/ FramesRefuse \/ FramesTake \/ FramesPing \/ FramesPingFail
  \/ ReceiveAbort

TaskStep ==
  \/ TaskOffline \/ TaskConnect \/ TaskConnectFail \/ TaskTimeout
  \/ TaskPing \/ TaskPingFail \/ TaskIdle \/ TaskGiveUp
===============================================================================
