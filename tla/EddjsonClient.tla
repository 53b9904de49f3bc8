----------------------------- MODULE EddjsonClient -----------------------------
(***************************************************************************)
(* common/eddjson_client.c over WebSocketClient: the requests written when *)
(* a connection opens, the periodic request, and the main loop that calls  *)
(* tud_task, net_usb_task and eddjson_client_task and then sleeps.         *)
(***************************************************************************)
EXTENDS WebSocketClient

CONSTANTS
  NInitial,          \* initial_request_count
  PeriodicInterval   \* periodic_interval_ms, 0 for none

VARIABLES
  requested,    \* i in on_websocket_opened: initial requests written so far
  periodicAge   \* now - s_last_periodic_request_ms

eddVars == <<requested, periodicAge>>
vars    == <<pc, wsVars, eddVars>>

ASSUME EddAssumption ==
  /\ NInitial \in Nat
  /\ PeriodicInterval \in Nat

-------------------------------------------------------------------------------
\* The environment: the server writes, the USB network comes and goes.

\* The server answers the upgrade request.
ServerRespond ==
  /\ pc = "loop" /\ state = "HANDSHAKE" /\ wire = <<>>
  /\ \E f \in {Accept, Reject} : Write(f)
  /\ UNCHANGED <<pc, linkVars, eddVars>>

\* ... and writes frames once it has accepted it.
ServerSend ==
  /\ pc = "loop" /\ pcb = "established"
  /\ wire # <<>> /\ wire[1].frame = Accept
  /\ \E f \in Frames : Write(f)
  /\ UNCHANGED <<pc, linkVars, eddVars>>

NetworkChange ==
  /\ pc = "loop"
  /\ netReady' = ~netReady
  /\ UNCHANGED <<pc, rxVars, peerVars, pcb, state, outbound, timers, eddVars>>

-------------------------------------------------------------------------------
\* on_websocket_opened.

OpenedRequest ==
  /\ pc = "opened" /\ requested < NInitial
  /\ WriteOk
  /\ requested' = requested + 1
  /\ UNCHANGED <<pc, rxVars, peerVars, netReady, pcb, state, timers,
                 periodicAge>>

\* Seeded bug: a request that could not be written is skipped.
OpenedFailSkips ==
  /\ pc = "opened" /\ requested < NInitial
  /\ WriteFail
  /\ pc' = "frames"
  /\ UNCHANGED <<rxVars, peerVars, netReady, pcb, state, timers, eddVars>>

OpenedFail ==
  /\ pc = "opened" /\ requested < NInitial
  /\ WriteFail
  /\ pc' = "abort"
  /\ UNCHANGED <<rxVars, peerVars, netReady, pcb, state, timers, eddVars>>

\* Seeded bug: receive_cb returns after the handshake.
OpenedDoneReturns ==
  /\ pc = "opened" /\ requested = NInitial
  /\ periodicAge' = 0
  /\ pc' = "loop"
  /\ UNCHANGED <<wsVars, requested>>

OpenedDone ==
  /\ pc = "opened" /\ requested = NInitial
  /\ periodicAge' = 0
  /\ pc' = "frames"
  /\ UNCHANGED <<wsVars, requested>>

\* The rest of eddjson_client_task.

PeriodicDue == state = "OPEN" /\ Elapsed(PeriodicInterval, periodicAge)

PeriodicRequest ==
  /\ pc = "periodic" /\ PeriodicDue
  /\ WriteOk
  /\ periodicAge' = 0
  /\ pc' = "sleep"
  /\ UNCHANGED <<rxVars, peerVars, netReady, pcb, state, timers, requested>>

PeriodicFail ==
  /\ pc = "periodic" /\ PeriodicDue
  /\ WriteFail
  /\ pc' = "giveup"
  /\ UNCHANGED <<rxVars, peerVars, netReady, pcb, state, timers, eddVars>>

PeriodicSkip ==
  /\ pc = "periodic" /\ ~PeriodicDue
  /\ pc' = "sleep"
  /\ UNCHANGED <<wsVars, eddVars>>

\* The main loop sleeps; all the time of an iteration passes here.
Sleep(d) ==
  /\ pc = "sleep"
  /\ pc' = "loop"
  /\ Age(d)
  /\ periodicAge' = AtMost(periodicAge + d, CapOf(PeriodicInterval))
  /\ UNCHANGED <<rxVars, peerVars, netReady, pcb, state, outbound, requested>>

-------------------------------------------------------------------------------

Init ==
  /\ WsInit
  /\ requested = 0 /\ periodicAge = 0

Environment == ServerRespond \/ ServerSend \/ NetworkChange

\* The steps of websocket_client.c; a new handshake starts the requests anew.
WebSocketStep ==
  /\ CallbackStep \/ TaskStep
  /\ requested' = IF pc' = "opened" THEN 0 ELSE requested
  /\ UNCHANGED periodicAge

EddjsonStep ==
  \/ OpenedRequest \/ OpenedFail \/ OpenedDone
  \/ PeriodicRequest \/ PeriodicFail \/ PeriodicSkip
  \/ \E d \in 0 .. IterMax : Sleep(d)

Next == Environment \/ WebSocketStep \/ EddjsonStep

Spec == Init /\ [][Next]_vars

(***************************************************************************)
(* Fairness.  A handler that was entered runs to its end.  tud_task and    *)
(* net_usb_task return after finitely many callbacks, so the task that     *)
(* follows them is strongly fair against any number of callbacks; and time *)
(* passes, since every iteration sleeps.                                   *)
(***************************************************************************)
LoopFairness ==
  /\ WF_vars(pc # "loop" /\ (WebSocketStep \/ EddjsonStep))
  /\ SF_vars(pc = "loop" /\ WebSocketStep /\ pc' = "periodic")
  /\ SF_vars(\E d \in 1 .. IterMax : Sleep(d))

LoopSpec == Spec /\ LoopFairness

\* A server that listens: it completes connections, answers, and TCP delivers.
ServerFairness ==
  /\ SF_vars(WebSocketStep /\ Connected)
  /\ SF_vars(ServerRespond)
  /\ SF_vars(WebSocketStep /\ \E n \in Segments : Receive(n))

-------------------------------------------------------------------------------
\* Properties.

EddTypeOK ==
  /\ requested \in 0 .. NInitial
  /\ periodicAge \in 0 .. CapOf(PeriodicInterval)

\* Every variable has its type.
TypeOK == RxTypeOK /\ WsTypeOK /\ EddTypeOK

\* s_pcb and s_state agree at every step of every handler: a connection exists
\* exactly in the states that say so (websocket_client.c, every path through
\* close_connection, error_cb and connect_now).
PcbMatchesState ==
  /\ pcb = "none" <=> state \in {"OFFLINE", "ERROR"}
  /\ pcb = "syn" <=> state = "CONNECTING"

\* The receive buffer always starts at the first byte of an item of the
\* stream, however segments cut it and whatever was left by an earlier
\* connection (receive_cb, consume_handshake, consume_frames).
FramesAligned ==
  /\ rxLen <= arrived /\ arrived <= WireEnd
  /\ OnBoundary

\* No accepted bytes pass the end of s_rx, nor a message the end of s_message.
BuffersHold == rxLen <= Capacity /\ msgLen <= Capacity

\* When receive_cb has returned, what is left in the buffer is an incomplete
\* item: no complete frame waits for the next segment, not even one that came
\* in the same segment as the HTTP response (receive_cb:219-220).
Drained ==
  (pc = "loop" /\ rxLen > 0) => rxLen < Size(FrontFrame)

\* receive_cb drops a connection for lack of room only when the item it is
\* receiving could not have been buffered with any segmentation to spare.
NoNeedlessOverflow ==
  (pc = "loop" /\ pcb = "established") =>
    \A n \in Segments :
      Overflows(n) => Size(FrontFrame) + MaxSegment > Capacity + 1

\* After a frame was queued in part, nothing happens before the connection is
\* aborted: the server never sees a frame with another one inside it.
OutboundWhole == outbound = "torn" => pc \in {"abort", "giveup"}

\* While the connection is open all initial requests have been written, and
\* before any pong, ping or periodic request (on_websocket_opened).
OpenMeansRequested ==
  (state = "OPEN" /\ pc \notin {"opened", "abort"}) => requested = NInitial

\* When an iteration ends with an open connection, neither the ping nor the
\* periodic request is overdue.
KeepsAsking ==
  (pc = "sleep" /\ state = "OPEN") =>
    /\ PingInterval # 0 => pingAge <= PingInterval
    /\ PeriodicInterval # 0 => periodicAge <= PeriodicInterval

\* The application sees the server's text messages whole, in order, once.
Channel == INSTANCE MessageChannel WITH Message <- Messages
DeliversMessages == Channel!Spec

\* Attempts are spaced and no connection outlives its timeout in silence.
Phase ==
  CASE state \in {"OFFLINE", "ERROR"} -> "down"
    [] state \in {"CONNECTING", "HANDSHAKE"} -> "trying"
    [] state = "OPEN" -> "up"

Link ==
  INSTANCE ReconnectingLink WITH
    phase        <- Phase,
    quiet        <- IF Phase = "down" THEN 0 ELSE rxAge,
    MinGap       <- OfflineDelay,
    TryTimeout   <- ConnectTimeout,
    QuietTimeout <- IdleTimeout
KeepsTime == Link!Spec

\* While the network stays ready the client never stops trying: it is connected
\* or connecting, or has just failed at once (websocket_client_task:326-330).
NeverGivesUp == <>[]netReady => []<>(pcb # "none" \/ gap = 0)

\* An attempt is decided, even if the server drips its response byte by byte.
AttemptsResolve ==
  state \in {"CONNECTING", "HANDSHAKE"} ~> state \in {"OPEN", "OFFLINE", "ERROR"}

\* The server has not answered: the SYN, the upgrade request, or a ping that was
\* sent after the last byte came.
ServerLate ==
  \/ pcb = "syn"
  \/ state = "HANDSHAKE" /\ (wire = <<>> \/ arrived < WireEnd)
  \/ state = "OPEN" /\ pingAge < AtMost(rxAge, CapOf(PingInterval))

\* From now on the network stays, the server answers as it should, nothing is
\* lost or late, and no write fails.  Timeouts of the client that fire although
\* the server has answered are not excluded.
Undisturbed ==
  /\ netReady' = netReady
  /\ wire' # <<>> => wire'[1].frame = Accept
  /\ ~(ErrorCallback \/ ReceiveFin \/ ConnectedFail \/ TaskConnectFail)
  /\ ~(OpenedFail \/ FramesPingFail) /\ pc' # "giveup"
  /\ TaskTimeout => ~ServerLate

\* With a fair server, once nothing disturbs it, the connection opens and stays
\* open, as long as pings are answered for ever (the whole of websocket_client.c:
\* a handshake that never ends, or an idle timeout before the ping, would break
\* it).
ComesUp ==
  (ServerFairness /\ <>[][Undisturbed]_vars /\ []<>netReady)
    => <>[](state = "OPEN")

\* README.md:46 promises reconnect backoff: a failure lengthens the delay
\* before the next attempt until it reaches its maximum.
BacksOff ==
  [][state # "ERROR" /\ state' = "ERROR" /\ retryDelay < RetryMax
       => retryDelay' > retryDelay]_vars
===============================================================================
