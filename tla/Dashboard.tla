------------------------------- MODULE Dashboard --------------------------------
(***************************************************************************)
(* PicoDeck-ED-Display/src/dashboard.c: the screen is drawn in stripes, one*)
(* by each call of dashboard_task, from data that changes in between.      *)
(*                                                                         *)
(* What a stripe shows is the picture it was rendered from: the page, the  *)
(* telemetry, the connection and the phase of the scrolling texts.         *)
(***************************************************************************)
EXTENDS Integers

CONSTANTS
  Stripes,     \* LCD_HEIGHT / STRIPE_HEIGHT, rounded up
  PageCount,   \* PAGE_COUNT
  Data,        \* telemetry, as far as it is shown
  NoData,      \* edd_state_init
  States,      \* websocket_state_t
  Offline,     \* WS_OFFLINE
  NoState,     \* 99, different from every state
  Wide,        \* the pages and telemetry with a text that has to scroll
  Phases,      \* s_render_ms, as far as it moves a text
  ScrollTime,  \* SCROLL_REDRAW_MS
  Blank        \* what lcd_fill leaves

Pictures ==
  [page : 0 .. PageCount - 1, data : Data, usb : BOOLEAN,
   websocket : States, phase : Phases]

ASSUME DashboardAssumption ==
  /\ Stripes \in Nat \ {0, 1} /\ PageCount \in Nat \ {0}
  /\ NoData \in Data /\ Offline \in States /\ NoState \notin States
  /\ Wide \subseteq (0 .. PageCount - 1) \X Data
  /\ 0 \in Phases /\ ScrollTime \in Nat /\ Blank \notin Pictures

VARIABLES
  data,       \* *s_data
  news,       \* s_data->generation differs from s_generation
  page,       \* s_page
  usb,        \* s_usb_network
  websocket,  \* s_websocket
  last,       \* s_last_usb, s_last_websocket
  stripe,     \* s_stripe_y: the next stripe, or Idle
  phase,      \* s_render_ms
  scrollAge,  \* time since the last frame was finished, up to ScrollTime
  screen,     \* what every stripe of the panel shows
  calm        \* history: calls of dashboard_task since the last change

dashVars ==
  <<data, news, page, usb, websocket, last, stripe, phase, scrollAge, screen, calm>>

Idle == -1
AllStripes == 0 .. Stripes - 1

AtMost(n, max) == IF n > max THEN max ELSE n

-------------------------------------------------------------------------------

\* Seeded bug: the frame that is being drawn goes on.
RequestRedrawGoesOn ==
  /\ stripe' = IF stripe = Idle THEN 0 ELSE stripe
  /\ phase' \in Phases

\* dashboard_request_redraw.
RequestRedraw == stripe' = 0 /\ phase' \in Phases

\* dashboard_next_page.
NextPage ==
  /\ page' = (page + 1) % PageCount
  /\ RequestRedraw

Picture(p) ==
  [page |-> page, data |-> data, usb |-> usb, websocket |-> websocket, phase |-> p]

\* Seeded bug: the network is not compared.
ChangedButNetwork == news \/ websocket # last.websocket

\* What dashboard_task compares.
Changed == news \/ usb # last.usb \/ websocket # last.websocket

\* Seeded bug: only the first page is asked.
NeedsScrollOnRoute == usb /\ page = 0 /\ <<page, data>> \in Wide

\* page_needs_scroll; the set-up page has no text that scrolls.
NeedsScroll == usb /\ <<page, data>> \in Wide

ScrollDue == stripe = Idle /\ NeedsScroll /\ scrollAge >= ScrollTime

\* render_stripe and the blit: one stripe, and the time of the frame's end.
RenderStripe(y, p) ==
  /\ screen' = [screen EXCEPT ![y] = Picture(p)]
  /\ stripe' = IF y + 1 = Stripes THEN Idle ELSE y + 1
  /\ scrollAge' = IF y + 1 = Stripes THEN 0 ELSE scrollAge

\* dashboard_task.
TaskRestarts ==
  /\ Changed \/ ScrollDue
  /\ phase' \in Phases
  /\ RenderStripe(0, phase')

TaskContinues ==
  /\ ~Changed /\ stripe # Idle
  /\ RenderStripe(stripe, phase)
  /\ UNCHANGED phase

TaskRests ==
  /\ ~Changed /\ ~ScrollDue /\ stripe = Idle
  /\ UNCHANGED <<stripe, phase, scrollAge, screen>>

Task ==
  /\ TaskRestarts \/ TaskContinues \/ TaskRests
  /\ news' = FALSE
  /\ last' = [usb |-> usb, websocket |-> websocket]
  /\ calm' = AtMost(calm + 1, Stripes)
  /\ UNCHANGED <<data, page, usb, websocket>>

\* dashboard_init, after dashboard_set_connection(false, WS_OFFLINE).
DashboardInit ==
  /\ data = NoData /\ news = FALSE
  /\ page = 0 /\ usb = FALSE /\ websocket = Offline
  /\ last = [usb |-> FALSE, websocket |-> NoState]
  /\ stripe = 0 /\ phase = 0 /\ scrollAge = ScrollTime
  /\ screen = [y \in AllStripes |-> Blank]
  /\ calm = 0
===============================================================================
