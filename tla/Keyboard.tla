-------------------------------- MODULE Keyboard --------------------------------
(***************************************************************************)
(* PicoDeck-ED-Keyboard/src/main.c with edd_buttons.c: the start-up screen,*)
(* the press machine between the touch panel and the HID endpoint, the     *)
(* BOOTSEL hold, and the tiles repainted from telemetry and presses.       *)
(*                                                                         *)
(* One iteration of the main loop goes through the places                  *)
(*   "loop" (tud_task, net_usb_task: the environment is seen here only),   *)
(*   "touch" or, with the start-up screen, straight to "sleep",            *)
(*   "hold", "key", "release" (only while a press is being served),        *)
(*   "draw" and "sleep", where all the time of the iteration passes.       *)
(* Times are ages, which stop at the threshold they are compared with.     *)
(***************************************************************************)
EXTENDS Naturals

CONSTANTS
  NButtons,       \* g_button_count
  Backed,         \* the tiles that telemetry can light
  TouchStable,    \* TOUCH_STABLE_POLLS
  ReleaseStable,  \* RELEASE_STABLE_POLLS
  CountMax,       \* 255, where the uint8_t counters stop
  PressTime,      \* HID_PRESS_TIME_MS
  BootHold,       \* BOOTSEL_HOLD_TIME_MS
  StartupMax,     \* STARTUP_MAX_TIME_MS
  ConnectedHold,  \* CONNECTED_HOLD_TIME_MS
  IterMax         \* the longest iteration

Tiles    == 0 .. NButtons - 1
NoTile   == NButtons       \* -1 in the code
BootTile == NButtons - 1

ASSUME KeyboardAssumption ==
  /\ NButtons \in Nat \ {0}
  /\ Backed \subseteq Tiles
  /\ TouchStable \in Nat \ {0} /\ ReleaseStable \in Nat \ {0}
  /\ CountMax \in Nat /\ TouchStable <= CountMax /\ ReleaseStable <= CountMax
  /\ PressTime \in Nat \ {0} /\ BootHold \in Nat \ {0}
  /\ StartupMax \in Nat /\ ConnectedHold \in Nat \ {0}
  /\ IterMax \in Nat

VARIABLES
  pc,         \* the place in the iteration
  usb,        \* "gone", "suspended" or "running" (tud_mounted, tud_ready)
  report,     \* the report in the HID endpoint: a tile, NoTile for key-up
  busy,       \* the endpoint holds a report the host has not fetched
  hostKey,    \* the tile whose key the host sees down
  link,       \* the WebSocket is WS_OPEN
  visible,    \* keyboard_visible
  startAge,   \* now - startup_at
  connected,  \* connected_at # 0
  openAge,    \* now - connected_at
  touched,    \* touched_button
  candidate,  \* candidate_button
  candCount,  \* candidate_count
  relCount,   \* release_count
  active,     \* active_button
  armed,      \* armed
  pending,    \* press_pending
  keyDown,    \* key_is_down
  pressAge,   \* now - (key_release_at - HID_PRESS_TIME_MS)
  holding,    \* bootsel_hold_at is not nil_time
  holdAge,    \* now - (bootsel_hold_at - BOOTSEL_HOLD_TIME_MS)
  mask,       \* s_active_mask
  dirty,      \* s_dirty_buttons
  screen,     \* the tiles drawn highlighted
  still,      \* history: how many polls in a row returned touched
  lifted,     \* history: the finger was lifted since the last accepted touch
  away        \* history: how long, in polls, it was not on the active tile

usbVars     == <<usb, report, busy, hostKey>>
startVars   == <<visible, startAge, connected, openAge>>
touchVars   == <<touched, candidate, candCount>>
pressVars   == <<active, armed, pending, keyDown, pressAge>>
holdVars    == <<holding, holdAge>>
pictureVars == <<mask, dirty, screen>>
historyVars == <<still, lifted, away>>
vars == <<pc, usbVars, link, startVars, touchVars, relCount, pressVars,
          holdVars, pictureVars, historyVars>>

AtMost(x, cap) == IF x > cap THEN cap ELSE x
PollsMax == IF TouchStable > ReleaseStable THEN TouchStable ELSE ReleaseStable

-------------------------------------------------------------------------------
\* What happens inside tud_task and net_usb_task.

\* The host comes, sleeps and wakes up.
UsbChange ==
  /\ pc = "loop"
  /\ usb' = IF usb = "running" THEN "suspended" ELSE "running"
  /\ UNCHANGED <<report, busy, hostKey>>
  /\ UNCHANGED <<pc, link, startVars, touchVars, relCount, pressVars, holdVars,
                 pictureVars, historyVars>>

\* The host goes away: it forgets the key it saw, the endpoint its report, and
\* the client closes its connection in this iteration (net_usb_ready is false).
UsbGone ==
  /\ pc = "loop" /\ usb # "gone"
  /\ usb' = "gone"
  /\ busy' = FALSE /\ report' = NoTile /\ hostKey' = NoTile
  /\ link' = FALSE
  /\ UNCHANGED <<pc, startVars, touchVars, relCount, pressVars, holdVars,
                 pictureVars, historyVars>>

HostFetch ==
  /\ pc = "loop" /\ usb = "running" /\ busy
  /\ hostKey' = report
  /\ busy' = FALSE /\ report' = NoTile
  /\ UNCHANGED <<pc, usb, link, startVars, touchVars, relCount, pressVars,
                 holdVars, pictureVars, historyVars>>

LinkChange ==
  /\ pc = "loop"
  /\ link' = ~link /\ usb # "gone"
  /\ UNCHANGED <<pc, usbVars, startVars, touchVars, relCount, pressVars,
                 holdVars, pictureVars, historyVars>>

\* Seeded bug: only newly lit tiles are marked dirty.
ChangedLitOnly(next) == next \ mask

\* edd_buttons_handle_json: changed = s_active_mask ^ next.
Changed(next) == (mask \ next) \cup (next \ mask)

\* on_websocket_message with an indicator.
Message ==
  /\ pc = "loop" /\ link
  /\ \E next \in SUBSET Backed :
       /\ dirty' = dirty \cup Changed(next)
       /\ mask' = next
  /\ UNCHANGED <<pc, usbVars, link, startVars, touchVars, relCount, pressVars,
                 holdVars, screen, historyVars>>

-------------------------------------------------------------------------------
\* The start-up screen.

Connected == usb # "gone" /\ link

StartupOver ==
  \/ Connected /\ connected /\ openAge >= ConnectedHold
  \/ startAge >= StartupMax

StartupWait ==
  /\ pc = "loop" /\ ~visible /\ ~StartupOver
  /\ connected' = Connected
  /\ openAge' = IF connected /\ Connected THEN openAge ELSE 0
  /\ pc' = "sleep"
  /\ UNCHANGED <<usbVars, link, visible, startAge, touchVars, relCount,
                 pressVars, holdVars, pictureVars, historyVars>>

\* render_keyboard.
RenderKeyboard == screen' = mask /\ dirty' = {}

StartupEnd ==
  /\ pc = "loop" /\ ~visible /\ StartupOver
  /\ visible' = TRUE
  /\ RenderKeyboard
  /\ connected' = Connected
  /\ openAge' = IF connected /\ Connected THEN openAge ELSE 0
  /\ pc' = "touch"
  /\ UNCHANGED <<usbVars, link, startAge, touchVars, relCount, pressVars,
                 holdVars, mask, historyVars>>

-------------------------------------------------------------------------------
\* touch_poll returned tile t, or NoTile.  The tiles cover the panel, so that
\* touching is the same as touched_button >= 0.

Polling == pc = "touch" \/ (pc = "loop" /\ visible)

CountWith(t) == IF t = candidate THEN AtMost(candCount + 1, CountMax) ELSE 1

\* History of the polls.
StillWith(t) == IF t = touched THEN AtMost(still + 1, PollsMax) ELSE 1
Lifted(t)    == t = NoTile /\ StillWith(t) >= ReleaseStable
AwayWith(t) ==
  IF away < ReleaseStable /\ t = active THEN 0
  ELSE AtMost(away + 1, ReleaseStable)

PollCount(t) ==
  /\ Polling /\ armed /\ t # NoTile /\ CountWith(t) < TouchStable
  /\ touched' = t /\ candidate' = t /\ candCount' = CountWith(t)
  /\ pc' = "draw"
  /\ still' = StillWith(t)
  /\ UNCHANGED <<lifted, away, usbVars, link, startVars, relCount, pressVars,
                 holdVars, pictureVars>>

PollAccept(t) ==
  /\ Polling /\ armed /\ t # NoTile /\ CountWith(t) >= TouchStable
  /\ touched' = t /\ candidate' = t /\ candCount' = CountWith(t)
  /\ active' = t /\ armed' = FALSE /\ pending' = TRUE
  /\ relCount' = 0
  /\ holding' = (t = BootTile) /\ holdAge' = 0
  /\ screen' = screen \cup {t}
  /\ pc' = "hold"
  /\ still' = StillWith(t) /\ lifted' = FALSE /\ away' = 0
  /\ UNCHANGED <<usbVars, link, startVars, keyDown, pressAge, mask, dirty>>

PollNothing ==
  /\ Polling /\ armed
  /\ touched' = NoTile /\ candidate' = NoTile /\ candCount' = 0
  /\ pc' = "draw"
  /\ still' = StillWith(NoTile)
  /\ lifted' = (lifted \/ Lifted(NoTile))
  /\ UNCHANGED <<away, usbVars, link, startVars, relCount, pressVars, holdVars,
                 pictureVars>>

PollServing(t) ==
  /\ Polling /\ ~armed
  /\ touched' = t
  /\ pc' = "hold"
  /\ still' = StillWith(t)
  /\ lifted' = (lifted \/ Lifted(t))
  /\ away' = AwayWith(t)
  /\ UNCHANGED <<candidate, candCount, usbVars, link, startVars, relCount,
                 pressVars, holdVars, pictureVars>>

-------------------------------------------------------------------------------
\* A press is being served.

BootDue ==
  /\ active = BootTile /\ touched = active
  /\ holding /\ holdAge >= BootHold

\* reset_usb_boot does not return.
Boot ==
  /\ pc = "hold" /\ BootDue
  /\ pc' = "boot"
  /\ UNCHANGED <<usbVars, link, startVars, touchVars, relCount, pressVars,
                 holdVars, pictureVars, historyVars>>

\* Seeded bugs: a touch does not restart the count of the release; the count is
\* not kept below 255.
ReleaseCountKept == IF touched # NoTile THEN relCount
                    ELSE AtMost(relCount + 1, CountMax)

ReleaseCountUncapped == IF touched # NoTile THEN 0 ELSE relCount + 1

ReleaseCount == IF touched # NoTile THEN 0 ELSE AtMost(relCount + 1, CountMax)

CountRelease ==
  /\ pc = "hold" /\ ~BootDue
  /\ relCount' = ReleaseCount
  /\ pc' = "key"
  /\ UNCHANGED <<usbVars, link, startVars, touchVars, pressVars, holdVars,
                 pictureVars, historyVars>>

\* tud_mounted() && tud_hid_ready().
HidReady == usb = "running" /\ ~busy

Send(r) == busy' = TRUE /\ report' = r /\ UNCHANGED <<usb, hostKey>>

\* Seeded bug: the press stays pending after its key-down.
KeyGoesDownAgain ==
  /\ pc = "key" /\ pending /\ HidReady
  /\ Send(active)
  /\ keyDown' = TRUE /\ pressAge' = 0
  /\ pc' = "release"
  /\ UNCHANGED <<link, startVars, touchVars, relCount, active, armed, pending,
                 holdVars, pictureVars, historyVars>>

KeyGoesDown ==
  /\ pc = "key" /\ pending /\ HidReady
  /\ Send(active)
  /\ pending' = FALSE /\ keyDown' = TRUE /\ pressAge' = 0
  /\ pc' = "release"
  /\ UNCHANGED <<link, startVars, touchVars, relCount, active, armed, holdVars,
                 pictureVars, historyVars>>

\* Seeded bug: the key is released with the finger.
KeyUpDueWhenLifted == keyDown /\ pressAge >= PressTime /\ touched = NoTile

KeyUpDue == keyDown /\ pressAge >= PressTime

\* Seeded bug: the key stays down for the machine after its key-up.
KeyGoesUpAgain ==
  /\ pc = "key" /\ ~(pending /\ HidReady) /\ KeyUpDue /\ HidReady
  /\ Send(NoTile)
  /\ pc' = "release"
  /\ UNCHANGED <<link, startVars, touchVars, relCount, pressVars, holdVars,
                 pictureVars, historyVars>>

KeyGoesUp ==
  /\ pc = "key" /\ ~(pending /\ HidReady) /\ KeyUpDue /\ HidReady
  /\ Send(NoTile)
  /\ keyDown' = FALSE
  /\ pc' = "release"
  /\ UNCHANGED <<link, startVars, touchVars, relCount, active, armed, pending,
                 pressAge, holdVars, pictureVars, historyVars>>

\* Seeded bug: the key counts as released when its time is over, sent or not.
KeyWaitForgets ==
  /\ pc = "key" /\ ~(HidReady /\ (pending \/ KeyUpDue))
  /\ keyDown' = (keyDown /\ ~KeyUpDue)
  /\ pc' = "release"
  /\ UNCHANGED <<usbVars, link, startVars, touchVars, relCount, active, armed,
                 pending, pressAge, holdVars, pictureVars, historyVars>>

KeyWait ==
  /\ pc = "key" /\ ~(HidReady /\ (pending \/ KeyUpDue))
  /\ pc' = "release"
  /\ UNCHANGED <<usbVars, link, startVars, touchVars, relCount, pressVars,
                 holdVars, pictureVars, historyVars>>

\* ui_render_button(t, lit).
Paint(t, lit) == screen' = IF lit THEN screen \cup {t} ELSE screen \ {t}

Released == relCount >= ReleaseStable

Rearm ==
  /\ pc = "release" /\ Released /\ ~keyDown /\ ~pending
  /\ Paint(active, active \in mask)
  /\ active' = NoTile /\ candidate' = NoTile /\ candCount' = 0
  /\ armed' = TRUE /\ holding' = FALSE
  /\ pc' = "draw"
  /\ UNCHANGED <<usbVars, link, startVars, touched, relCount, pending, keyDown,
                 pressAge, holdAge, mask, dirty, historyVars>>

\* The finger left before the key-down could be sent.
CancelPress ==
  /\ pc = "release" /\ Released /\ pending
  /\ pending' = FALSE
  /\ Paint(active, active \in mask)
  /\ active' = NoTile
  /\ armed' = TRUE /\ holding' = FALSE
  /\ pc' = "draw"
  /\ UNCHANGED <<usbVars, link, startVars, touchVars, relCount, keyDown,
                 pressAge, holdAge, mask, dirty, historyVars>>

KeepServing ==
  /\ pc = "release" /\ (~Released \/ (keyDown /\ ~pending))
  /\ pc' = "draw"
  /\ UNCHANGED <<usbVars, link, startVars, touchVars, relCount, pressVars,
                 holdVars, pictureVars, historyVars>>

-------------------------------------------------------------------------------
\* render_one_dirty_button and the end of the iteration.

\* Seeded bug: a tile is repainted from telemetry alone.
HighlightTelemetryOnly(t) == t \in mask

Highlight(t) == t \in mask \/ t = active

DrawOne ==
  /\ pc = "draw"
  /\ \E t \in dirty :
       /\ \A u \in dirty : t <= u
       /\ dirty' = dirty \ {t}
       /\ Paint(t, Highlight(t))
  /\ pc' = "sleep"
  /\ UNCHANGED <<usbVars, link, startVars, touchVars, relCount, pressVars,
                 holdVars, mask, historyVars>>

DrawNone ==
  /\ pc = "draw" /\ dirty = {}
  /\ pc' = "sleep"
  /\ UNCHANGED <<usbVars, link, startVars, touchVars, relCount, pressVars,
                 holdVars, pictureVars, historyVars>>

\* Ages that nothing reads any more do not grow.
Sleep(d) ==
  /\ pc = "sleep"
  /\ pc' = "loop"
  /\ startAge' = IF visible THEN startAge ELSE AtMost(startAge + d, StartupMax)
  /\ openAge' = IF ~visible /\ connected THEN AtMost(openAge + d, ConnectedHold)
                ELSE openAge
  /\ pressAge' = IF keyDown THEN AtMost(pressAge + d, PressTime) ELSE 0
  /\ holdAge' = IF holding THEN AtMost(holdAge + d, BootHold) ELSE 0
  /\ UNCHANGED <<usbVars, link, visible, connected, touchVars, relCount, active,
                 armed, pending, keyDown, holding, pictureVars, historyVars>>

-------------------------------------------------------------------------------

Init ==
  /\ pc = "loop"
  /\ usb = "gone" /\ report = NoTile /\ busy = FALSE /\ hostKey = NoTile
  /\ link = FALSE
  /\ visible = FALSE /\ startAge = 0 /\ connected = FALSE /\ openAge = 0
  /\ touched = NoTile /\ candidate = NoTile /\ candCount = 0 /\ relCount = 0
  /\ active = NoTile /\ armed = TRUE /\ pending = FALSE /\ keyDown = FALSE
  /\ pressAge = 0 /\ holding = FALSE /\ holdAge = 0
  /\ mask = {} /\ dirty = {} /\ screen = {}
  /\ still = 0 /\ lifted = TRUE /\ away = 0

Environment == UsbChange \/ UsbGone \/ HostFetch \/ LinkChange \/ Message

StartupStep == StartupWait \/ StartupEnd

Poll(t) == PollCount(t) \/ PollAccept(t) \/ PollServing(t)

PollStep == PollNothing \/ \E t \in Tiles \cup {NoTile} : Poll(t)

ServeStep ==
  \/ Boot \/ CountRelease
  \/ KeyGoesDown \/ KeyGoesUp \/ KeyWait
  \/ Rearm \/ CancelPress \/ KeepServing

EndStep == DrawOne \/ DrawNone \/ \E d \in 0 .. IterMax : Sleep(d)

Next == Environment \/ StartupStep \/ PollStep \/ ServeStep \/ EndStep

Spec == Init /\ [][Next]_vars

(***************************************************************************)
(* Fairness: an iteration runs to its end, tud_task and net_usb_task return*)
(* after finitely many events, and iterations take time.                   *)
(***************************************************************************)
LoopFairness ==
  /\ WF_vars(pc # "loop" /\ (PollStep \/ ServeStep \/ EndStep))
  /\ SF_vars(pc = "loop" /\ (StartupStep \/ PollStep))
  /\ SF_vars(\E d \in 1 .. IterMax : Sleep(d))

\* A host that is there and awake fetches reports.
HostFairness == SF_vars(HostFetch)

LiveSpec == Spec /\ LoopFairness /\ HostFairness

-------------------------------------------------------------------------------
\* Properties.

UsbOK ==
  /\ usb \in {"gone", "suspended", "running"}
  /\ report \in Tiles \cup {NoTile}
  /\ hostKey \in Tiles \cup {NoTile}
  /\ busy \in BOOLEAN /\ link \in BOOLEAN

FlagsOK ==
  /\ visible \in BOOLEAN /\ connected \in BOOLEAN /\ holding \in BOOLEAN
  /\ armed \in BOOLEAN /\ pending \in BOOLEAN /\ keyDown \in BOOLEAN
  /\ lifted \in BOOLEAN

PlacesOK ==
  /\ pc \in {"loop", "touch", "hold", "key", "release", "draw", "sleep", "boot"}
  /\ touched \in Tiles \cup {NoTile}
  /\ candidate \in Tiles \cup {NoTile}
  /\ active \in Tiles \cup {NoTile}

CountsOK ==
  /\ startAge \in 0 .. StartupMax
  /\ openAge \in 0 .. ConnectedHold
  /\ candCount \in 0 .. CountMax
  /\ relCount \in 0 .. CountMax
  /\ pressAge \in 0 .. PressTime
  /\ holdAge \in 0 .. BootHold
  /\ still \in 0 .. PollsMax
  /\ away \in 0 .. ReleaseStable

PicturesOK ==
  mask \subseteq Backed /\ dirty \subseteq Backed /\ screen \subseteq Tiles

\* Every variable has its type.
TypeOK == UsbOK /\ FlagsOK /\ PlacesOK /\ CountsOK /\ PicturesOK

\* Every tile that is not marked dirty shows what it should: white while it is
\* pressed or lit by telemetry, whatever order messages, presses, releases and
\* repaints came in (main.c, every call of ui_render_button).
ScreenConsistent ==
  visible =>
    \A t \in Tiles \ dirty : t \in screen <=> (t \in mask \/ t = active)

\* A key the host sees down is still known to the press machine, or its key-up
\* is on the way: no key can be forgotten (main.c:176-193).
KeyTracked ==
  hostKey # NoTile =>
    (keyDown /\ active = hostKey) \/ (busy /\ report = NoTile)

\* Between two accepted touches the finger was lifted for RELEASE_STABLE_POLLS
\* polls in a row: a finger that stays never types twice.
NoAutoRepeat == [][armed /\ ~armed' => lifted]_vars

\* What the host sees is a keyboard that types each accepted touch once.
Owed == IF pending \/ (busy /\ report # NoTile) THEN active ELSE NoTile
Presses ==
  INSTANCE KeyPresses WITH Tile <- Tiles, owed <- Owed, key <- hostKey
TypesOnce == Presses!Spec

\* While the host stays awake every key is released, even under a finger that
\* never leaves the panel.
KeyIsReleased ==
  <>[](usb = "running") => []<>(hostKey = NoTile \/ pc = "boot")

\* When the finger has gone and the host is awake the keyboard gets ready for
\* the next touch.
GetsReady ==
  <>[](usb = "running" /\ touched = NoTile) => []<>armed

\* The keyboard appears, whatever the network does, and when telemetry and the
\* finger rest it shows what they say.
CatchesUp ==
  <>[][mask' = mask]_vars =>
    \/ <>(pc = "boot")
    \/ <>[](visible /\ screen = mask \cup ({active} \ {NoTile}))

\* README.md:80 (Keyboard): SYSTEM MAP has to be held for six seconds.  A finger
\* that was off the tile for as long as a release takes did not hold it.
BootMeansHeld == [][pc' = "boot" => away < ReleaseStable]_vars

\* main.c:19, TOUCH_STABLE_POLLS: a touch is accepted when that many polls in a
\* row returned the same tile.
AcceptsStableTouch == [][armed /\ ~armed' => still' >= TouchStable]_vars
===============================================================================
