# PicoDeck for EDDiscovery: TLA+ models and proofs

PicoDeck is firmware for two Raspberry Pi Pico devices that share a network
stack: a *Display* that shows ship telemetry and a *Keyboard* whose touch tiles
type HID keys and light up with telemetry. Both are USB network adapters to the
PC, run lwIP, and hold one WebSocket connection to the EDDiscovery program.
Everything runs in one thread: a main loop calls `tud_task` (USB),
`net_usb_task` (lwIP, which calls back into the WebSocket client),
`eddjson_client_task` (timers and periodic requests) and then the device's own
work. No interrupt handler of `src/` shares state with the loop, so there are
no data races; what is hard is the order in which callbacks, timers, bytes and
failures meet between two iterations.

## 1. Inventory

| Part | State | Operations | Talks to |
|---|---|---|---|
| WebSocket client, `common/websocket_client.c` | `s_pcb`, `s_state`, `s_rx`/`s_rx_length`, `s_message`/`s_message_length`, `s_fragment_opcode`, four timestamps, `s_retry_delay_ms` | `connect_now`, `connected_cb`, `receive_cb` (`consume_handshake`, `consume_frames`), `error_cb`, `schedule_retry`, `close_connection`, `send_frame`, `websocket_client_task` | lwIP (calls and callbacks), the EDDJSON client (`s_opened_cb`, `s_message_cb`) |
| EDDJSON client, `common/eddjson_client.c` | `s_last_periodic_request_ms`, the configuration | `on_websocket_opened`, `eddjson_client_task` | WebSocket client, main loop, application callback |
| USB network, `common/net_usb.c` | `s_received_frame` (one slot), `s_initialized` | `tud_network_recv_cb`, `net_usb_task`, `tud_network_init_cb`, `net_usb_ready`, `linkoutput_cb` | TinyUSB, lwIP |
| Display telemetry, `Display/src/edd_state.c` | the record `edd_state_t`: route (target, next system, remaining jumps, time of the last route event), status texts, flags, `generation` | `edd_state_handle_json` and its parsers | application callback, dashboard (reads it) |
| Dashboard, `Display/src/dashboard.c` | `s_stripe_y`, `s_page`, last generation and connection drawn, redraw times | `dashboard_task`, `dashboard_next_page`, `dashboard_set_connection` | telemetry, LCD, main loop |
| Display inputs, `Display/src/main.c` | two debounced levels | `debounced_input_pressed` | dashboard |
| Keyboard loop, `Keyboard/src/main.c` | press machine (`armed`, `candidate_*`, `active_button`, `press_pending`, `key_is_down`, `release_count`, two deadlines), `s_dirty_buttons`, startup flags | one iteration of the loop | touch, HID, telemetry mask, LCD |
| Telemetry mask, `Keyboard/src/edd_buttons.c` | `s_active_mask` | `edd_buttons_handle_json` | application callback, keyboard loop |
| Touch and tiles, `Keyboard/src/touch.c`, `ui.c`, `buttons.c` | `setup_stripe_y`, one tile's pixels | sorting filter, mapping, `ui_button_at`, `ui_render_button`, `ui_render_startup` | keyboard loop, LCD driver |
| LCD drivers, `lcd.c` of each device | `s_lcd_baud_hz`; the panel's registers | `lcd_init`, `lcd_fill`, `lcd_blit_rgb565_be` | the panel, on the bus it shares with the touch controller |
| USB descriptors, `usb_descriptors.c` of each device | constant tables | descriptor callbacks | TinyUSB, the host |
| Fonts, icons, host tools | none that a property is about | | |

Hard behaviours, by part (the file `PROJECT.json` has the full list with lines):

* **WebSocket client.** TCP cuts the stream anywhere, also between the HTTP
  response and the first frame; fragments interleave with control frames; two
  buffers have limits; a write may fail before or after its first byte is
  queued; every failure path has to leave pcb, state, buffers and timers
  consistent; a connection may be lost in any state and must come back, neither
  too fast nor never.
* **EDDJSON client.** All initial requests must be written on every connection,
  in the middle of a receive callback that still has frames to parse.
* **USB network.** One frame in flight, and a renewal protocol that stalls when the
  pool is empty with no frame held; a host that enumerates again at any moment; addresses that have to be in place
  before the host reads them.
* **USB descriptors.** Numbers in one table refer to another one, and lengths are
  sums written out by hand.
* **Display telemetry.** Three sources report the same route in any order.
* **Telemetry parsers.** The two devices read the same messages in two ways: one
  walks tokens, of which there may be too many; the other takes the first match in
  the text, where a key may also occur as a value or nested in one, and looks at the
  beginning of what stands behind it.
* **Screens.** Windows, byte counts, stripes and buffers have to agree for the
  last, shorter stripe too, and every page lists its values twice: where they are
  drawn and where it is decided whether they scroll.
* **Dashboard.** A frame is drawn in stripes over many iterations while data
  changes under it.
* **Keyboard.** A press is a protocol between a noisy finger and a HID endpoint
  that may not be ready, with the telemetry repainting the same tiles.

## 2. Modules

| Module | Models | Uses |
|---|---|---|
| `WebSocketRx` | receive half of `websocket_client.c`: buffer, parser, reassembly, and the byte stream of one connection | |
| `WebSocketClient` | the connection's life cycle, its timers, its writes, every callback and the task | EXTENDS `WebSocketRx` |
| `EddjsonClient` | `eddjson_client.c`, the main loop, the environment; the specification `Spec` and all its properties | EXTENDS `WebSocketClient` |
| `MessageChannel` | abstract: what the application is promised about messages | INSTANCE in `EddjsonClient` |
| `ReconnectingLink` | abstract: what is promised about time | INSTANCE in `EddjsonClient` |
| `MCEddjsonClient` | constants for TLC | EXTENDS `EddjsonClient` |
| `EddjsonClientProofs` | theorems: types, invariants and the two refinements | EXTENDS `EddjsonClient` |
| `Keyboard` | `Keyboard/src/main.c` with the mask of `edd_buttons.c`: one iteration of the loop, the host at the other end of the HID endpoint, and all properties | |
| `KeyPresses` | abstract: what the PC sees of a keyboard | INSTANCE in `Keyboard` |
| `MCKeyboard` | constants for TLC | EXTENDS `Keyboard` |
| `KeyboardProofs` | theorems | EXTENDS `Keyboard` |
| `RouteFeed` | external: the game, EDDiscovery and the wire between it and the Display, as far as the route goes | |
| `EddRoute` | the route in `edd_state.c`: every message handler, restart, and all properties | EXTENDS `RouteFeed` |
| `RouteView` | abstract: what a route display promises | INSTANCE in `EddRoute` |
| `MCEddRoute` | constants for TLC | EXTENDS `EddRoute` |
| `EddRouteProofs` | theorems: types, clears, generation; `RouteView` and old messages | EXTENDS `EddRoute` |
| `Dashboard` | `dashboard.c`: stripes, redraw requests, pages, the need to scroll | |
| `Display` | the Display's `main.c`: first frame, debounced inputs, the loop around the dashboard, and all properties | EXTENDS `Dashboard` |
| `MCDisplay` | constants for TLC | EXTENDS `Display` |
| `DisplayProofs` | theorems | EXTENDS `Display` |
| `UsbDescriptors` | tables and callbacks of both `usb_descriptors.c`, and what a host requires of them | |
| `NetUsb` | `net_usb.c`, the start of either `main`, TinyUSB's receive and send buffers, enumeration by the host | EXTENDS `UsbDescriptors` |
| `NetUsbProofs` | theorems | EXTENDS `NetUsb` |
| `LcdDriver` | what both `lcd.c` write on the bus, and the panel's registers | |
| `TouchFilter` | `touch.c` and `ui_button_at` | EXTENDS `LcdDriver` |
| `PageLayout` | what `dashboard.c` and `ui.c` draw where; scrolling | EXTENDS `LcdDriver` |
| `Panel` | the screens: set-up, frames of stripes, tiles, polls of the touch controller | EXTENDS `PageLayout`, `TouchFilter` |
| `LcdDriverProofs` | theorems: a set-up, a window and its pixels | EXTENDS `LcdDriver` |
| `PanelProofs` | theorems | EXTENDS `Panel`, `LcdDriverProofs` |
| `JsonTokens` | the token walk of `edd_state.c` over the tokens of `jsmn.h`, and the text search of `edd_buttons.c` | |
| `Telemetry` | every kind of message at both devices, and what EDDiscovery is taken to send | EXTENDS `JsonTokens` |
| `TelemetryProofs` | theorems | EXTENDS `Telemetry` |
| `MCParts` | constants for TLC; one run for `NetUsb`, `Panel` and `Telemetry` | EXTENDS all three |

### How the state corresponds to the code

* `pc` names the place of the one thread. `"loop"` is the main loop between two
  handlers, the only place where the environment can be seen. A handler that
  loops or calls out is split there: `"handshake"` is `receive_cb` about to call
  `consume_handshake`; `"opened"` is `on_websocket_opened` between two requests;
  `"frames"` is one round of the loop of `consume_frames`; `"abort"` is
  `receive_cb` after a parser returned false, before `schedule_retry`;
  `"giveup"` is a task before `schedule_retry`; `"periodic"` is the second half
  of `eddjson_client_task`; `"sleep"` the end of the iteration. Every other
  handler is one action.
* Timestamps are ages. `rxAge` is `now - s_last_rx_ms` and so on. The code
  compares an age with a threshold and nothing else, so it stops growing one
  iteration past its threshold (`CapOf`); the wrap-around of the 64-bit
  millisecond clock is not modelled. Time passes only in `Sleep`, which stands
  for the length of the whole iteration, `0 .. IterMax`.
* The stream of a connection is a sequence of items (the HTTP response, then
  frames), each with the number of its first byte. `arrived` bytes have reached
  `receive_cb`, `rxLen` of them are still in `s_rx`, so the buffer begins at
  byte `Front = arrived - rxLen`. The parser reads the item that starts there.
  The bytes of a payload are a name with a length; headers are 2, 4 or 10 bytes,
  plus 4 for a mask, as in the code. Had the parser consumed a wrong number of
  bytes, `Front` would lie inside an item: this is what `FramesAligned` states.
* An item also carries what the *server* thinks is true after it: how many text
  messages are complete (`count`) and which is unfinished (`pending`). This is
  the reference against which deliveries are compared. It is defined by RFC 6455
  reassembly (`Unfinished`, `Finished`), not by the parser.
* `outbound` is `"torn"` after a write that failed part of the way.
* `gap` is a history variable: time since the last `connect_now`.

Modelled from how the code uses them and marked external: the server, and the
end of the stream when lwIP drops the pcb. Left out: the bytes of the upgrade
request and of the key, the accept hash (the code looks for `101` only), the
state names, the message counter, unmasking (a payload keeps its name), and
`websocket_client_send_text` from other callers, as there are none.
An unaligned front is not given a meaning; `FramesAligned` shows, and a theorem
proves, that none is needed.

State of `Keyboard`:

* `pc` is again the place in the iteration: `"loop"`, `"touch"`, `"hold"`,
  `"key"`, `"release"`, `"draw"`, `"sleep"` in the order of `main`; `"boot"` is
  the end, as `reset_usb_boot` does not return. The environment moves at
  `"loop"` only, which is where `tud_task` and `net_usb_task` are called, so a
  report, a mount change or a message is never seen in the middle of the press
  code. An iteration with the start-up screen goes from `"loop"` to `"sleep"`.
* Deadlines (`key_release_at`, `bootsel_hold_at`, the start-up times) are ages
  again, stopped at their threshold. `CountMax` stands for 255.
* `report`, `busy` are the endpoint, `hostKey` the key the PC sees down.
* The tiles cover the panel, so a poll that touches has a tile; `NoTile` is the
  -1 of the code. A poll returns any tile or none: what the median filter lets
  through is not assumed.
* `screen` is the set of tiles that are drawn white, `mask` is `s_active_mask`,
  `dirty` is `s_dirty_buttons`. A message sets the mask to any set of tiles that
  telemetry can light (`Backed`).
* `still`, `lifted` and `away` are history variables about the finger; no action
  reads them.
* Left out: the variables that decide when the start-up screen is redrawn and the
  key codes (a tile is its key). What messages light which tile is in `Telemetry`,
  and where the tiles and the start-up screen are drawn in `Panel`.

State of `EddRoute`:

* `target`, `next`, `remaining`, `eventTime` are the route fields of
  `edd_state_t`; `generation` is kept modulo 2, as the dashboard only asks
  whether it has changed. `edd_state_handle_json` runs to its end inside
  `receive_cb`, so each message is one action.
* The other side is external and known only from what the code and the Display's
  README expect of it. `history` is the sequence of the game's route events
  (plot, jump, clear) and an event's place in it is its time: all times are
  different and present. `filed` of them are in EDDiscovery's journal history. A
  message names the events it is about and says what is true of them
  (`CountAt`, `NextAt`, `RouteAt`): three kinds are pushed or requested, and each
  may be missing.
* `Late` names the events that may be filed only after a live push or a status reply
  about them. The status reply to a new connection is about the present, as a live
  push is; the journal reply of the same connection has only what is filed.
* `Stray` is a system that is targeted off the route. Such an `FSDTarget` has no
  `RemainingJumpsInRoute`: the count stays, and the time of the route moves on.
* `Dated` says that the count shown came with a time: no plot lies between
  `route_event_time` and the event shown. A status reply sets a count and no time, so
  what it tells of a new plot, or anything after a restart, is not dated.
* `Listed` is the length up to which a route's summary lists every system; in a
  longer one `..` stands for the middle.
* `seen` is a history variable: the event whose count is shown. No action reads
  it.
* `NavRouteClear` stands for `FSDTargetClear` too, which the code treats alike.
  Left out: rows without the expected fields, a count that is `null` (0 by `atoi`;
  `Telemetry` has the conversion), and the parsing of the summary's text. The fields
  of `edd_state_t` that are copies of single values are in `Telemetry`.

State of `Dashboard` and `Display`:

* `pc` is the place in the iteration: `"boot"` before the loop, `"loop"` up to
  `eddjson_client_task` (messages come here), `"task"` after inputs and
  connection, `"sleep"` after `dashboard_task`.
* `screen` is what each stripe of the panel shows, and a stripe shows the
  *picture* it was rendered from: page, telemetry, connection and scroll phase.
  Texts and layout are in `PageLayout`; that no stripe depends on anything else
  is what `render_stripe` and the functions it calls say. The set-up page does
  not depend on page and telemetry, so there the picture distinguishes more than
  the panel.
* `news` says that `generation` and `s_generation` differ; that 2^32 messages
  come between two calls is not considered. `phase` stands for `s_render_ms`.
* `raw` and `stable` are TRUE when the level is low. A poll reads any level.
  Times are ages, stopped at their threshold.
* `calm` (calls of `dashboard_task` since the last change) and `rested` are
  history variables.

State of `NetUsb`:

* `boot` is the place in `main` up to the loop; `mac` is
  `tud_network_mac_address`, `netif` is `s_netif.hwaddr`, an address being the id
  it was made from and its last bit. `held` is `s_received_frame`, `ready` is
  `s_initialized`.
* External, from how the code uses them: TinyUSB has one receive buffer, a
  transfer of up to two frames (`ntb`: those not accepted yet), offers a frame
  when a transfer is complete and when `tud_network_recv_renew` is called, and
  receives again when all of it was accepted; lwIP keeps any number of buffers of
  the pool (fragments to reassemble) and frees them when its timers run or with a
  later frame. It may keep all of them: `lwipopts.h:32` gives a pool of 6, and lwIP's
  own limit, `IP_REASS_MAX_PBUFS`, stays at its 10. Then `tud_network_recv_cb` refuses
  the next frame with none held, and nothing renews reception until a bus reset. The
  host reads any descriptor it can know of, in any order, and gives up on one it
  cannot use. A bus reset comes at any time.
* `sent` and `delivered` are history variables, cleared when the network is
  opened; `exhausted` says that TinyUSB's last offer found the slot free and no buffer. The empty frame that ends a transfer is not offered. The bytes of a
  frame, DHCP and everything above Ethernet are left out.

State of `Panel`:

* `step` is the place in the program of either board; `panel` is the controller
  at the other end of the bus (external): window, pixel format, scan direction,
  sleep, bytes since the last write command, and whether it was ever written too
  fast. `target` is the rectangle the code meant to draw and the size of the
  buffer it drew from.
* A text is its number of characters. `StartFrame` chooses connection, page and
  the length of any one field; when frames are redrawn is in `Display` and
  `Keyboard`.
* A poll makes two readings of five samples each. A steady finger gives samples
  within `Noise` of its place of which at most one is anything at all. It may
  move between the readings, and the pin may say at either end that it is up.
* Left out: colours, the shapes of characters and icons, pins and delays.

State of `Telemetry`:

* A message is the sequence of its members, `ObjectText` its text as a sequence
  of lexemes; positions count lexemes instead of characters. Both devices get
  every message.
* `fields`, `flags`, `pips`, `jumps` are those of `edd_state_t`; `lit` is
  `s_active_mask`. `before` and `message` are history variables.
* All five branches of `edd_state_handle_json` are there. `genericui` clears the
  route or takes next system and count from a target; of a journal answer, which rows
  apply is in `EddRoute`, and here it gives any of `RouteRows` or nothing.
* `Tokens` is what `jsmn_parse` makes of a text: the containers, strings and
  primitives in order with their ends, and an error if there are more than
  `TokenCount`. Left out: its errors `INVAL` and `PART`, for texts that are no JSON
  or are cut off (the client hands on whole messages only); escapes, white space, the
  cut of a text to the size of its field.
* Each parser has its own idea of what is true. `bool_key` compares the whole
  token with `true` and `1`; `json_bool` looks at its beginning (`LooksTrue`), so that
  10 lights a tile and would not set a flag of the Display. No key is a tile's and a
  flag's at once.
* What else EDDiscovery is taken to send is `MessagesAssumption`, which TLC
  evaluates for the messages of its run. Every member has a key and one value
  (`Balanced`), and the keys of a message differ. The rest is what the code
  relies on, and no more than it relies on (`WellFormed`):
  * `responsetype` is a string, and every message has one;
  * a key of a flag (`BoolKeys`) has a primitive: `bool_key` looks at the text
    of the token and not at its type;
  * `Pips` is an array of three or more primitives;
  * an object the Display reads keys of (`ObjectKeys`) has none inside it and no
    key twice.
* Any key may also be nested in a value, or be a value. `find_value` takes the first
  key in the text, at any depth: one that is nested in front of the member hides it
  (`Shadowed`), and then the Keyboard reads the wrong value. `MembersFound` is about
  tiles none of whose keys is shadowed (`Readable`), and about every flag and pip of the
  Display, as the token walk does not look into values.
* `Texts` is the set of all strings and numbers: `STRING` for TLC, and any set at
  all for the proofs.

### Properties

| Property | Says | Kind |
|---|---|---|
| `FramesAligned` | the buffer always starts at the first byte of an item | invariant |
| `Drained` | when `receive_cb` has returned, no complete item is left in the buffer | invariant |
| `BuffersHold` | neither buffer is overrun | invariant |
| `NoNeedlessOverflow` | `receive_cb` drops a connection for lack of room only if the item at the front with one more segment could not fit | invariant |
| `OutboundWhole` | after a torn frame nothing happens before the connection is aborted | invariant |
| `OpenMeansRequested` | an open connection has written all initial requests | invariant |
| `PcbMatchesState` | `s_pcb` and `s_state` agree at every step of every handler | invariant |
| `KeepsAsking` | no ping and no periodic request is overdue when an iteration ends | invariant |
| `DeliversMessages` | the detailed specification implements `MessageChannel` | refinement |
| `KeepsTime` | the detailed specification implements `ReconnectingLink` | refinement |
| `NeverGivesUp`, `AttemptsResolve`, `ComesUp` | see below | liveness |
| `ScreenConsistent` | a tile not marked dirty shows what mask and press say | invariant |
| `KeyTracked` | a key the PC sees down is known to the press machine, or its key-up is on the way | invariant |
| `NoAutoRepeat` | between two accepted touches the finger was lifted for `RELEASE_STABLE_POLLS` polls in a row | action |
| `TypesOnce` | `Keyboard` implements `KeyPresses`: each accepted touch is typed at most once, and released before the next | refinement |
| `KeyIsReleased`, `GetsReady`, `CatchesUp` | no key stays down while the PC is awake; the keyboard gets ready again; the screen appears and becomes right | liveness |
| `BootMeansHeld`, `AcceptsStableTouch` | what documentation and constants say, violated | action |
| `ShowsHistory` | `EddRoute` implements `RouteView`: each count shown is the game's at some event, and a dated one is followed by counts of later events only | refinement |
| `ClearStays` | a cleared route comes back only with news of a later event | action |
| `ChangesAreShown` | no change of the route goes without a change of `generation` | action |
| `Recovers` | once the game rests and the link stays, target, count and next system become right and stay so, if no target off the route is announced | liveness |
| `NoObsoleteCount`, `NoObsoleteStatus`, `NextIsOnRoute` | what documentation and a comment say, violated | action |
| `WholeFrame` | a finished frame is one picture | invariant |
| `RightAfterAPause` | `Stripes` calls after the last change every stripe shows what is true | invariant |
| `FirstFrame` | the loop starts with a complete frame | invariant |
| `OnePagePerPress` | an input that turned the page rests before it turns the next | action |
| `KeepsScrolling` | text that does not fit keeps moving while nothing changes | liveness |
| `OnlyThePoolStops` | TinyUSB waits with a frame while none is held, where nothing asks for it, only if lwIP had kept the whole pool when it offered that frame | invariant |
| `FramesInOrder` | the frames the host sent are with lwIP, held or with TinyUSB, in their order, and none of an earlier enumeration is among them | invariant |
| `HostAccepts` | the host can use every descriptor it reads; when the network is ready both ends have addresses of this board that differ | invariant |
| `FramesArrive` | every frame reaches lwIP unless the bus is reset or an offer met an exhausted pool | liveness |
| `DrawsWhole` | whatever was drawn is on the glass, whole and nowhere else, and a tile is drawn where its touch is looked for | invariant |
| `FrameShowsPage` | a finished frame covers the screen; no text covers another or is cut; a text too long is shown to its end, and the need to scroll is seen exactly then | invariant |
| `OneSpikeIsHarmless` | a poll returns a tile under or between the places of the finger, and one if it rests, although one sample of five may be anything | invariant |
| `MembersFound` | after an indicator the tiles lit (where no nested key shadows theirs) and the Display's flags and pips are those of the message's own members; a message that is too long changes no flag | invariant |
| `FieldsFollow` | a status changes a text to the value of its own object and key, no other message does; the legal state follows the indicators; the next system follows messages about the route, or a status that names it: `null` erases none | invariant |

### Runs

| Run | Question | Bounds, and why they are enough |
|---|---|---|
| `rx` | does the application get the server's messages, whatever TCP, the link and a strange frame do? | 8-byte buffer, 3-byte segments, 3-byte response, up to 3 frames: every frame can be cut at every byte of header and mask, several frames share a segment and the response shares one with a frame; 4 items make a message of three fragments, or of two with a ping inside. Frames of 7, 9, 10 and 11 bytes for the buffer of 8, fragments of 5 + 5 for the message of 8, control payloads at and above the maximum, every refused opcode. Timers are off. |
| `timers` | life cycle and timeouts; does it keep trying whatever the server does, and get through when nothing is wrong? | thresholds 3..7 with iterations up to 2, so that timers expire together, in both orders and late by an iteration; delays 2, 4, 6 reach the maximum; two initial requests; every write may fail; only the fairness of the loop, a fair server is a premise of `ComesUp` |
| `backs_off` | is there always backoff? | violation, see Findings |
| `keyboard` | is each accepted touch typed once, and only after a lift, does the screen stay right, does every key come up and the screen catch up? | 2 tiles of which telemetry lights one, 2 polls for a touch and for a release, the other thresholds 1, a host that comes, sleeps and leaves at any iteration: the release can come before, with and after the key-up. The bounds are small because the liveness properties are checked in the same run; the safety properties are proved for all values. |
| `boot_hold`, `stable_touch` | are hold and debounce what they are said to be? | violations, see Findings |
| `route` | is every count shown the game's, in order, and does the route recover? | 3 events of the game on a route of two systems and one of one, 2 messages on the wire, replies of 2 rows, so that the plot may be cut off; jumps and clears may be filed after the live pushes and the status replies about them, also across a restart; plots not (see Findings) |
| `dashboard` | is every finished frame one picture, is the screen right after a pause, does one press turn one page? | 2 stripes, pages, kinds of telemetry and states of the connection, 2 inputs, one page with a wide text; thresholds 1. A change can come before and after each stripe. What holds for more stripes and longer times is proved. |
| `parts` | are frames handed over in order and to the end, are the descriptors and the order of `main` right, is what is drawn whole, do the parsers find what a message says? | `focus` chooses one of three modules that share no state. USB: 4 frames in transfers of one or two, a pool of 2 that lwIP may keep in part or as a whole, resets and suspends at any time, both boards. Panel: the real geometry, all pages, fields of 0, 4, 12, 19 and 30 characters (empty, fitting, just too wide, far too wide), five places of the finger at corners, edges of tiles and off the range, noise of 8. Telemetry: one of two messages to begin with (every flag set; a status with a next system), then any indicator, status, `genericui`, journal push or unknown response with up to two of 23 members before or after `responsetype`: keys of tiles nested in objects, keys that are values, `null`, a number that begins with 1, arrays, and a member with more than 36 tokens, which makes any of these responses too long. |
| `stale_route`, `stale_status`, `long_route` | do old replies never bring back a count, and is the next system right on long routes? | violations, see Findings |

`MaxItems` bounds the items of a connection (the server may stop writing after
it, which is why the liveness properties do not depend on more items); a lost
connection starts a new stream, so behaviours are not bounded in length.

### Fairness

`LoopFairness` is what the code's scheduling gives: a handler that was entered
runs to its end (WF on the steps with `pc # "loop"`); `tud_task` and
`net_usb_task` return after finitely many callbacks, so the task after them is
reached (SF, because a callback takes `pc` away from `"loop"` in between); and
every iteration sleeps, so time passes (SF on a positive sleep). Nothing is
assumed of the server or the network there: `NeverGivesUp` (with a network that
stays ready there is always another attempt) and `AttemptsResolve` (an attempt
ends, even if the server sends nothing or drips its response) hold for any
server. `AttemptsResolve` bears on the response too: every byte of it renews
`s_last_rx_ms`, and it is the finite response, not the timer, that ends this.

`ServerFairness` adds a server that completes connections, answers and whose
bytes arrive. `ComesUp` further supposes that from some time on nothing
disturbs the link (`Undisturbed`): the network stays ready, the server accepts,
no write and no `tcp_connect` fails, lwIP reports no error, and no timeout
expires while the server still owes something (`ServerLate`). An open connection
owes something only if a ping was sent after the last byte that came: a timeout
in `OPEN` before that is the client's own doing and not excluded. The server may
answer pings for ever (`ReceivePong`, which is not among the items that are
counted), so there are behaviours that satisfy the premise and stay open. Timeouts
that expire although the server has done its part are not excluded either. A client
that fails to see the end of the response would time out, reconnect and time out
again, and one that sends no ping on a quiet line would drop it every time; in both
cases `ComesUp` would be violated (the two mutants of it). It holds: the connection
opens and stays open.

For `Keyboard`, `LoopFairness` is the same three conditions. `HostFairness` adds
that a host which is again and again awake fetches a pending report (SF, because
it may sleep in between). `KeyIsReleased` and `GetsReady` suppose that the host
is awake from some time on: otherwise the report may wait for ever, and the key
stays down as far as the machine knows. The keyboard runs do not check
deadlock, as `Boot` ends the program.

For `Display`, the loop goes round (SF on the poll, since messages may come any
number of times before it) and iterations take time.

For `NetUsb`, `LiveSpec` says that `main` reaches its loop and that every iteration
calls `net_usb_task` (WF on `Boot` and `Task`; `tud_task` returns once the events
that have arrived are handled). Nothing is assumed of the host or of lwIP, which need not free what it keeps.

For `EddRoute`, `LiveSpec` says that a message on the wire is handled, that
events get filed (WF), and that the periodic request is answered (SF: pushes may
fill the bounded wire in between). `Recovers` supposes that the link stays up,
that the game has stopped, that the plot is among the rows of a reply
(`InReply`; the code asks for 50 rows and says no more), and that no `FSDTarget`
without a count was sent (`Counted`): one that is later than the plot moves
`route_event_time` on, and the rows of a plot that was missed then count as older. It
does not suppose that any live push arrives.

### Findings

* `backs_off`: `src/README.md:46-47` lists "reconnect backoff" for
  `websocket_client.c`. `schedule_retry` lengthens the delay after each failure,
  but `error_cb` (`websocket_client.c:228-238`) schedules the retry itself and
  does not. A refused connection, which is what happens while EDDiscovery is
  not running, takes this path, so the delay stays where it was. The run shows a
  first attempt that fails in `error_cb` and leaves `retryDelay` as it is.
* `boot_hold`: `src/PicoDeck-ED-Keyboard/README.md:80-81` says that SYSTEM MAP
  has to be held for six seconds. The code (`main.c:179`) compares the time
  since the touch was accepted and asks whether *this* poll touches the tile. A
  finger that slides to another tile and comes back after the time triggers it
  (sliding does not end the press, because any touch restarts the count of the
  release). The run shows a reset after the finger was away from the tile for
  as long as a release takes.
* `stable_touch`: `main.c:19` names three polls for a stable touch. The path that
  cancels a press (`main.c:206-213`) leaves `candidate_button` and
  `candidate_count` as they are, which the other path to `armed` does not. A
  touch of the same tile in the next poll is accepted at once.
* `stale_route`: `src/PicoDeck-ED-Display/README.md:62-63` says that timestamp and
  monotonic-progress rules prevent an old route snapshot from restoring an
  obsolete jump count. `apply_journal_route` (`edd_state.c:239`) accepts an older
  route whenever its count is not larger than the one shown, whatever route that
  one belongs to. After a replot to a longer route, announced by a live
  `FSDTarget`, a reply that does not list the replot yet brings back count and
  target of the old route; the replies that do list it have the time of the live
  event and a larger count, and are rejected, so the old route stays until the
  next live event. This needs the journal to lag behind the live push for a
  plot; with plots filed in time, `route` shows that the rules do what is said of
  them for a count that is dated. (With `NavRoute` in `Late`, `Recovers` is violated
  for the same reason.)
* `stale_status`: the same promise for a count that only a status reply told. After a
  restart `parse_status` (`edd_state.c:143`) sets the count and leaves
  `route_event_time` empty, so `apply_journal_route` (`edd_state.c:230-232`) takes any
  row for newer. The run shows a plot that is filed and a jump that is not yet: the
  status reply says 1, and the journal reply of the same connection brings back 2.
  That lasts until the jump is filed and the next periodic reply comes (`Recovers`).
* `long_route`: `edd_state.c:318-319` says that each jump advances one item in the
  saved route list. In a summary whose middle is abbreviated the loop also steps
  over the one `..` that stands for several systems, which the code after it
  (`edd_state.c:335-336`) expects to find, and takes the destination for the next
  system.

The other parts gave none. For the dashboard: nothing in the documentation promises a complete screen
while telemetry changes all the time. Every change restarts the frame at the
first stripe, so changes in every iteration would keep the lower stripes from
being drawn; `RightAfterAPause` says how long a pause has to be.

## 3. Proofs

`EddjsonClientProofs` proves, for every value of the constants that satisfies
the assumptions `RxAssumption`, `WsAssumption` and `EddAssumption` (any buffer
size, a response of at least two bytes, any segment size, any set of frames, any thresholds, any number of
items and of initial requests):

| Theorem | Property |
|---|---|
| `TypeCorrect` | `TypeOK` |
| `AlwaysFramesAligned` | `FramesAligned` |
| `BuffersAlwaysHold` | `BuffersHold` |
| `PcbAlwaysMatchesState` | `PcbMatchesState` |
| `OutboundAlwaysWhole` | `OutboundWhole` |
| `OpenAlwaysMeansRequested` | `OpenMeansRequested` |
| `AlwaysDrained` | `Drained` |
| `NeverOverflowsNeedlessly` | `NoNeedlessOverflow` |
| `AlwaysKeepsAsking` | `KeepsAsking` |

None of these is inductive alone. The inductive invariant has two layers.

* `ControlInv` does not mention bytes: flags, timers in their ranges, and
  `PlaceInv`, which ties `pc`, `s_state`, `s_pcb`, `outbound` and the requests.
  `PcbMatchesState` needs `PcMatchesState` (which states a handler can be in the
  middle of): without it `consume_handshake` might open a connection that
  has just been lost.
* `DataInv` is the layout of the stream (`StreamOK`: items lie one behind the
  other) and the place of the buffer in it (`BufferOK`). The step that matters
  is `ConsumeAligned`: the item at the front is in the buffer in full, so
  removing its bytes moves the front to the start of the next item or to the end
  of the stream. It needs the layout; and the layout is kept by the server's
  writes (`WriteExtends`), which is where most of the proof is.

`Drained` follows from `DrainedInv` (between two handlers the item at the front of
a buffer with bytes in it is not complete), which needs `WriteKeepsFront`: what the server
writes later does not change that item. `NoNeedlessOverflow` is an invariant of
its own on top of `DataInv`; for `KeepsAsking` (`AskingInv`) it matters where in
the iteration each timer is looked at.

The module also proves that the detailed specification implements the two
abstract ones:

| Theorem | Property |
|---|---|
| `AlwaysKeepsTime` | `KeepsTime`, for timeouts other than 0 (with 0 the code checks none) |
| `AlwaysDeliversMessages` | `DeliversMessages` |

* `TimeInv` is `ControlInv` with `WaitInv` (a client without a pcb has waited
  since its last attempt, or still has to: gap and retry timer add up to at least
  `OfflineDelay`) and `HeardInv` (once the task has looked at the clock no
  timeout is over).
* `StoryInv` is `DataInv` with `ServerInv` and `ReaderInv`. `ServerInv` says of
  every item that its count and its unfinished message follow from the item
  before it; `ReaderInv`, that what was delivered and what `s_message` holds are
  those of the item before the front of the buffer. The step that matters is
  `TakeAgrees`: taking a frame does to the client's half of a message what
  RFC 6455 reassembly does to the server's.

`KeyboardProofs` proves, for every number of tiles, every set of backed tiles
and all thresholds that satisfy `KeyboardAssumption`:

| Theorem | Property |
|---|---|
| `TypeCorrect` | `TypeOK` |
| `ScreenAlwaysConsistent` | `ScreenConsistent` |
| `KeyAlwaysTracked` | `KeyTracked` |
| `NeverAutoRepeats` | `NoAutoRepeat` |
| `AlwaysTypesOnce` | `TypesOnce` (every step is one of `KeyPresses` or a stutter) |

The invariant is `Inv`: counters in range; `ServeInv`, the flags of the press
machine against each other and against `pc`; `KeyInv`, which says where a
key-down can be between machine, endpoint and host (without it a second key-down
could follow the first before its key-up is fetched); the screen; and `LiftInv`,
which relates `release_count` to the history of the polls. `LiftInv` leaves out
`"hold"`, where the poll of this iteration is not counted yet.

`DisplayProofs` proves, for every number of stripes, pages and inputs, all
telemetry and all times:

| Theorem | Property |
|---|---|
| `TypeCorrect` | `TypeOK` |
| `AlwaysWholeFrame` | `WholeFrame` |
| `AlwaysRightAfterAPause` | `RightAfterAPause` |
| `AlwaysFirstFrame` | `FirstFrame` |
| `AlwaysOnePagePerPress` | `OnePagePerPress` |

`DrawnInv` is the core: what has been drawn of the current frame is the current
picture, unless a change waits to be seen. It needs `LastInv` (after a call the
dashboard has seen the connection, so a new one is a change), and `CalmInv` ties
the count of calls to the stripe. `FirstFrame` needs the assumption that the
calls before the loop are at least as many as the stripes; with 14 and 320/24 it
holds.

`EddRouteProofs` proves, for every set of systems and routes, whatever is filed
late, and any number of rows, events and messages on the wire:

| Theorem | Property |
|---|---|
| `TypeCorrect` | `TypeOK` |
| `ChangesAlwaysShown` | `ChangesAreShown` |
| `ClearAlwaysStays` | `ClearStays` |

`ClearStays` is about two messages and what happened between them, and its
invariant, `RouteInv`, says how. `SeenInv`: the count shown is that of `seen`.
`WireInv`: a message that is not from the journal is not older than what is shown
or than any message before it. `ClearedInv`: while no route is shown, none was
plotted between the time of the route and `seen`. A live message that brings a
route back is then later than `seen` by `WireInv` and `SeenInv`; a journal
message is, because its plot is later than the time of the route and so, by
`ClearedInv`, later than `seen`.

Two more theorems of `EddRouteProofs` are for plots that are filed before the live
pushes and status replies about them (`"NavRoute" \notin Late`, the assumption of the
run `route`); jumps and clears may be filed as late as they like, also across restarts:

| Theorem | Property |
|---|---|
| `AlwaysShowsHistory` | `ShowsHistory`: every step is one of `RouteView` or a stutter |
| `NeverObsolete` | `NoObsoleteCount`: a dated count is not replaced by that of an earlier event |

Without the assumption neither holds; `stale_route` shows it for `NoObsoleteCount`. For
a count that is not dated neither would hold even with it; `stale_status` shows that.
Only a journal message can be older than what is shown, and `AgeInv` says what is
then known. `FiledInv`: what is shown, and what any message is about, contains no plot
that is not filed. `JournalInv`: so a journal message has every plot that is shown or
comes before it on the wire, and without a plot in between the count can only have
fallen or been cleared (`CountFalls`, `NoRouteSince`). A dated count has its plot not
after the time of the route, with which `apply_journal_route` compares, so an old
message that is applied in its place has the count that is shown (`OldRoute`).

`NetUsbProofs` proves, for every size of the pool, whatever lwIP keeps of it, and any
number of frames:

| Theorem | Property |
|---|---|
| `TypeCorrect` | `NetTypeOK` |
| `StoppedOnlyByThePool` | `OnlyThePoolStops` |
| `AlwaysFramesInOrder` | `FramesInOrder` |
| `AddressesAlwaysDiffer` | `AddressesDiffer`, a part of `HostAccepts` |
| `HostAlwaysAccepts` | `HostAccepts` |

`FrameInv` is both of these and that TinyUSB has no frame while the network is closed.
An offer to a free slot is refused only for want of a buffer (`RefusedIsExhausted`), and
after every frame handed to lwIP the next one is asked for (`TaskFrameKeeps`). That
reception does stop when lwIP keeps the whole pool is not excluded by an assumption:
it is what `exhausted` says, and hazard `net_usb.c:131` in `PROJECT.json`. `AddressInv` follows the address from `main`
to the host. `NotRefused` needs only types, since either board
answers every request a host can make with something it can use (`KnownUsable`):
the lengths of the configuration and of the Microsoft OS 2.0 set are the sums of
their parts (`SumsAgree`: partial sums are determined by their equation), no
interface or endpoint is there twice, and each index of a string has a text.

`LcdDriverProofs` is about one call of `lcd.c`, for every rectangle on the screen,
every number of pixels, and every panel it may find:

| Theorem | What it says |
|---|---|
| `DrawingAfter` | a window and its pixels leave exactly this window and exactly as many pixels, and nothing else changed |
| `SetUpAfter` | the commands of `lcd_init` make a panel that was reset ready |

The panel takes one transfer after the other. `AfterSeen` turns that recursion
into a sequence of panels (`Seen`), one for each transfer, and `AfterBoth` splits
it where two sequences meet; so each command is taken by itself (`SideAfter`,
`MemoryWrite`, `SetUpQuiet`). What a command leaves alone is `Keeps`, and `SetUpTo`
says how far the set-up has come: the speed of the bus matters, because before the
format and the direction are set the panel takes slow transfers only.

`PanelProofs` proves the invariants of the screens, for all lengths of texts, all
places of the finger on the glass and every noise up to 25, which
`PanelAssumption` takes from the code (two samples of a steady finger differ by no
more than `TOUCH_PAIR_MAX_DELTA`, and a sample has 12 bits):

| Theorem | Property |
|---|---|
| `AlwaysDrawsWhole` | `DrawsWhole` |
| `FramesAlwaysShowPage` | `FrameShowsPage` |
| `SpikeNeverMisleads` | `OneSpikeIsHarmless` |
| `SpikeIsFiltered` | four samples in a range keep `touch_read_filtered` in it, whatever the fifth is |
| `ValueScrolls` | the part of `FrameShowsPage` about one value, for every width, scale and length |
| `StableTouchHasTile`, `TileFoundWhereDrawn`, `ScrollStaysInText` | arithmetic of touches, tiles and scrolling |

* `DrawsWhole` speaks of the last call only and is not inductive. `BoardInv` adds
  what the next call needs: `GlassInv`, that once set up the panel stays `Ready`
  and the bus fast; and `StripesInv`, that stripe *i* of a frame begins *i - 1*
  stripe heights down, which is what makes the next one fit (`NextStripe`) and
  the last one shorter.
* `FrameShowsPage` follows from `StripesInv` (`StripesFill`, and `RowsCovered`: each
  row of an area lies in a stripe), from the places of the areas on each page, and
  from `ValueScrolls`. Places on a page are numbers, so the prover compares each
  two of them, as TLC does; texts are of any length. `ValueScrolls` goes from one
  frame of 35 ms to the next: within a phase of the cycle the shift changes by at
  most one (`ScrollMovesOn`), and so it does where two phases meet.
* `OneSpikeIsHarmless` is inductive by itself. `SpikeIsFiltered` holds because,
  sorted, the odd one of five is at an end or between two of the others, and the
  middle three are averaged; and mapping to a tile is monotone (`TileMonotone`), so what lies
  between two samples lies between their tiles.

`TelemetryProofs` proves, for every set of texts, members, responses and rows that
satisfies `MessagesAssumption`, every `LooksTrue`, messages of any number of members,
values nested to any depth with any keys in them, and any number of tokens:

| Theorem | Property |
|---|---|
| `TelemetryTypes` | `TelemetryTypeOK`, with `message` one of those assumed |
| `BothParsersFind` | `MembersFound` |
| `FieldsFollowTheStatus` | `FieldsFollow` |

Each message establishes both properties from the state before it, whatever that state
is, so the inductive invariant only has to add types (`TelemetryTypeOK`): they say that
`legal_state` and the like are texts, and that there are three pips. All the work is in
a single message, `ReceivedAgrees` and `ReceivedFollows`: what two parsers make of a
text that was put together from members.

1. *Where things are in the text.* `Joined` is a recursive function, which here has to
   be shown to have values at all (`Stepwise`: a function whose values follow from the
   one before exists; `JoinedSteps`). Then `ObjectIsLaid`: in the text of a message member
   *k* begins at a place of its own, its key there, a colon behind it, its value behind
   the colon, and members follow each other with a comma between.
2. *Depth and ends.* `ObjectBalanced` and `ValueEnds`: within the text a value begins
   and ends at the depth of the object's members and is deeper in between, because it
   does so by itself (`Balanced`). So `MatchingEnd` of a container is the end of its
   value, which the token walk skips to.
3. *Tokens.* `TokensLexed`: the tokens are those lexemes of the text that can be one,
   each once and in order; each key and each value begins with one.
4. *The walk.* `SkippedTo`: `skip_token` at a value goes to the next key, or past the
   object. `FindKeyFinds`, by induction from the last member to the first: `find_key` at
   the key of member *k* finds the value of the first member from *k* on that has the
   key; at the first key (`RootFinds`) that is the member of the message, or none. The
   same lemma, for an object inside a value, gives `NestedText`; and `ItemIs` is the walk
   of `array_item`.
5. *The search.* Each place of the text is the brace, a key, its colon, a place within
   a value, or a comma. `FoundIsKey`: a string with a colon behind it is a key of the
   message or one nested in a value. `FindValueFinds`: if no nested one shadows the
   member, the first such place is the key of its member.
6. *Agreement.* `ButtonsRead` and `MaskIs` (each bit against the name of its tile,
   where it is `Readable`), `PipsAre`, and `OwnText`, with `TooLong` as the case in which
   the Display drops the message as a whole and the Keyboard does not.
7. *The route.* `GenericParsed` and `JournalParsed` only say what these two leave alone and
   that what they set has its type; for that `find_key` has to return a token whatever
   object it is given (`FindKeyToken`).

### Not proved

* Liveness: fairness and ENABLED are out of the prover's reach.
* The properties of the six runs that expect a violation, which the code does not have.

All other invariants, action properties and refinements that the passing runs check are proved, the
refinements and what rests on them under the assumptions named above.

Induction over data is replaced by what the provers have: a set of
numbers that has 0 and with each its successor is all of them (`CountUp`, from the
least element of what is left out).

## 4. Plan and what is left

Each component has a module with its specification, an MC module, runs and
mutants, and where it says so a proof module.

1. *(done)* WebSocket and EDDJSON clients, runs, theorems on types and invariants.
2. *(done)* Refinement proofs for `KeepsTime` and `DeliversMessages`.
3. *(done)* `Keyboard` and `KeyPresses`, runs and theorems.
4. *(done)* `UsbDescriptors` and `NetUsb`, run and theorems.
5. *(done)* `EddRoute`, `RouteFeed` and `RouteView`, runs and theorems.
6. *(done)* `Dashboard` and `Display`, run and theorems.
7. *(done)* Screens, touch and telemetry: `LcdDriver`, `TouchFilter`,
   `PageLayout`, `Panel`, `JsonTokens`, `Telemetry`, and the theorems about the first
   four.
8. *(left)* Composition of the Display: channel, route and dashboard over one loop. The parts
   meet at narrow places (`generation`, `net_usb_ready`, one callback), and each
   takes the other side there as any behaviour at all, so nothing is lost but the
   end-to-end statement.
9. *(done)* Theorems about `Telemetry`: where the members of a message are in its text
   and its tokens, and what either parser finds.

### Not modelled

* Icons (`icons.c`, two fifths of the lines of the implementation) and fonts: generated
  bitmaps; no branch depends on a value in them.
* `copy_token`'s escapes and its cut to the size of a field, colours, key codes,
  the parsing of route summaries and times: their results are inputs of the
  modules that use them.
* jsmn's errors for texts that are no JSON or are cut off.
* The HTTP upgrade's text, the mask of frames and UTF-8.
* lwIP, TinyUSB, the DHCP server and the SDK are third-party code, modelled
  only where the code meets them and then marked external.
* Host tools: scripts that fetch toolchains and build the firmware.
