-------------------------------- MODULE Display ---------------------------------
(***************************************************************************)
(* The main loop of PicoDeck-ED-Display/src/main.c: telemetry and network  *)
(* as they come, two debounced inputs that turn the page, and the          *)
(* dashboard.                                                              *)
(***************************************************************************)
EXTENDS Dashboard

CONSTANTS
  Inputs,        \* KEY1 and the touch panel's interrupt line
  DebounceTime,  \* 35 ms
  BootTasks,     \* 14, the calls of dashboard_task before USB is started
  IterMax        \* bound on the time of one iteration

ASSUME DisplayAssumption ==
  /\ DebounceTime \in Nat /\ IterMax \in Nat
  /\ BootTasks \in Nat /\ BootTasks >= Stripes

VARIABLES
  pc,         \* "boot", then "loop", "task" and "sleep" of each iteration
  bootTasks,  \* calls made in "boot"
  raw,        \* raw_level of each input, TRUE when low: pressed
  stable,     \* stable_level, likewise
  age,        \* time since changed_ms, up to DebounceTime
  rested      \* history: released for DebounceTime since its last page

inputVars == <<raw, stable, age, rested>>
vars      == <<dashVars, pc, bootTasks, inputVars>>

-------------------------------------------------------------------------------

\* Seeded bug: one call too few.
BootDoneEarly == bootTasks = BootTasks - 1

\* main, before the loop: the first frame is drawn in full.
BootDone == bootTasks = BootTasks

BootTask ==
  /\ pc = "boot" /\ ~BootDone
  /\ bootTasks' = bootTasks + 1
  /\ Task
  /\ UNCHANGED <<pc, inputVars>>

\* debounced_input_init; an input may be held down already.
BootEnd ==
  /\ pc = "boot" /\ BootDone
  /\ pc' = "loop"
  /\ raw' \in [Inputs -> BOOLEAN] /\ stable' = raw'
  /\ age' = [i \in Inputs |-> 0]
  /\ rested' = [i \in Inputs |-> ~raw'[i]]
  /\ UNCHANGED <<dashVars, bootTasks>>

\* A message that edd_state_handle_json recognizes counts generation up.
Message ==
  /\ pc = "loop"
  /\ data' \in Data /\ news' = TRUE
  /\ calm' = 0
  /\ UNCHANGED <<page, usb, websocket, last, stripe, phase, scrollAge, screen>>
  /\ UNCHANGED <<pc, bootTasks, inputVars>>

\* Seeded bug: a level is accepted as soon as two polls agree.
AcceptedAtOnce(i, level) == level = raw[i] /\ stable[i] # raw[i]

\* debounced_input_pressed: a level other than the stable one has lasted.
Accepted(i, level) ==
  /\ level = raw[i] /\ stable[i] # raw[i]
  /\ age[i] >= DebounceTime

Pressed(i, level) == Accepted(i, level) /\ level

Turned(levels) == \E i \in Inputs : Pressed(i, levels[i])

ReadInputs(levels) ==
  /\ raw' = levels
  /\ stable' = [i \in Inputs |-> IF Accepted(i, levels[i]) THEN raw[i] ELSE stable[i]]
  /\ age' = [i \in Inputs |-> IF levels[i] = raw[i] THEN age[i] ELSE 0]
  /\ rested' = [i \in Inputs |->
       IF Pressed(i, levels[i]) THEN FALSE
       ELSE rested[i] \/ (~levels[i] /\ ~raw[i] /\ age[i] >= DebounceTime)]

\* dashboard_set_connection; without the network eddjson_client_task has closed
\* the connection.
SetConnection(ready, state) ==
  /\ ready \/ state = Offline
  /\ usb' = ready /\ websocket' = state

\* The second half of an iteration: inputs, page and connection.
Poll(levels, ready, state) ==
  /\ pc = "loop" /\ pc' = "task"
  /\ ReadInputs(levels)
  /\ IF Turned(levels) THEN NextPage ELSE UNCHANGED <<page, stripe, phase>>
  /\ SetConnection(ready, state)
  /\ calm' = IF Turned(levels) \/ usb' # usb \/ websocket' # websocket
             THEN 0 ELSE calm
  /\ UNCHANGED <<data, news, last, scrollAge, screen, bootTasks>>

DashboardTask ==
  /\ pc = "task" /\ pc' = "sleep"
  /\ Task
  /\ UNCHANGED <<bootTasks, inputVars>>

\* sleep_us; all the time of an iteration passes here.
Sleep(d) ==
  /\ pc = "sleep" /\ pc' = "loop"
  /\ age' = [i \in Inputs |-> AtMost(age[i] + d, DebounceTime)]
  /\ scrollAge' = AtMost(scrollAge + d, ScrollTime)
  /\ UNCHANGED <<data, news, page, usb, websocket, last, stripe, phase, screen, calm>>
  /\ UNCHANGED <<bootTasks, raw, stable, rested>>

-------------------------------------------------------------------------------

Init ==
  /\ DashboardInit
  /\ pc = "boot" /\ bootTasks = 0
  /\ raw = [i \in Inputs |-> FALSE] /\ stable = raw
  /\ age = [i \in Inputs |-> 0] /\ rested = [i \in Inputs |-> FALSE]

PollStep ==
  \E levels \in [Inputs -> BOOLEAN], ready \in BOOLEAN, state \in States :
    Poll(levels, ready, state)

Next ==
  \/ BootTask \/ BootEnd
  \/ Message \/ PollStep \/ DashboardTask \/ \E d \in 0 .. IterMax : Sleep(d)

Spec == Init /\ [][Next]_vars

(***************************************************************************)
(* Fairness: the loop goes round, and its iterations take time.            *)
(***************************************************************************)
LoopFairness ==
  /\ WF_vars(BootTask \/ BootEnd \/ DashboardTask \/ \E d \in 0 .. IterMax : Sleep(d))
  /\ SF_vars(PollStep)
  /\ SF_vars(\E d \in 1 .. IterMax : Sleep(d))

LiveSpec == Spec /\ LoopFairness

-------------------------------------------------------------------------------
\* Properties.

DashboardTypeOK ==
  /\ data \in Data /\ news \in BOOLEAN
  /\ page \in 0 .. PageCount - 1 /\ usb \in BOOLEAN /\ websocket \in States
  /\ last \in [usb : BOOLEAN, websocket : States \cup {NoState}]
  /\ stripe \in AllStripes \cup {Idle} /\ phase \in Phases
  /\ scrollAge \in 0 .. ScrollTime /\ calm \in 0 .. Stripes
  /\ screen \in [AllStripes -> Pictures \cup {Blank}]

\* Every variable has its type.
TypeOK ==
  /\ DashboardTypeOK
  /\ pc \in {"boot", "loop", "task", "sleep"} /\ bootTasks \in 0 .. BootTasks
  /\ raw \in [Inputs -> BOOLEAN] /\ stable \in [Inputs -> BOOLEAN]
  /\ age \in [Inputs -> 0 .. DebounceTime] /\ rested \in [Inputs -> BOOLEAN]

\* A finished frame is one picture: no stripe is left of an earlier page, of
\* older telemetry, of another connection or of another scroll phase, whatever
\* changed while it was drawn (dashboard_task).
WholeFrame ==
  stripe = Idle => \A y \in AllStripes : screen[y] = screen[0]

\* Whatever happened before, as many calls as there are stripes after the last
\* change the whole screen shows what is true; scrolling does not disturb it.
RightAfterAPause ==
  calm = Stripes =>
    \A y \in AllStripes : \E p \in Phases : screen[y] = Picture(p)

\* The first frame is complete before USB is started (main.c, 14 calls).
FirstFrame == pc # "boot" => \A y \in AllStripes : screen[y] # Blank

\* One press turns one page: an input that turned it has to rest before it turns
\* the next, however it bounces or stays down (debounced_input_pressed).
OnePagePerPress ==
  [][page' # page => \E i \in Inputs : rested[i] /\ ~rested'[i]]_vars

\* From now on nothing changes.
Settled ==
  <>[][~Message /\ <<page, usb, websocket>>' = <<page, usb, websocket>>]_vars

\* Text that does not fit keeps moving while nothing else happens
\* (page_needs_scroll, SCROLL_REDRAW_MS).
KeepsScrolling ==
  Settled /\ <>[](usb /\ <<page, data>> \in Wide) => []<>(stripe # Idle)
===============================================================================
