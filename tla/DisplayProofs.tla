----------------------------- MODULE DisplayProofs ------------------------------
(***************************************************************************)
(* Theorems about Display, for every number of stripes, pages and inputs.  *)
(***************************************************************************)
EXTENDS Display, TLAPS

\* What is drawn of the current frame is the current picture, unless something
\* has changed that dashboard_task has not seen yet.
DrawnInv ==
  ~Changed =>
    \A y \in AllStripes :
      (stripe = Idle \/ y < stripe) => screen[y] = Picture(phase)

\* dashboard_task has seen the connection, except on its way there.
LastInv ==
  \/ pc = "boot" /\ bootTasks = 0
  \/ pc = "task"
  \/ last = [usb |-> usb, websocket |-> websocket]

\* A change is seen by the next call; from then on every call draws a stripe.
CalmInv ==
  /\ Changed => calm = 0
  /\ calm < Stripes /\ ~Changed => stripe = calm

\* Nothing changes before the loop, and calm counts the calls.
BootInv == pc = "boot" => calm = AtMost(bootTasks, Stripes) /\ news = FALSE

\* An input that is taken for released has been released since its last page.
RestInv == pc # "boot" => \A i \in Inputs : stable[i] \/ rested[i]

FrameInv == DrawnInv /\ LastInv /\ CalmInv /\ BootInv
Inv == TypeOK /\ FrameInv /\ WholeFrame /\ RightAfterAPause /\ FirstFrame /\ RestInv

-------------------------------------------------------------------------------

\* The initial state satisfies the invariant.
LEMMA InitInv == Init => Inv
<1> SUFFICES ASSUME Init PROVE Inv
  OBVIOUS
<1> USE DashboardAssumption, DisplayAssumption DEF Init, DashboardInit
<1>1. DashboardTypeOK
  <2>1. Stripes - 1 >= 0 /\ PageCount - 1 >= 0
    OBVIOUS
  <2>2. last \in [usb : BOOLEAN, websocket : States \cup {NoState}]
    OBVIOUS
  <2>3. screen \in [AllStripes -> Pictures \cup {Blank}]
    OBVIOUS
  <2>4. data \in Data /\ news \in BOOLEAN /\ usb \in BOOLEAN /\ websocket \in States
    OBVIOUS
  <2>5. page \in 0 .. PageCount - 1 /\ stripe \in AllStripes \cup {Idle}
    BY <2>1 DEF AllStripes
  <2>6. phase \in Phases /\ scrollAge \in 0 .. ScrollTime /\ calm \in 0 .. Stripes
    OBVIOUS
  <2>. QED
    BY <2>2, <2>3, <2>4, <2>5, <2>6 DEF DashboardTypeOK
<1>4. TypeOK
  BY <1>1 DEF TypeOK
<1>2. FrameInv
  <2>1. Changed
    BY DEF Changed
  <2>2. LastInv /\ BootInv
    BY DEF LastInv, BootInv, AtMost
  <2>. QED
    BY <2>1, <2>2 DEF FrameInv, DrawnInv, CalmInv
<1>3. WholeFrame /\ RightAfterAPause /\ FirstFrame /\ RestInv
  BY DEF WholeFrame, RightAfterAPause, FirstFrame, RestInv, Idle
<1>. QED
  BY <1>2, <1>3, <1>4 DEF Inv

\* The page number stays below the number of pages.
LEMMA PageInRange ==
  ASSUME TypeOK PROVE (page + 1) % PageCount \in 0 .. PageCount - 1
BY DashboardAssumption DEF TypeOK, DashboardTypeOK

-------------------------------------------------------------------------------
\* dashboard_task.

\* Every call keeps the dashboard's types.
LEMMA TaskTypes == DashboardTypeOK /\ Task => DashboardTypeOK'
<1> SUFFICES ASSUME DashboardTypeOK, Task PROVE DashboardTypeOK'
  OBVIOUS
<1> USE DashboardAssumption DEF DashboardTypeOK
<1>1. ASSUME NEW y \in AllStripes, NEW p \in Phases, RenderStripe(y, p)
      PROVE  /\ stripe' \in AllStripes \cup {Idle} /\ scrollAge' \in 0 .. ScrollTime
             /\ screen' \in [AllStripes -> Pictures \cup {Blank}]
  <2>1. Picture(p) \in Pictures
    BY DEF Picture, Pictures
  <2>2. stripe' \in AllStripes \cup {Idle} /\ scrollAge' \in 0 .. ScrollTime
    BY <1>1 DEF RenderStripe, AllStripes, Idle
  <2>. QED
    BY <1>1, <2>1, <2>2 DEF RenderStripe
<1>2. /\ stripe' \in AllStripes \cup {Idle} /\ scrollAge' \in 0 .. ScrollTime
      /\ screen' \in [AllStripes -> Pictures \cup {Blank}] /\ phase' \in Phases
  <2>1. CASE TaskRestarts
    BY <1>1, <2>1 DEF TaskRestarts, AllStripes
  <2>2. CASE TaskContinues
    BY <1>1, <2>2 DEF TaskContinues
  <2>3. CASE TaskRests
    BY <2>3 DEF TaskRests
  <2>. QED
    BY <2>1, <2>2, <2>3 DEF Task
<1>3. last' \in [usb : BOOLEAN, websocket : States \cup {NoState}]
  BY DEF Task
<1>4. calm' \in 0 .. Stripes
  BY DEF Task, AtMost
<1>5. data' \in Data /\ news' \in BOOLEAN /\ page' \in 0 .. PageCount - 1
        /\ usb' \in BOOLEAN /\ websocket' \in States
  BY DEF Task
<1>. QED
  BY <1>2, <1>3, <1>4, <1>5

\* A call renders from what is true, and the frame it belongs to is the current
\* one, so that a frame it finishes is whole and right.
LEMMA TaskFrame ==
  ASSUME DashboardTypeOK, DrawnInv, CalmInv, WholeFrame, RightAfterAPause, Task
  PROVE  /\ ~Changed' /\ DrawnInv' /\ CalmInv' /\ WholeFrame' /\ RightAfterAPause'
<1> USE DashboardAssumption
<1>1. ~Changed' /\ \A p : Picture(p)' = Picture(p)
  BY DEF Task, Changed, Picture
<1>2. calm' = AtMost(calm + 1, Stripes) /\ calm \in 0 .. Stripes
        /\ stripe \in AllStripes \cup {Idle}
  BY DEF Task, DashboardTypeOK
<1>3. CASE TaskRestarts
  <2>1. stripe' = 1 /\ screen' = [screen EXCEPT ![0] = Picture(phase')]
          /\ phase' \in Phases
    BY <1>3 DEF TaskRestarts, RenderStripe
  <2>2. screen'[0] = Picture(phase') /\ \A y \in AllStripes \ {0} : screen'[y] = screen[y]
    BY <2>1, <1>2 DEF AllStripes, DashboardTypeOK
  <2>3. DrawnInv'
    BY <1>1, <2>1, <2>2 DEF DrawnInv, AllStripes, Idle
  <2>4. WholeFrame'
    BY <2>1 DEF WholeFrame, Idle
  <2>5. calm < Stripes => calm = 0
    BY <1>2, <1>3 DEF TaskRestarts, CalmInv, ScrollDue, Idle
  <2>6. CalmInv'
    BY <1>1, <1>2, <2>1, <2>5 DEF CalmInv, AtMost, Idle
  <2>7. RightAfterAPause'
    BY <1>1, <1>2, <2>1, <2>2, <2>5 DEF RightAfterAPause, AtMost, AllStripes
  <2>. QED
    BY <1>1, <2>3, <2>4, <2>6, <2>7
<1>4. CASE TaskContinues
  <2>1. /\ ~Changed /\ stripe \in AllStripes /\ phase' = phase
        /\ stripe' = IF stripe + 1 = Stripes THEN Idle ELSE stripe + 1
        /\ screen' = [screen EXCEPT ![stripe] = Picture(phase)]
    BY <1>2, <1>4 DEF TaskContinues, RenderStripe
  <2>2. /\ screen'[stripe] = Picture(phase)
        /\ \A y \in AllStripes \ {stripe} : screen'[y] = screen[y]
    BY <2>1 DEF DashboardTypeOK
  <2>3. \A y \in AllStripes : y <= stripe => screen'[y] = Picture(phase)
    BY <2>1, <2>2 DEF DrawnInv, AllStripes
  <2>4. DrawnInv'
    BY <1>1, <2>1, <2>3 DEF DrawnInv, AllStripes, Idle
  <2>5. WholeFrame'
    BY <2>1, <2>3 DEF WholeFrame, AllStripes, Idle
  <2>6. calm < Stripes => stripe = calm
    BY <2>1 DEF CalmInv
  <2>7. CalmInv'
    BY <1>1, <1>2, <2>1, <2>6 DEF CalmInv, AtMost, AllStripes
  <2>8. RightAfterAPause'
    <3>1. CASE calm = Stripes
      BY <1>1, <1>2, <2>2, <3>1 DEF RightAfterAPause, DashboardTypeOK
    <3>2. CASE calm < Stripes
      BY <1>1, <1>2, <2>1, <2>3, <2>6, <3>2
         DEF RightAfterAPause, DashboardTypeOK, AtMost, AllStripes
    <3>. QED
      BY <1>2, <3>1, <3>2
  <2>. QED
    BY <1>1, <2>4, <2>5, <2>7, <2>8
<1>5. CASE TaskRests
  <2>1. ~Changed /\ stripe = Idle /\ UNCHANGED <<stripe, phase, screen>>
    BY <1>5 DEF TaskRests
  <2>2. calm = Stripes /\ calm' = Stripes
    BY <1>2, <2>1 DEF CalmInv, AtMost, Idle
  <2>. QED
    BY <1>1, <2>1, <2>2 DEF DrawnInv, CalmInv, WholeFrame, RightAfterAPause
<1>. QED
  BY <1>3, <1>4, <1>5 DEF Task
-------------------------------------------------------------------------------
\* The steps of the loop.

\* A finished or growing frame is not touched by what leaves the screen alone
\* and changes what is shown only together with generation.
LEMMA MessageFrame ==
  ASSUME Inv, Message
  PROVE  FrameInv' /\ WholeFrame' /\ RightAfterAPause' /\ FirstFrame'
<1>1. Changed' /\ calm' = 0 /\ pc = "loop"
  BY DEF Message, Changed
<1>2. FrameInv'
  BY <1>1 DEF Message, Inv, FrameInv, DrawnInv, LastInv, CalmInv, BootInv
<1>3. WholeFrame' /\ RightAfterAPause' /\ FirstFrame'
  BY <1>1, DashboardAssumption
     DEF Message, Inv, WholeFrame, RightAfterAPause, FirstFrame
<1>. QED
  BY <1>2, <1>3

\* Nothing of the dashboard changes at the end of the boot and in Sleep.
LEMMA SameFrame ==
  ASSUME Inv, BootEnd \/ \E d \in 0 .. IterMax : Sleep(d)
  PROVE  FrameInv' /\ WholeFrame' /\ RightAfterAPause' /\ FirstFrame'
<1>1. UNCHANGED <<data, news, page, usb, websocket, last, stripe, phase, screen, calm>>
  BY DEF BootEnd, Sleep, dashVars
<1>2. /\ Changed' <=> Changed
      /\ \A p : Picture(p)' = Picture(p)
  BY <1>1 DEF Changed, Picture
<1>3. pc' = "loop" /\ bootTasks' = bootTasks
        /\ (pc = "boot" => bootTasks = BootTasks /\ calm = Stripes)
  BY DisplayAssumption, DashboardAssumption
     DEF BootEnd, Sleep, BootDone, Inv, FrameInv, BootInv, AtMost
<1>4. DrawnInv' /\ CalmInv' /\ WholeFrame' /\ RightAfterAPause'
  BY <1>1, <1>2 DEF Inv, FrameInv, DrawnInv, CalmInv, WholeFrame, RightAfterAPause
<1>5. LastInv' /\ BootInv'
  <2>1. pc # "task" /\ ~(pc = "boot" /\ bootTasks = 0)
    BY <1>3, DisplayAssumption, DashboardAssumption DEF BootEnd, Sleep
  <2>. QED
    BY <1>1, <1>3, <2>1 DEF Inv, FrameInv, LastInv, BootInv
<1>6. FirstFrame'
  <2>1. CASE pc = "boot"
    <3>1. \A y \in AllStripes : \E p \in Phases : screen[y] = Picture(p)
      BY <1>3, <2>1 DEF Inv, RightAfterAPause
    <3>2. \A p \in Phases : Picture(p) \in Pictures
      BY DEF Picture, Pictures, Inv, TypeOK, DashboardTypeOK
    <3>. QED
      BY <1>1, <3>1, <3>2, DashboardAssumption DEF FirstFrame
  <2>2. CASE pc # "boot"
    BY <1>1, <2>2 DEF Inv, FirstFrame
  <2>. QED
    BY <2>1, <2>2
<1>. QED
  BY <1>4, <1>5, <1>6 DEF FrameInv

\* A page turn restarts the frame; a new connection is a change.
LEMMA PollFrame ==
  ASSUME Inv, NEW levels \in [Inputs -> BOOLEAN], NEW ready \in BOOLEAN,
         NEW state \in States, Poll(levels, ready, state)
  PROVE  FrameInv' /\ WholeFrame' /\ RightAfterAPause' /\ FirstFrame'
<1> USE DashboardAssumption
<1>1. /\ pc = "loop" /\ pc' = "task" /\ screen' = screen /\ data' = data
      /\ news' = news /\ last' = last
      /\ last = [usb |-> usb, websocket |-> websocket]
  BY DEF Poll, Inv, FrameInv, LastInv
<1>2. LastInv' /\ BootInv' /\ FirstFrame'
  BY <1>1 DEF LastInv, BootInv, FirstFrame, Inv
<1>3. CASE Turned(levels)
  <2>1. stripe' = 0 /\ calm' = 0
    BY <1>3 DEF Poll, NextPage, RequestRedraw
  <2>2. DrawnInv' /\ CalmInv' /\ WholeFrame' /\ RightAfterAPause'
    BY <2>1 DEF DrawnInv, CalmInv, WholeFrame, RightAfterAPause, Idle, AllStripes
  <2>. QED
    BY <1>2, <2>2 DEF FrameInv
<1>4. CASE ~Turned(levels) /\ (usb' # usb \/ websocket' # websocket)
  <2>1. calm' = 0 /\ stripe' = stripe
    BY <1>4 DEF Poll
  <2>2. Changed'
    BY <1>1, <1>4 DEF Changed
  <2>3. DrawnInv' /\ CalmInv' /\ WholeFrame' /\ RightAfterAPause'
    BY <1>1, <2>1, <2>2 DEF DrawnInv, CalmInv, WholeFrame, RightAfterAPause, Inv
  <2>. QED
    BY <1>2, <2>3 DEF FrameInv
<1>5. CASE ~Turned(levels) /\ usb' = usb /\ websocket' = websocket
  <2>1. calm' = calm /\ stripe' = stripe /\ phase' = phase /\ page' = page
    BY <1>5 DEF Poll
  <2>2. (Changed' <=> Changed) /\ \A p : Picture(p)' = Picture(p)
    BY <1>1, <1>5, <2>1 DEF Changed, Picture
  <2>3. DrawnInv' /\ CalmInv' /\ WholeFrame' /\ RightAfterAPause'
    BY <1>1, <2>1, <2>2
       DEF DrawnInv, CalmInv, WholeFrame, RightAfterAPause, Inv, FrameInv
  <2>. QED
    BY <1>2, <2>3 DEF FrameInv
<1>. QED
  BY <1>3, <1>4, <1>5

\* The calls of dashboard_task, in the loop and before it.
LEMMA TaskStepFrame ==
  ASSUME Inv, BootTask \/ DashboardTask
  PROVE  FrameInv' /\ WholeFrame' /\ RightAfterAPause' /\ FirstFrame'
<1> USE DashboardAssumption
<1>1. Task
  BY DEF BootTask, DashboardTask
<1>2. DrawnInv' /\ CalmInv' /\ WholeFrame' /\ RightAfterAPause'
  BY <1>1, TaskFrame DEF Inv, FrameInv, TypeOK
<1>3. LastInv'
  BY <1>1 DEF Task, LastInv
<1>4. BootInv'
  <2>1. CASE BootTask
    BY <1>1, <2>1, DisplayAssumption
       DEF BootTask, Task, BootInv, AtMost, Inv, FrameInv, TypeOK
  <2>2. CASE DashboardTask
    BY <2>2 DEF DashboardTask, BootInv
  <2>. QED
    BY <2>1, <2>2
<1>5. FirstFrame'
  <2>1. CASE BootTask
    BY <2>1 DEF BootTask, FirstFrame
  <2>2. CASE DashboardTask
    <3>1. \A y \in AllStripes : screen[y] # Blank
      BY <2>2 DEF DashboardTask, Inv, FirstFrame
    <3>2. \A p \in Phases : Picture(p) # Blank
      BY DEF Picture, Pictures, Inv, TypeOK, DashboardTypeOK
    <3>3. \A z \in AllStripes, p \in Phases : RenderStripe(z, p) =>
            \A y \in AllStripes : screen'[y] # Blank
      BY <3>1, <3>2 DEF RenderStripe, Inv, TypeOK, DashboardTypeOK
    <3>4. \A y \in AllStripes : screen'[y] # Blank
      BY <1>1, <3>1, <3>3
         DEF Task, TaskRestarts, TaskContinues, TaskRests, AllStripes, Idle,
             Inv, TypeOK, DashboardTypeOK
    <3>. QED
      BY <3>4 DEF FirstFrame
  <2>. QED
    BY <2>1, <2>2
<1>. QED
  BY <1>2, <1>3, <1>4, <1>5 DEF FrameInv
-------------------------------------------------------------------------------
\* The inputs, and the types of every step.

\* An input is taken for pressed only after it was released.
LEMMA RestStep == Inv /\ [Next]_vars => RestInv'
<1> SUFFICES ASSUME Inv, [Next]_vars PROVE RestInv'
  OBVIOUS
<1>1. CASE BootEnd
  BY <1>1 DEF BootEnd, RestInv
<1>2. ASSUME NEW levels \in [Inputs -> BOOLEAN], NEW ready \in BOOLEAN,
             NEW state \in States, Poll(levels, ready, state)
      PROVE  RestInv'
  <2>1. pc = "loop" /\ ReadInputs(levels)
    BY <1>2 DEF Poll
  <2>2. ASSUME NEW i \in Inputs PROVE stable'[i] \/ rested'[i]
    <3>1. stable[i] \in BOOLEAN /\ raw[i] \in BOOLEAN /\ levels[i] \in BOOLEAN
      BY DEF Inv, TypeOK
    <3>2. stable[i] \/ rested[i]
      BY <2>1 DEF Inv, RestInv
    <3>3. CASE Accepted(i, levels[i])
      BY <2>1, <3>1, <3>3 DEF ReadInputs, Pressed, Accepted
    <3>4. CASE ~Accepted(i, levels[i])
      BY <2>1, <3>1, <3>2, <3>4 DEF ReadInputs, Pressed
    <3>. QED
      BY <3>3, <3>4
  <2>. QED
    BY <2>2 DEF RestInv
<1>3. CASE UNCHANGED <<pc, stable, rested>>
  BY <1>3 DEF Inv, RestInv
<1>4. CASE BootTask
  BY <1>4 DEF BootTask, RestInv
<1>5. CASE Message \/ UNCHANGED vars
  BY <1>3, <1>5 DEF Message, inputVars, vars
<1>6. CASE DashboardTask
  BY <1>6 DEF DashboardTask, inputVars, Inv, RestInv
<1>7. CASE \E d \in 0 .. IterMax : Sleep(d)
  BY <1>7 DEF Sleep, Inv, RestInv
<1>. QED
  BY <1>1, <1>2, <1>4, <1>5, <1>6, <1>7 DEF Next, PollStep

\* Every step keeps the types.
LEMMA TypeStep == TypeOK /\ [Next]_vars => TypeOK'
<1> SUFFICES ASSUME TypeOK, [Next]_vars PROVE TypeOK'
  OBVIOUS
<1> USE DashboardAssumption, DisplayAssumption DEF TypeOK
<1>1. CASE BootTask
  <2>1. DashboardTypeOK'
    BY <1>1, TaskTypes DEF BootTask
  <2>2. bootTasks' \in 0 .. BootTasks
    BY <1>1 DEF BootTask, BootDone
  <2>. QED
    BY <1>1, <2>1, <2>2 DEF BootTask, inputVars
<1>2. CASE BootEnd
  <2>1. DashboardTypeOK'
    BY <1>2 DEF BootEnd, DashboardTypeOK, dashVars
  <2>2. age' \in [Inputs -> 0 .. DebounceTime] /\ rested' \in [Inputs -> BOOLEAN]
          /\ raw' \in [Inputs -> BOOLEAN] /\ stable' \in [Inputs -> BOOLEAN]
    BY <1>2 DEF BootEnd
  <2>. QED
    BY <1>2, <2>1, <2>2 DEF BootEnd
<1>3. CASE Message
  BY <1>3 DEF Message, DashboardTypeOK, inputVars
<1>4. ASSUME NEW levels \in [Inputs -> BOOLEAN], NEW ready \in BOOLEAN,
             NEW state \in States, Poll(levels, ready, state)
      PROVE  TypeOK'
  <2>1. page' \in 0 .. PageCount - 1 /\ stripe' \in AllStripes \cup {Idle}
          /\ phase' \in Phases
    <3>1. CASE Turned(levels)
      BY <1>4, <3>1, PageInRange DEF Poll, NextPage, RequestRedraw, AllStripes
    <3>2. CASE ~Turned(levels)
      BY <1>4, <3>2 DEF Poll, DashboardTypeOK
    <3>. QED
      BY <3>1, <3>2
  <2>2. calm' \in 0 .. Stripes /\ usb' \in BOOLEAN /\ websocket' \in States
    BY <1>4 DEF Poll, SetConnection, DashboardTypeOK
  <2>3. DashboardTypeOK'
    BY <1>4, <2>1, <2>2 DEF Poll, DashboardTypeOK
  <2>4. raw' \in [Inputs -> BOOLEAN] /\ age' \in [Inputs -> 0 .. DebounceTime]
    BY <1>4 DEF Poll, ReadInputs
  <2>5. stable' \in [Inputs -> BOOLEAN] /\ rested' \in [Inputs -> BOOLEAN]
    BY <1>4 DEF Poll, ReadInputs
  <2>. QED
    BY <1>4, <2>3, <2>4, <2>5 DEF Poll
<1>5. CASE DashboardTask
  BY <1>5, TaskTypes DEF DashboardTask, inputVars
<1>6. ASSUME NEW d \in 0 .. IterMax, Sleep(d) PROVE TypeOK'
  <2>1. age' \in [Inputs -> 0 .. DebounceTime]
    BY <1>6 DEF Sleep, AtMost
  <2>2. scrollAge' \in 0 .. ScrollTime
    BY <1>6 DEF Sleep, AtMost, DashboardTypeOK
  <2>. QED
    BY <1>6, <2>1, <2>2 DEF Sleep, DashboardTypeOK
<1>7. CASE UNCHANGED vars
  BY <1>7 DEF vars, dashVars, inputVars, DashboardTypeOK
<1>. QED
  BY <1>1, <1>2, <1>3, <1>4, <1>5, <1>6, <1>7 DEF Next, PollStep

\* The invariant is inductive.
LEMMA InvStep == Inv /\ [Next]_vars => Inv'
<1> SUFFICES ASSUME Inv, [Next]_vars PROVE Inv'
  OBVIOUS
<1>1. TypeOK' /\ RestInv'
  BY TypeStep, RestStep DEF Inv
<1>2. FrameInv' /\ WholeFrame' /\ RightAfterAPause' /\ FirstFrame'
  <2>1. CASE BootTask \/ DashboardTask
    BY <2>1, TaskStepFrame
  <2>2. CASE BootEnd \/ \E d \in 0 .. IterMax : Sleep(d)
    BY <2>2, SameFrame
  <2>3. CASE Message
    BY <2>3, MessageFrame
  <2>4. CASE PollStep
    BY <2>4, PollFrame DEF PollStep
  <2>5. CASE UNCHANGED vars
    BY <2>5
       DEF Inv, vars, dashVars, FrameInv, DrawnInv, LastInv, CalmInv, BootInv,
           Changed, Picture, WholeFrame, RightAfterAPause, FirstFrame
  <2>. QED
    BY <2>1, <2>2, <2>3, <2>4, <2>5 DEF Next
<1>. QED
  BY <1>1, <1>2 DEF Inv

\* The invariant holds.
LEMMA AlwaysInv == Spec => []Inv
<1>1. Init => Inv
  BY InitInv
<1>2. Inv /\ [Next]_vars => Inv'
  BY InvStep
<1>. QED
  BY <1>1, <1>2, PTL DEF Spec

-------------------------------------------------------------------------------

\* Every variable of the display keeps its type.
THEOREM TypeCorrect == Spec => []TypeOK
BY AlwaysInv, PTL DEF Inv

\* A finished frame is one picture, whatever changed while it was drawn.
THEOREM AlwaysWholeFrame == Spec => []WholeFrame
BY AlwaysInv, PTL DEF Inv

\* One call for each stripe after the last change, the screen is right.
THEOREM AlwaysRightAfterAPause == Spec => []RightAfterAPause
BY AlwaysInv, PTL DEF Inv

\* The screen has been drawn in full before the loop starts.
THEOREM AlwaysFirstFrame == Spec => []FirstFrame
BY AlwaysInv, PTL DEF Inv

\* A page is turned only by an input that rested since its last one.
THEOREM AlwaysOnePagePerPress == Spec => OnePagePerPress
<1>1. ASSUME Inv, [Next]_vars
      PROVE  [page' # page => \E i \in Inputs : rested[i] /\ ~rested'[i]]_vars
  <2> SUFFICES ASSUME page' # page
               PROVE  \E i \in Inputs : rested[i] /\ ~rested'[i]
    OBVIOUS
  <2>1. PICK levels \in [Inputs -> BOOLEAN], ready \in BOOLEAN, state \in States :
          Poll(levels, ready, state)
    BY <1>1 DEF Next, PollStep, BootTask, BootEnd, Message, DashboardTask, Sleep,
                Task, vars, dashVars
  <2>2. PICK i \in Inputs : Pressed(i, levels[i])
    BY <2>1 DEF Poll, Turned
  <2>3. ~rested'[i]
    BY <2>1, <2>2 DEF Poll, ReadInputs
  <2>4. ~stable[i]
    BY <1>1, <2>2 DEF Pressed, Accepted, Inv, TypeOK
  <2>5. rested[i]
    BY <1>1, <2>1, <2>4 DEF Poll, Inv, RestInv
  <2>. QED
    BY <2>3, <2>5
<1>2. Spec => []Inv
  BY AlwaysInv
<1>. QED
  BY <1>1, <1>2, PTL DEF Spec, OnePagePerPress
===============================================================================
