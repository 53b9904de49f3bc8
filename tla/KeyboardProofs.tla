----------------------------- MODULE KeyboardProofs -----------------------------
(***************************************************************************)
(* Theorems about Keyboard, for every value of its constants.              *)
(*                                                                         *)
(* The inductive invariant Inv is a conjunction: the counters and ages     *)
(* (CountsOK); the places, the press machine (ServeInv) and the key on its *)
(* way to the host (KeyInv); the pictures; what the screen shows           *)
(* (ScreenConsistent); the lifting of the finger (LiftInv).                *)
(***************************************************************************)
EXTENDS Keyboard, TLAPS

-------------------------------------------------------------------------------
\* Types.

LEMMA AtMostRange ==
  ASSUME NEW x \in Nat, NEW c \in Nat
  PROVE  AtMost(x, c) \in 0 .. c
  BY DEF AtMost

LEMMA TileFacts ==
  /\ NoTile \notin Tiles
  /\ BootTile \in Tiles
  /\ Backed \subseteq Tiles
  /\ PollsMax \in Nat \ {0}
  BY KeyboardAssumption DEF NoTile, Tiles, BootTile, PollsMax

\* Case analysis of a step, action by action.
LEMMA StepCases ==
  ASSUME [Next]_vars
  PROVE  \/ UNCHANGED vars
         \/ UsbChange \/ UsbGone \/ HostFetch \/ LinkChange \/ Message
         \/ StartupWait \/ StartupEnd
         \/ PollNothing
         \/ \E t \in Tiles \cup {NoTile} :
              PollCount(t) \/ PollAccept(t) \/ PollServing(t)
         \/ Boot \/ CountRelease
         \/ KeyGoesDown \/ KeyGoesUp \/ KeyWait
         \/ Rearm \/ CancelPress \/ KeepServing
         \/ DrawOne \/ DrawNone
         \/ \E d \in 0 .. IterMax : Sleep(d)
  BY DEF Next, Environment, StartupStep, PollStep, Poll, ServeStep, EndStep

LEMMA CountsNext == CountsOK /\ [Next]_vars => CountsOK'
  <1> SUFFICES ASSUME CountsOK, [Next]_vars PROVE CountsOK'
    OBVIOUS
  <1> USE DEF CountsOK
  <1>0. /\ candCount + 1 \in Nat /\ relCount + 1 \in Nat /\ still + 1 \in Nat
        /\ away + 1 \in Nat
    BY KeyboardAssumption, TileFacts
  <1>1. CASE UNCHANGED vars \/ UsbChange \/ UsbGone \/ HostFetch \/ LinkChange
             \/ Message
    BY <1>1 DEF vars, UsbChange, UsbGone, HostFetch, LinkChange, Message,
      startVars, touchVars, pressVars, holdVars, historyVars
  <1>2. CASE StartupWait \/ StartupEnd
    BY <1>2, KeyboardAssumption DEF StartupWait, StartupEnd, startVars,
      touchVars, pressVars, holdVars, historyVars
  <1>3. CASE PollNothing \/ \E t \in Tiles \cup {NoTile} :
               PollCount(t) \/ PollAccept(t) \/ PollServing(t)
    <2>1. ASSUME NEW t PROVE CountWith(t) \in 0 .. CountMax
      BY <1>0, AtMostRange, KeyboardAssumption DEF CountWith
    <2>2. ASSUME NEW t PROVE StillWith(t) \in 0 .. PollsMax
      <3>1. PollsMax \in Nat /\ 1 \in 0 .. PollsMax
        BY TileFacts
      <3>2. AtMost(still + 1, PollsMax) \in 0 .. PollsMax
        BY <1>0, <3>1, AtMostRange
      <3> QED
        BY <3>1, <3>2, Zenon DEF StillWith
    <2>3. ASSUME NEW t PROVE AwayWith(t) \in 0 .. ReleaseStable
      BY <1>0, AtMostRange, KeyboardAssumption DEF AwayWith
    <2>4. CASE PollNothing
      BY <2>4, <2>2, KeyboardAssumption
      DEF PollNothing, startVars, pressVars, holdVars
    <2>5. ASSUME NEW t \in Tiles \cup {NoTile}, PollCount(t)
          PROVE  CountsOK'
      BY <2>5, <2>1, <2>2 DEF PollCount, startVars, pressVars, holdVars
    <2>6. ASSUME NEW t \in Tiles \cup {NoTile}, PollAccept(t)
          PROVE  CountsOK'
      BY <2>6, <2>1, <2>2, KeyboardAssumption DEF PollAccept, startVars
    <2>7. ASSUME NEW t \in Tiles \cup {NoTile}, PollServing(t)
          PROVE  CountsOK'
      BY <2>7, <2>2, <2>3 DEF PollServing, startVars, pressVars, holdVars
    <2> QED
      BY <1>3, <2>4, <2>5, <2>6, <2>7
  <1>4. CASE CountRelease
    <2>1. ReleaseCount \in 0 .. CountMax
      BY <1>0, AtMostRange, KeyboardAssumption DEF ReleaseCount
    <2> QED
      BY <1>4, <2>1
      DEF CountRelease, startVars, touchVars, pressVars, holdVars, historyVars
  <1>5. CASE Boot \/ KeyGoesDown \/ KeyGoesUp \/ KeyWait
    BY <1>5, KeyboardAssumption
    DEF Boot, KeyGoesDown, KeyGoesUp, KeyWait, startVars, touchVars, pressVars,
        holdVars, historyVars
  <1>6. CASE Rearm \/ CancelPress \/ KeepServing
    BY <1>6, KeyboardAssumption DEF Rearm, CancelPress, KeepServing,
      startVars, touchVars, pressVars, holdVars, historyVars
  <1>7. CASE DrawOne \/ DrawNone
    BY <1>7 DEF DrawOne, DrawNone, startVars, touchVars, pressVars, holdVars,
      historyVars
  <1>8. CASE \E d \in 0 .. IterMax : Sleep(d)
    <2>1. PICK d \in 0 .. IterMax : Sleep(d)
      BY <1>8
    <2>0. /\ startAge + d \in Nat /\ openAge + d \in Nat
          /\ pressAge + d \in Nat /\ holdAge + d \in Nat
      BY KeyboardAssumption
    <2>2. /\ startAge' \in 0 .. StartupMax /\ openAge' \in 0 .. ConnectedHold
          /\ pressAge' \in 0 .. PressTime /\ holdAge' \in 0 .. BootHold
      <3>1. /\ AtMost(startAge + d, StartupMax) \in 0 .. StartupMax
            /\ AtMost(openAge + d, ConnectedHold) \in 0 .. ConnectedHold
            /\ AtMost(pressAge + d, PressTime) \in 0 .. PressTime
            /\ AtMost(holdAge + d, BootHold) \in 0 .. BootHold
            /\ 0 \in 0 .. PressTime /\ 0 \in 0 .. BootHold
        BY <2>0, KeyboardAssumption DEF AtMost
      <3>2. startAge' \in 0 .. StartupMax
        <4>1. startAge' = IF visible THEN startAge
                          ELSE AtMost(startAge + d, StartupMax)
          BY <2>1 DEF Sleep
        <4> QED
          BY <3>1, <4>1, Zenon
      <3>3. openAge' \in 0 .. ConnectedHold
        <4>1. openAge' = IF ~visible /\ connected
                         THEN AtMost(openAge + d, ConnectedHold) ELSE openAge
          BY <2>1 DEF Sleep
        <4> QED
          BY <3>1, <4>1, Zenon
      <3>4. pressAge' \in 0 .. PressTime
        <4>1. pressAge' = IF keyDown THEN AtMost(pressAge + d, PressTime) ELSE 0
          BY <2>1 DEF Sleep
        <4> QED
          BY <3>1, <4>1, Zenon
      <3>5. holdAge' \in 0 .. BootHold
        <4>1. holdAge' = IF holding THEN AtMost(holdAge + d, BootHold) ELSE 0
          BY <2>1 DEF Sleep
        <4> QED
          BY <3>1, <4>1, Zenon
      <3> QED
        BY <3>2, <3>3, <3>4, <3>5
    <2>3. /\ candCount' = candCount /\ relCount' = relCount
          /\ still' = still /\ away' = away
      BY <2>1 DEF Sleep, touchVars, historyVars
    <2> QED
      BY <2>2, <2>3
  <1> QED
    BY <1>1, <1>2, <1>3, <1>4, <1>5, <1>6, <1>7, <1>8, StepCases

-------------------------------------------------------------------------------
\* Flags, places, the press machine and the key on its way to the host.

\* What the machine's flags say about each other.
ServeInv ==
  /\ armed => ~pending /\ ~keyDown /\ active = NoTile
  /\ ~armed => active \in Tiles
  /\ pending => ~keyDown
  /\ pc \in {"hold", "key", "release"} => ~armed
  /\ ~visible => armed /\ pc \in {"loop", "sleep"}

\* A key-down in the endpoint is the active one and has not been seen.
KeyInv ==
  /\ ~busy => report = NoTile
  /\ report # NoTile => keyDown /\ report = active /\ hostKey = NoTile
  /\ KeyTracked

MachineInv == UsbOK /\ FlagsOK /\ PlacesOK /\ ServeInv /\ KeyInv

LEMMA MachineNext == MachineInv /\ [Next]_vars => MachineInv'
  <1> SUFFICES ASSUME MachineInv, [Next]_vars PROVE MachineInv'
    OBVIOUS
  <1> USE TileFacts DEF MachineInv, UsbOK, FlagsOK, PlacesOK, ServeInv, KeyInv, KeyTracked
  <1>1. CASE UNCHANGED vars
    BY <1>1 DEF vars, usbVars, startVars, touchVars, pressVars, holdVars, historyVars
  <1>2. CASE UsbChange
    BY <1>2 DEF UsbChange, startVars, touchVars, pressVars, holdVars, historyVars
  <1>17. CASE UsbGone
    BY <1>17 DEF UsbGone, startVars, touchVars, pressVars, holdVars, historyVars
  <1>3. CASE HostFetch
    BY <1>3 DEF HostFetch, startVars, touchVars, pressVars, holdVars, historyVars
  <1>4. CASE LinkChange \/ Message
    BY <1>4 DEF LinkChange, Message, usbVars, startVars, touchVars, pressVars,
      holdVars, historyVars
  <1>5. CASE StartupWait
    BY <1>5 DEF StartupWait, Connected, usbVars, touchVars, pressVars,
      holdVars, historyVars
  <1>18. CASE StartupEnd
    BY <1>18 DEF StartupEnd, Connected, usbVars, touchVars, pressVars,
      holdVars, historyVars
  <1>6. CASE PollNothing
    BY <1>6 DEF PollNothing, Polling, usbVars, startVars, pressVars, holdVars
  <1>7. ASSUME NEW t \in Tiles \cup {NoTile}, PollCount(t) PROVE MachineInv'
    BY <1>7 DEF PollCount, Polling, usbVars, startVars, pressVars, holdVars
  <1>8. ASSUME NEW t \in Tiles \cup {NoTile}, PollAccept(t) PROVE MachineInv'
    BY <1>8 DEF PollAccept, Polling, usbVars, startVars
  <1>9. ASSUME NEW t \in Tiles \cup {NoTile}, PollServing(t) PROVE MachineInv'
    BY <1>9 DEF PollServing, Polling, usbVars, startVars, pressVars, holdVars
  <1>10. CASE Boot \/ CountRelease \/ KeyWait \/ KeepServing
    BY <1>10 DEF Boot, CountRelease, KeyWait, KeepServing, usbVars, startVars,
      touchVars, pressVars, holdVars, historyVars
  <1>11. CASE KeyGoesDown
    BY <1>11 DEF KeyGoesDown, HidReady, Send, startVars, touchVars, holdVars, historyVars
  <1>12. CASE KeyGoesUp
    BY <1>12 DEF KeyGoesUp, KeyUpDue, HidReady, Send, startVars, touchVars, holdVars, historyVars
  <1>13. CASE Rearm
    BY <1>13 DEF Rearm, usbVars, startVars, historyVars
  <1>14. CASE CancelPress
    BY <1>14 DEF CancelPress, usbVars, startVars, touchVars, historyVars
  <1>15. CASE DrawOne \/ DrawNone
    BY <1>15 DEF DrawOne, DrawNone, usbVars, startVars, touchVars, pressVars, holdVars, historyVars
  <1>16. CASE \E d \in 0 .. IterMax : Sleep(d)
    BY <1>16 DEF Sleep, usbVars, touchVars, historyVars
  <1> QED
    BY <1>1, <1>2, <1>3, <1>4, <1>5, <1>6, <1>7, <1>8, <1>9, <1>10, <1>11,
       <1>12, <1>13, <1>14, <1>15, <1>16, <1>17, <1>18, StepCases

-------------------------------------------------------------------------------
\* The screen.

LEMMA PicturesNext ==
  PicturesOK /\ MachineInv /\ [Next]_vars => PicturesOK'
  <1> SUFFICES ASSUME PicturesOK, MachineInv, [Next]_vars PROVE PicturesOK'
    OBVIOUS
  <1> USE TileFacts DEF PicturesOK
  <1>1. CASE Message
    BY <1>1 DEF Message, Changed
  <1>2. CASE StartupEnd
    BY <1>2 DEF StartupEnd, RenderKeyboard
  <1>3. ASSUME NEW t \in Tiles \cup {NoTile}, PollAccept(t) PROVE PicturesOK'
    BY <1>3 DEF PollAccept
  <1>4. CASE Rearm \/ CancelPress
    <2>1. active \in Tiles
      BY <1>4 DEF Rearm, CancelPress, MachineInv, ServeInv
    <2> QED
      BY <1>4, <2>1 DEF Rearm, CancelPress, Paint
  <1>5. CASE DrawOne
    BY <1>5 DEF DrawOne, Paint
  <1>6. CASE UNCHANGED pictureVars
    BY <1>6 DEF pictureVars
  <1> QED
    BY <1>1, <1>2, <1>3, <1>4, <1>5, <1>6, StepCases
    DEF vars, UsbChange, UsbGone, HostFetch, LinkChange, StartupWait,
        PollNothing, PollCount, PollServing, Boot, CountRelease, KeyGoesDown,
        KeyGoesUp, KeyWait, KeepServing, DrawNone, Sleep

\* A step that changes neither a picture nor the active tile.
LEMMA PictureStutters ==
  ASSUME ScreenConsistent, UNCHANGED <<visible, pictureVars, active>>
  PROVE  ScreenConsistent'
  BY DEF ScreenConsistent, pictureVars

LEMMA ScreenNext ==
  ScreenConsistent /\ PicturesOK /\ MachineInv /\ [Next]_vars
    => ScreenConsistent'
  <1> SUFFICES ASSUME ScreenConsistent, PicturesOK, MachineInv, [Next]_vars
               PROVE  ScreenConsistent'
    OBVIOUS
  <1>1. CASE Message
    <2>1. PICK next \in SUBSET Backed :
            dirty' = dirty \cup Changed(next) /\ mask' = next
      BY <1>1 DEF Message
    <2>2. screen' = screen /\ active' = active /\ visible' = visible
      BY <1>1 DEF Message, startVars, pressVars
    <2>3. \A t \in Tiles \ dirty' : t \notin dirty /\ (t \in mask <=> t \in mask')
      BY <2>1 DEF Changed
    <2> QED
      BY <2>1, <2>2, <2>3 DEF ScreenConsistent
  <1>2. CASE StartupEnd
    <2>1. active' = NoTile
      BY <1>2 DEF StartupEnd, pressVars, MachineInv, ServeInv
    <2> QED
      BY <1>2, <2>1, TileFacts DEF StartupEnd, RenderKeyboard, ScreenConsistent
  <1>3. ASSUME NEW t \in Tiles \cup {NoTile}, PollAccept(t)
        PROVE  ScreenConsistent'
    <2>1. active = NoTile
      BY <1>3 DEF PollAccept, MachineInv, ServeInv
    <2> QED
      BY <1>3, <2>1, TileFacts DEF PollAccept, ScreenConsistent, startVars
  <1>4. CASE Rearm \/ CancelPress
    <2>1. active' = NoTile /\ Paint(active, active \in mask)
          /\ mask' = mask /\ dirty' = dirty /\ visible' = visible
      BY <1>4 DEF Rearm, CancelPress, startVars
    <2> QED
      BY <2>1, TileFacts DEF ScreenConsistent, Paint
  <1>5. CASE DrawOne
    <2>1. PICK u \in dirty : dirty' = dirty \ {u} /\ Paint(u, Highlight(u))
      BY <1>5 DEF DrawOne
    <2>2. mask' = mask /\ active' = active /\ visible' = visible
      BY <1>5 DEF DrawOne, startVars, pressVars
    <2> QED
      BY <2>1, <2>2 DEF ScreenConsistent, Paint, Highlight
  <1>6. CASE UNCHANGED <<visible, pictureVars, active>>
    BY <1>6, PictureStutters
  <1> QED
    BY <1>1, <1>2, <1>3, <1>4, <1>5, <1>6, StepCases
    DEF vars, UsbChange, UsbGone, HostFetch, LinkChange, StartupWait,
        PollNothing, PollCount, PollServing, Boot, CountRelease, KeyGoesDown,
        KeyGoesUp, KeyWait, KeepServing, DrawNone, Sleep, startVars, pressVars

-------------------------------------------------------------------------------
\* The finger is lifted between two presses.

\* While a press is served release_count counts the last polls that returned
\* NoTile; the one of this iteration is not counted yet at "hold".
LiftInv ==
  /\ armed => lifted
  /\ ~armed /\ pc \notin {"hold", "boot"} =>
       /\ relCount > 0 =>
            touched = NoTile /\ still >= AtMost(relCount, ReleaseStable)
       /\ relCount >= ReleaseStable => lifted
  /\ ~armed /\ pc = "hold" /\ touched = NoTile =>
       /\ still >= AtMost(relCount + 1, ReleaseStable)
       /\ relCount + 1 >= ReleaseStable => lifted

LEMMA LiftStutters ==
  ASSUME LiftInv, pc \notin {"hold", "boot"}, pc' # "hold", armed' = armed,
         lifted' = lifted, relCount' = relCount, touched' = touched,
         still' = still
  PROVE  LiftInv'
  BY DEF LiftInv, AtMost

LEMMA LiftNext == LiftInv /\ CountsOK /\ MachineInv /\ [Next]_vars => LiftInv'
  <1> SUFFICES ASSUME LiftInv, CountsOK, MachineInv, [Next]_vars
               PROVE  LiftInv'
    OBVIOUS
  <1>0. /\ relCount \in Nat /\ still \in Nat /\ PollsMax \in Nat
        /\ ReleaseStable \in Nat \ {0} /\ ReleaseStable <= PollsMax
        /\ CountMax \in Nat /\ ReleaseStable <= CountMax
    BY KeyboardAssumption DEF CountsOK, PollsMax
  <1>1. CASE UNCHANGED vars
    BY <1>1 DEF vars, touchVars, pressVars, historyVars, LiftInv, AtMost
  <1>2. CASE PollNothing
    BY <1>2 DEF PollNothing, LiftInv, pressVars, Polling
  <1>3. ASSUME NEW t \in Tiles \cup {NoTile}, PollCount(t) PROVE LiftInv'
    BY <1>3 DEF PollCount, LiftInv, pressVars
  <1>4. ASSUME NEW t \in Tiles \cup {NoTile}, PollAccept(t) PROVE LiftInv'
    BY <1>4, TileFacts DEF PollAccept, LiftInv
  <1>5. ASSUME NEW t \in Tiles \cup {NoTile}, PollServing(t) PROVE LiftInv'
    <2>1. /\ armed' = armed /\ ~armed /\ pc' = "hold"
          /\ pc \notin {"hold", "boot"}
          /\ relCount' = relCount /\ touched' = t /\ still' = StillWith(t)
          /\ lifted' = (lifted \/ Lifted(t))
      BY <1>5 DEF PollServing, Polling, pressVars
    <2>2. ASSUME t = NoTile
          PROVE  StillWith(t) >= AtMost(relCount + 1, ReleaseStable)
      BY <1>0, <2>1, <2>2 DEF LiftInv, StillWith, AtMost
    <2>3. ASSUME t = NoTile, relCount + 1 >= ReleaseStable
          PROVE  Lifted(t)
      BY <1>0, <2>2, <2>3 DEF Lifted, AtMost
    <2> QED
      BY <2>1, <2>2, <2>3 DEF LiftInv
  <1>6. CASE CountRelease
    <2>1. /\ armed' = armed /\ pc = "hold" /\ pc' = "key" /\ ~armed
          /\ touched' = touched /\ still' = still /\ lifted' = lifted
          /\ relCount' = IF touched # NoTile THEN 0
                         ELSE AtMost(relCount + 1, CountMax)
      BY <1>6 DEF CountRelease, ReleaseCount, touchVars, pressVars,
        historyVars, MachineInv, ServeInv
    <2>2. CASE touched # NoTile
      BY <1>0, <2>1, <2>2 DEF LiftInv
    <2>3. CASE touched = NoTile
      BY <1>0, <2>1, <2>3 DEF LiftInv, AtMost
    <2> QED
      BY <2>2, <2>3
  <1>7. CASE Rearm \/ CancelPress
    BY <1>7, <1>0 DEF Rearm, CancelPress, Released, LiftInv, historyVars,
      MachineInv, ServeInv
  <1>8. CASE Boot
    BY <1>8 DEF Boot, LiftInv, pressVars, historyVars
  <1>9. CASE /\ pc \notin {"hold", "boot"} /\ pc' # "hold" /\ armed' = armed
             /\ lifted' = lifted /\ relCount' = relCount
             /\ touched' = touched /\ still' = still
    BY <1>9, LiftStutters
  <1> QED
    BY <1>1, <1>2, <1>3, <1>4, <1>5, <1>6, <1>7, <1>8, <1>9, StepCases
    DEF UsbChange, UsbGone, HostFetch, LinkChange, Message, StartupWait,
        StartupEnd, KeyGoesDown, KeyGoesUp, KeyWait, KeepServing, DrawOne,
        DrawNone, Sleep, touchVars, pressVars, historyVars

-------------------------------------------------------------------------------
\* The theorems.

Inv == CountsOK /\ MachineInv /\ PicturesOK /\ ScreenConsistent /\ LiftInv

LEMMA InvInit == Init => Inv
  <1> SUFFICES ASSUME Init PROVE Inv
    OBVIOUS
  <1>1. CountsOK
    BY KeyboardAssumption, TileFacts DEF Init, CountsOK
  <1>2. MachineInv
    BY DEF Init, MachineInv, UsbOK, FlagsOK, PlacesOK, ServeInv, KeyInv,
      KeyTracked
  <1>3. PicturesOK /\ ScreenConsistent
    BY DEF Init, PicturesOK, ScreenConsistent
  <1>4. LiftInv
    BY DEF Init, LiftInv
  <1> QED
    BY <1>1, <1>2, <1>3, <1>4 DEF Inv

LEMMA InvNext == Inv /\ [Next]_vars => Inv'
  BY CountsNext, MachineNext, PicturesNext, ScreenNext, LiftNext DEF Inv

LEMMA InvAlways == Spec => []Inv
  BY InvInit, InvNext, PTL DEF Spec

\* Every variable has its type.
THEOREM TypeCorrect == Spec => []TypeOK
  <1>1. Inv => TypeOK
    BY DEF Inv, MachineInv, TypeOK
  <1> QED
    BY <1>1, InvAlways, PTL

\* A tile that is not marked dirty shows what telemetry and the press say.
THEOREM ScreenAlwaysConsistent == Spec => []ScreenConsistent
  <1>1. Inv => ScreenConsistent
    BY DEF Inv
  <1> QED
    BY <1>1, InvAlways, PTL

\* A key the host sees down is never forgotten.
THEOREM KeyAlwaysTracked == Spec => []KeyTracked
  <1>1. Inv => KeyTracked
    BY DEF Inv, MachineInv, KeyInv
  <1> QED
    BY <1>1, InvAlways, PTL

\* A touch is accepted only after the finger was lifted since the last one.
THEOREM NeverAutoRepeats == Spec => NoAutoRepeat
  <1>1. Inv => (armed => lifted)
    BY DEF Inv, LiftInv
  <1>2. Inv => [armed /\ ~armed' => lifted]_vars
    BY <1>1
  <1> QED
    BY <1>2, InvAlways, PTL DEF NoAutoRepeat

\* Every step is a step, or a stutter, of a keyboard that types each touch once.
THEOREM AlwaysTypesOnce == Spec => TypesOnce
  <1>1. Init => Presses!Init
    BY DEF Init, Presses!Init, Owed
  <1>2. Inv /\ [Next]_vars => [Presses!Next]_(Presses!keyVars)
    <2> SUFFICES ASSUME Inv, [Next]_vars
                 PROVE  Presses!Next \/ UNCHANGED <<Owed, hostKey>>
      BY DEF Presses!keyVars
    <2> USE TileFacts DEF Inv, MachineInv, ServeInv, KeyInv, KeyTracked, Owed
    <2>1. CASE UsbGone
      BY <2>1 DEF UsbGone, pressVars, Presses!Next, Presses!Unplug
    <2>2. CASE HostFetch
      BY <2>2 DEF HostFetch, pressVars, Presses!Next, Presses!Type,
        Presses!Release
    <2>3. ASSUME NEW t \in Tiles \cup {NoTile}, PollAccept(t)
          PROVE  Presses!Next
      BY <2>3 DEF PollAccept, usbVars, Presses!Next, Presses!Accept
    <2>4. CASE KeyGoesDown
      BY <2>4 DEF KeyGoesDown, HidReady, Send
    <2>5. CASE KeyGoesUp
      BY <2>5 DEF KeyGoesUp, KeyUpDue, HidReady, Send
    <2>6. CASE Rearm
      BY <2>6 DEF Rearm, usbVars
    <2>7. CASE CancelPress
      BY <2>7 DEF CancelPress, usbVars, Presses!Next, Presses!Cancel
    <2>8. CASE UNCHANGED <<report, busy, hostKey, active, pending>>
      BY <2>8
    <2> QED
      BY <2>1, <2>2, <2>3, <2>4, <2>5, <2>6, <2>7, <2>8, StepCases
      DEF vars, UsbChange, LinkChange, Message, StartupWait, StartupEnd,
          PollNothing, PollCount, PollServing, Boot, CountRelease, KeyWait,
          KeepServing, DrawOne, DrawNone, Sleep, usbVars, pressVars
  <1> QED
    BY <1>1, <1>2, InvAlways, PTL DEF Spec, TypesOnce, Presses!Spec
===============================================================================
