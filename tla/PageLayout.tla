------------------------------- MODULE PageLayout ------------------------------
(***************************************************************************)
(* What PicoDeck-ED-Display/src/dashboard.c and the Keyboard's ui.c draw   *)
(* where.  A text is its number of characters; the values of a page come   *)
(* from chars, the lengths of the fields of edd_state_t.                   *)
(***************************************************************************)
EXTENDS LcdDriver

StripeHeight == 24
SetupStripeHeight == 12

\* text_width, and value_or_dash before it where a value is shown.
TextWidth(n, scale) == IF n = 0 THEN 0 ELSE (n * 6 - 1) * scale
OrDash(n) == IF n = 0 THEN 1 ELSE n

Rect(x, y, w, h) == [x |-> x, y |-> y, w |-> w, h |-> h]
Text7(x, y, n, scale) == Rect(x, y, TextWidth(n, scale), 7 * scale)

\* A value, shown in w columns from x on and scrolled if it is wider.
ValueArea(x, y, w, field, scale) ==
  [x |-> x, y |-> y, w |-> w, h |-> 7 * scale, field |-> field, scale |-> scale]

\* label_value
LabelValue(x, y, w, field) == ValueArea(x, y + 18, w, field, 2)
LabelText(x, y, n) == Text7(x, y, n, 2)

-------------------------------------------------------------------------------
\* Values of the pages.

OverviewValues ==
  { ValueArea(14, 72, 452, "route_target", 3),
    LabelValue(14, 222, 210, "system"), LabelValue(250, 222, 216, "next_system") }

ShipValues ==
  { ValueArea(12, 55, 456, "ship", 3),
    LabelValue(20, 105, 140, "fuel"), LabelValue(180, 105, 130, "tank_size"),
    LabelValue(330, 105, 136, "jump_range"), LabelValue(20, 170, 140, "cargo"),
    LabelValue(180, 170, 130, "mode"), LabelValue(330, 170, 136, "legal_state") }

SystemValues ==
  { ValueArea(10, 57, 460, "system", 4),
    LabelValue(20, 115, 210, "body"), LabelValue(250, 115, 216, "station"),
    LabelValue(20, 180, 210, "allegiance"), LabelValue(250, 180, 216, "economy"),
    LabelValue(20, 245, 210, "security"), LabelValue(250, 245, 216, "sol_dist") }

InfoValues ==
  { ValueArea(20, 72, 446, "commander", 3),
    LabelValue(20, 125, 210, "game_mode"), LabelValue(250, 125, 216, "mode"),
    LabelValue(20, 190, 210, "credits"), LabelValue(250, 190, 216, "sol_dist"),
    ValueArea(20, 275, 446, "system", 2) }

DiagnosticsValues ==
  { LabelValue(30, 110, 185, "pico"), LabelValue(265, 110, 185, "windows"),
    LabelValue(30, 180, 420, "eddiscovery") }

\* render_stripe
ValuesOf(usb, page) ==
  CASE ~usb -> DiagnosticsValues
    [] usb /\ page = 0 -> OverviewValues
    [] usb /\ page = 1 -> ShipValues
    [] usb /\ page = 2 -> SystemValues
    [] OTHER -> InfoValues

\* Fixed texts and boxes.  Numbers are as long as they can be on this page.
Pill(x, y, w) == Rect(x, y, w, 27)
Centered(y, n, scale) ==
  LET x == (Width - TextWidth(n, scale)) \div 2
  IN  Text7(IF x < 4 THEN 4 ELSE x, y, n, scale)

JumpDigits == 6
StateChars == 11      \* of eddjson_client_state_name
FixedOf(usb, page) ==
  {Rect(0, 0, Width, 39)} \cup
  CASE ~usb ->
         {Centered(62, 11, 3), LabelText(30, 110, 4), LabelText(265, 110, 7),
          LabelText(30, 180, 11), Text7(30, 238, 20, 2), Text7(30, 265, 29, 2),
          Text7(30, 290, 29, 2)}
    [] usb /\ page = 0 ->
         {Text7(14, 52, 11, 2), Centered(110, JumpDigits, 10), Centered(188, 15, 2),
          LabelText(14, 222, 7), LabelText(250, 222, 4), Pill(4, 282, 116),
          Pill(124, 282, 116), Pill(244, 282, 116), Pill(364, 282, 116)}
    [] usb /\ page = 1 ->
         {LabelText(20, 105, 4), LabelText(180, 105, 4), LabelText(330, 105, 5),
          LabelText(20, 170, 5), LabelText(180, 170, 4), LabelText(330, 170, 5),
          Centered(242, 19, 3), Pill(50, 285, 160), Pill(270, 285, 160)}
    [] usb /\ page = 2 ->
         {LabelText(20, 115, 4), LabelText(250, 115, 7), LabelText(20, 180, 10),
          LabelText(250, 180, 7), LabelText(20, 245, 8), LabelText(250, 245, 8)}
    [] OTHER ->
         {Text7(20, 52, 9, 2), LabelText(20, 125, 9), LabelText(250, 125, 12),
          LabelText(20, 190, 7), LabelText(250, 190, 8), Text7(20, 255, 14, 2)}

\* ui_render_startup of the Keyboard, with its longest states.
SetupTexts ==
  {Centered(28, 20, 3), Centered(62, 17, 2), Text7(45, 115, 8, 2), Text7(275, 115, 7, 2),
   Text7(45, 165, 11, 2), Text7(275, 165, 11, 2), Text7(45, 215, 7, 2),
   Text7(275, 215, 11, 2), Text7(45, 265, 11, 2), Text7(275, 265, StateChars, 2)}

-------------------------------------------------------------------------------
\* page_needs_scroll: it lists the values of a page once more.

Checked(page) ==
  CASE page = 0 -> {<<"route_target", 3, 452>>, <<"system", 2, 210>>,
                    <<"next_system", 2, 216>>}
    [] page = 1 -> {<<"ship", 3, 456>>, <<"fuel", 2, 140>>, <<"tank_size", 2, 130>>,
                    <<"jump_range", 2, 136>>, <<"cargo", 2, 140>>, <<"mode", 2, 130>>,
                    <<"legal_state", 2, 136>>}
    [] page = 2 -> {<<"system", 4, 460>>, <<"body", 2, 210>>, <<"station", 2, 216>>,
                    <<"allegiance", 2, 210>>, <<"economy", 2, 216>>,
                    <<"security", 2, 210>>, <<"sol_dist", 2, 216>>}
    [] OTHER -> {<<"commander", 3, 446>>, <<"game_mode", 2, 210>>, <<"mode", 2, 216>>,
                 <<"credits", 2, 210>>, <<"sol_dist", 2, 216>>, <<"system", 2, 446>>}

\* too_wide
TooWide(n, scale, w) == TextWidth(OrDash(n), scale) > w

PageNeedsScroll(usb, page, chars) ==
  usb /\ \E c \in Checked(page) : TooWide(chars[c[1]], c[2], c[3])

-------------------------------------------------------------------------------
\* A text that is too wide rests, moves to its end, rests and moves back.

HoldMs == 900
PixelMs == 35

\* Seeded bug: the second rest is left out of the cycle.
ScrollOffsetShortCycle(over, ms) ==
  LET travel == over * PixelMs
      phase == ms % (HoldMs + 2 * travel)
  IN  CASE phase < HoldMs -> 0
        [] phase >= HoldMs /\ phase < HoldMs + travel -> (phase - HoldMs) \div PixelMs
        [] phase >= HoldMs + travel /\ phase < 2 * HoldMs + travel -> over
        [] OTHER -> over - (phase - 2 * HoldMs - travel) \div PixelMs

\* scroll_offset, of a text with columns beyond its area.
ScrollOffset(over, ms) ==
  LET travel == over * PixelMs
      phase == ms % (2 * (HoldMs + travel))
  IN  CASE phase < HoldMs -> 0
        [] phase >= HoldMs /\ phase < HoldMs + travel -> (phase - HoldMs) \div PixelMs
        [] phase >= HoldMs + travel /\ phase < 2 * HoldMs + travel -> over
        [] OTHER -> over - (phase - 2 * HoldMs - travel) \div PixelMs

Overflow(area, n) == TextWidth(OrDash(n), area.scale) - area.w

\* The columns of a value that value_area and text_at_clipped draw.
ShownColumns(area, n, ms) ==
  LET over == Overflow(area, n)
      left == IF over > 0 THEN ScrollOffset(over, ms) ELSE 0
  IN  {i \in 0 .. TextWidth(OrDash(n), area.scale) - 1 : i - left \in 0 .. area.w - 1}

-------------------------------------------------------------------------------
\* pixel, rect: a stripe shows the rows of a rectangle that lie in it, in the
\* buffer of one stripe.

RowsIn(stripe, height, y, h) ==
  {r \in y .. y + h - 1 : r >= stripe /\ r < stripe + height /\ r < Height}
PixelOffset(stripe, x, y) == ((y - stripe) * Width + x) * 2

-------------------------------------------------------------------------------
\* Tiles of the Keyboard: the characters of both labels (buttons.c).

Labels ==
  <<<<4, 4>>, <<5, 2>>, <<3, 4>>, <<0, 6>>, <<0, 6>>, <<5, 6>>,
    <<4, 3>>, <<4, 5>>, <<0, 6>>, <<4, 6>>, <<6, 6>>, <<3, 4>>,
    <<6, 5>>, <<6, 5>>, <<6, 5>>, <<3, 5>>, <<5, 5>>, <<5, 5>>,
    <<6, 5>>, <<5, 5>>, <<4, 5>>, <<6, 5>>, <<6, 3>>, <<6, 3>>>>

TileText(y, n) == Rect((80 - (n * 12 - 2)) \div 2, y, n * 12 - 2, 14)

\* draw_icon, and the one or two labels of ui_render_button.
TileParts(index) ==
  LET top == Labels[index + 1][1]
      bottom == Labels[index + 1][2]
  IN  {Rect(12, 2, 56, 44)} \cup
      (IF top # 0 /\ bottom # 0 THEN {TileText(49, top), TileText(64, bottom)}
       ELSE {TileText(57, IF top # 0 THEN top ELSE bottom)})

Inside(a, w, h) == a.x >= 0 /\ a.y >= 0 /\ a.x + a.w <= w /\ a.y + a.h <= h
Apart(a, b) ==
  \/ a.x + a.w <= b.x \/ b.x + b.w <= a.x
  \/ a.y + a.h <= b.y \/ b.y + b.h <= a.y
===============================================================================
