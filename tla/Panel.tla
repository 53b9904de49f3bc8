--------------------------------- MODULE Panel ---------------------------------
(***************************************************************************)
(* The screens: the Display's frame of stripes, and the Keyboard's         *)
(* start-up screen, its tiles and the touch controller on the same bus.    *)
(*                                                                         *)
(* Both programs are sequential; an action is one call of lcd.c, ui.c or   *)
(* touch.c, or one stripe.  When frames are redrawn and tiles repainted is *)
(* in Display and Keyboard; here it is what such a drawing puts on the     *)
(* glass, and what a poll makes of the samples.                            *)
(***************************************************************************)
EXTENDS PageLayout, TouchFilter

CONSTANTS
  Lengths,   \* numbers of characters one field of a page may have
  Fingers,   \* <<raw x, raw y>> where the glass may be pressed
  Noise      \* by how much a sample of a steady finger differs, at most

\* A sample has 12 bits; two samples of a steady finger differ by no more than
\* TOUCH_PAIR_MAX_DELTA.
ASSUME PanelAssumption ==
  /\ Lengths \subseteq Nat
  /\ Noise \in 0 .. 25
  /\ Fingers \subseteq (Noise .. 4095 - Noise) \X (Noise .. 4095 - Noise)

VARIABLES
  firmware,  \* the board
  step,      \* where its main is
  lcdMHz,    \* s_lcd_baud_hz
  panel,     \* the controller
  target,    \* what the last call was to draw, and the buffer it drew from
  stripes,   \* s_stripe_y or setup_stripe_y of the stripes of this frame
  shown,     \* connection, page and the field whose length is chosen
  touched,   \* what the last poll returned
  fingers    \* history: where the glass was pressed during that poll

panelVars == <<firmware, step, lcdMHz, panel, target, stripes, shown,
               touched, fingers>>

NoTarget == [area |-> Rect(0, 0, 0, 0), buffer |-> 0]
Target(area, buffer) == [area |-> area, buffer |-> buffer]

Fields == {a.field : a \in OverviewValues \cup ShipValues \cup SystemValues
                            \cup InfoValues \cup DiagnosticsValues}
ShortText == 4
Chars == [f \in Fields |-> IF f = shown.field THEN shown.chars ELSE ShortText]

Tile(index) == Rect((index % Columns) * TileWidth, (index \div Columns) * TileHeight,
                    TileWidth, TileHeight)
TileBuffer == TileWidth * TileHeight * 2
StripeBuffer == Width * StripeHeight * 2

-------------------------------------------------------------------------------
\* Start.

\* lcd_init: slow while the controller is set up.
LcdInit ==
  /\ step = "reset" /\ step' = "fill"
  /\ panel' = After(PanelReset, IF firmware = "display" THEN SetUp(InitMHz(firmware))
                                ELSE KeyboardSetUp(InitMHz(firmware)))
  /\ lcdMHz' = LcdMHz
  /\ UNCHANGED <<firmware, target, stripes, shown, touched, fingers>>

\* lcd_fill in main, and ui_init.
Fill ==
  /\ step = "fill" /\ step' = "frame"
  /\ panel' = After(panel, IF firmware = "display" THEN LcdFill(lcdMHz)
                           ELSE KeyboardFill(lcdMHz))
  /\ target' = Target(Rect(0, 0, Width, Height), Width * Height * 2)
  /\ UNCHANGED <<firmware, lcdMHz, stripes, shown, touched, fingers>>

-------------------------------------------------------------------------------
\* Frames of stripes.

\* A new frame, of whatever there is to show.
StartFrame ==
  /\ step = "frame" /\ step' = "stripes" /\ stripes' = <<>>
  /\ \E u \in BOOLEAN, p \in 0 .. 3, f \in Fields, n \in Lengths :
       /\ firmware = "keyboard" => ~u /\ p = 0 /\ f = "system" /\ n = ShortText
       /\ f \in {a.field : a \in ValuesOf(u, p)} \/ firmware = "keyboard"
       /\ shown' = [usb |-> u, page |-> p, field |-> f, chars |-> n]
  /\ UNCHANGED <<firmware, lcdMHz, panel, target, touched, fingers>>

StripeOf == IF firmware = "display" THEN StripeHeight ELSE SetupStripeHeight

StripeRows(y) == IF Height - y > StripeOf THEN StripeOf ELSE Height - y

\* dashboard_task's call of the driver, and the loop of ui_render_startup.
Stripe ==
  LET y == IF stripes = <<>> THEN 0
           ELSE Last(stripes) + IF firmware = "display" THEN StripeRows(Last(stripes))
                                ELSE SetupStripeHeight
      h == StripeRows(y)
  IN  /\ step = "stripes"
      /\ panel' = After(panel, IF firmware = "display"
                                 THEN Blit(lcdMHz, 0, y, Width, h, Width * h * 2)
                                 ELSE KeyboardBlit(lcdMHz, 0, y, Width, h, Width * h * 2))
      /\ target' = Target(Rect(0, y, Width, h),
                          IF firmware = "display" THEN StripeBuffer ELSE TileBuffer)
      /\ stripes' = Append(stripes, y)
      /\ step' = IF y + StripeOf < Height THEN "stripes" ELSE "drawn"
      /\ UNCHANGED <<firmware, lcdMHz, shown, touched, fingers>>

\* The next frame, or the tiles once the start-up screen is over.
FrameOver ==
  /\ step = "drawn" /\ step' \in {"frame"} \cup (IF firmware = "keyboard" THEN {"draw"} ELSE {})
  /\ stripes' = <<>>
  /\ UNCHANGED <<firmware, lcdMHz, panel, target, shown, touched, fingers>>

-------------------------------------------------------------------------------
\* Tiles and touch.

\* ui_render_button, by render_keyboard and by render_one_dirty_button.
RenderButton(index) ==
  /\ step = "draw" /\ step' \in {"draw", "poll"}
  /\ panel' = After(panel, KeyboardBlit(lcdMHz, Tile(index).x, Tile(index).y,
                                        TileWidth, TileHeight, TileBuffer))
  /\ target' = Target(Tile(index), TileBuffer)
  /\ touched' = NoTile /\ fingers' = {}
  /\ UNCHANGED <<firmware, lcdMHz, stripes, shown>>

\* Five samples (external): of a steady finger at v, of which at most one is
\* anything at all.
Samples(v) ==
  { <<v, v + Noise, v - Noise, v, v>>, <<0, v - Noise, v, v, v + Noise>>,
    <<v, v, 4095, v + Noise, v>>, <<v - Noise, v, v, 0, v>>,
    <<v + Noise, v + Noise, v, v, 4095>> }

\* touch_poll, with the finger at p for the first reading and at q for the
\* second one; up is whether the pin said so before or after.
TouchPoll(p, q) ==
  /\ step = "poll" /\ step' = "draw"
  /\ \E upBefore, upAfter \in BOOLEAN :
       IF upBefore THEN touched' = NoTile /\ fingers' = {}
       ELSE /\ \E x1 \in Samples(p[1]), y1 \in Samples(p[2]),
                  x2 \in Samples(q[1]), y2 \in Samples(q[2]) :
                 touched' = IF upAfter THEN NoTile
                            ELSE PollResult(Filtered(x1), Filtered(y1),
                                            Filtered(x2), Filtered(y2))
            /\ fingers' = IF upAfter THEN {} ELSE {p, q}
  /\ UNCHANGED <<firmware, lcdMHz, panel, target, stripes, shown>>

-------------------------------------------------------------------------------

PanelInit ==
  /\ firmware \in {"display", "keyboard"} /\ step = "reset"
  /\ lcdMHz = InitMHz(firmware) /\ panel = PanelReset
  /\ target = NoTarget /\ stripes = <<>>
  /\ shown = [usb |-> FALSE, page |-> 0, field |-> "system", chars |-> ShortText]
  /\ touched = NoTile /\ fingers = {}

PanelNext ==
  \/ LcdInit \/ Fill \/ StartFrame \/ Stripe \/ FrameOver
  \/ \E index \in 0 .. ButtonCount - 1 : RenderButton(index)
  \/ \E p, q \in Fingers : TouchPoll(p, q)

PanelSpec == PanelInit /\ [][PanelNext]_panelVars

-------------------------------------------------------------------------------
\* Properties.

\* Whatever was drawn is on the glass, whole and nowhere else: the controller
\* was set up and always written at a speed it takes, its window is the
\* rectangle meant, it got as many pixels as fit in there, all of them from
\* within the buffer; and a tile is where a touch of it is looked for
\* (lcd_blit_rgb565_be, ui_render_button, ui_button_at, both stripe loops).
DrawsWhole ==
  target # NoTarget =>
    LET a == target.area
    IN  /\ panel.on /\ panel.awake /\ ~panel.garbled
        /\ panel.format = 85 /\ panel.scan = 40
        /\ panel.columns = <<a.x, a.x + a.w - 1>> /\ panel.rows = <<a.y, a.y + a.h - 1>>
        /\ Inside(a, Width, Height)
        /\ panel.bytes = 2 * a.w * a.h /\ panel.bytes <= target.buffer
        /\ stripes # <<>> => PixelOffset(a.y, a.w - 1, a.y + a.h - 1) + 2 = panel.bytes
        /\ step \in {"draw", "poll"} /\ stripes = <<>> /\ a.w = TileWidth =>
             Cardinality({ButtonAt(x, y) : x \in {a.x, a.x + a.w - 1},
                                           y \in {a.y, a.y + a.h - 1}}) = 1

ScrollsThrough(v, n) ==
  LET over == Overflow(v, n)
      last == TextWidth(OrDash(n), v.scale) - 1
      half == HoldMs + over * PixelMs
  IN  IF over <= 0 THEN ShownColumns(v, n, 0) = 0 .. last
      ELSE /\ 0 \in ShownColumns(v, n, 0) /\ last \in ShownColumns(v, n, half)
           /\ \A k \in 0 .. (2 * half) \div PixelMs :
                LET here == ScrollOffset(over, k * PixelMs)
                    next == ScrollOffset(over, (k + 1) * PixelMs)
                IN  here \in 0 .. over /\ next - here \in -1 .. 1

\* A finished frame shows its page: its stripes cover the screen, no value,
\* text or box covers another or is cut by a stripe or the edge, and of a value
\* that is too long either end is shown in turn, the text moving by at most one
\* pixel each 35 ms, for which page_needs_scroll has to ask for redraws.
FrameShowsPage ==
  step = "drawn" =>
    /\ \A i \in 1 .. Len(stripes) - 1 : stripes[i + 1] = stripes[i] + StripeRows(stripes[i])
    /\ Last(stripes) + StripeRows(Last(stripes)) = Height
    /\ firmware = "display" =>
         LET values == ValuesOf(shown.usb, shown.page)
             areas == {Rect(v.x, v.y, v.w, v.h) : v \in values}
                        \cup FixedOf(shown.usb, shown.page)
         IN  /\ \A a, b \in areas : a # b => Apart(a, b)
             /\ \A a \in areas :
                  /\ Inside(a, Width, Height)
                  /\ UNION {RowsIn(stripes[i], StripeHeight, a.y, a.h) : i \in DOMAIN stripes}
                       = a.y .. a.y + a.h - 1
             /\ shown.usb =>
                  PageNeedsScroll(shown.usb, shown.page, Chars)
                    = (\E v \in values : Overflow(v, Chars[v.field]) > 0)
             /\ \A v \in values : ScrollsThrough(v, Chars[v.field])
    /\ firmware = "keyboard" =>
         /\ \A index \in 0 .. ButtonCount - 1 :
              /\ \A a \in TileParts(index) : Inside(a, TileWidth, TileHeight)
              /\ \A a, b \in TileParts(index) : a # b => Apart(a, b)
         /\ \A a, b \in SetupTexts : a # b => Apart(a, b)
         /\ \A a \in SetupTexts :
              /\ Inside(a, Width, Height)
              /\ UNION {RowsIn(stripes[i], SetupStripeHeight, a.y, a.h) : i \in DOMAIN stripes}
                   = a.y .. a.y + a.h - 1

Between(s, v) == \E a, b \in s : a <= v /\ v <= b

\* A poll returns the tile under the finger, or one it passed between the two
\* readings, though one of any five samples may be anything; and it returns
\* one if the finger rested on the glass (touch_read_filtered).
OneSpikeIsHarmless ==
  LET near(axis) == {f[axis] - Noise : f \in fingers} \cup {f[axis] + Noise : f \in fingers}
      columns == {ScreenX(raw) \div TileWidth : raw \in near(2)}
      rows == {ScreenY(raw) \div TileHeight : raw \in near(1)}
  IN  /\ touched # NoTile => /\ Between(columns, touched % Columns)
                             /\ Between(rows, touched \div Columns)
      /\ Cardinality(fingers) = 1 /\ (\A axis \in {1, 2} : \A raw \in near(axis) : InRange(raw))
           => touched # NoTile
===============================================================================
