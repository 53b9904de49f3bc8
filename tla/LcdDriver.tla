------------------------------- MODULE LcdDriver -------------------------------
(***************************************************************************)
(* lcd.c of both firmwares: what it puts on the SPI bus that the panel and *)
(* the touch controller share, and the panel's controller at the other end.*)
(*                                                                         *)
(* A transfer is what is written while the panel is selected: the level of *)
(* DC, its bytes and the speed of the bus in MHz; pixels are only counted. *)
(***************************************************************************)
EXTENDS Integers, Sequences, SequencesExt

Width == 480
Height == 320

LcdMHz == 15
InitMHz(firmware) == IF firmware = "display" THEN 5 ELSE 4

Transfer(mhz, dc, data) == [mhz |-> mhz, dc |-> dc, data |-> data, bytes |-> Len(data)]
Pixels(mhz, n) == [mhz |-> mhz, dc |-> 1, data |-> <<>>, bytes |-> n]

\* lcd_write_command: every parameter is a 16-bit word.
WriteCommand(mhz, command, data) ==
  <<Transfer(mhz, 0, <<command>>)>> \o
  [i \in 1 .. Len(data) |-> Transfer(mhz, 1, <<0, data[i]>>)]

\* lcd_read_id: the command and the byte clocked out for its answer.
ReadId(mhz) == <<Transfer(mhz, 0, <<220, 0>>)>>

U16(n) == n % 65536
TwoBytes(n) == <<n \div 256, n % 256>>

\* Seeded bug: the window ends after its last column and row.
SetWindowTooWide(mhz, x, y, w, h) ==
  WriteCommand(mhz, 42, TwoBytes(x) \o TwoBytes(U16(x + w))) \o
  WriteCommand(mhz, 43, TwoBytes(y) \o TwoBytes(U16(y + h))) \o
  WriteCommand(mhz, 44, <<>>)

SetWindow(mhz, x, y, w, h) ==
  WriteCommand(mhz, 42, TwoBytes(x) \o TwoBytes(U16(x + w - 1))) \o
  WriteCommand(mhz, 43, TwoBytes(y) \o TwoBytes(U16(y + h - 1))) \o
  WriteCommand(mhz, 44, <<>>)

\* lcd_blit_rgb565_be
Blit(mhz, x, y, w, h, bytes) ==
  IF w = 0 \/ h = 0 THEN <<>>
  ELSE SetWindow(mhz, x, y, w, h) \o <<Pixels(mhz, bytes)>>

\* lcd_fill: all rows of one colour, in one selection of the panel.
LcdFill(mhz) == SetWindow(mhz, 0, 0, Width, Height) \o <<Pixels(mhz, Height * Width * 2)>>

\* lcd_init: the commands after the reset pulse.  The values of the power,
\* frame rate and gamma registers do not matter here, only how many there are.
Values(n) == [i \in 1 .. n |-> 0]
SetUp(mhz) ==
  ReadId(mhz) \o WriteCommand(mhz, 33, <<>>) \o
  WriteCommand(mhz, 194, Values(1)) \o WriteCommand(mhz, 197, Values(3)) \o
  WriteCommand(mhz, 177, Values(1)) \o
  WriteCommand(mhz, 224, Values(15)) \o WriteCommand(mhz, 225, Values(15)) \o
  WriteCommand(mhz, 58, <<85>>) \o
  WriteCommand(mhz, 17, <<>>) \o WriteCommand(mhz, 41, <<>>) \o
  WriteCommand(mhz, 182, <<0, 98>>) \o WriteCommand(mhz, 54, <<40>>)

\* The Keyboard's lcd.c writes the same, on its own bus.
KeyboardCommand(mhz, command, data) == WriteCommand(mhz, command, data)
KeyboardWindow(mhz, x, y, w, h) == SetWindow(mhz, x, y, w, h)
KeyboardBlit(mhz, x, y, w, h, bytes) ==
  IF w = 0 \/ h = 0 THEN <<>>
  ELSE KeyboardWindow(mhz, x, y, w, h) \o <<Pixels(mhz, bytes)>>
KeyboardFill(mhz) ==
  KeyboardWindow(mhz, 0, 0, Width, Height) \o <<Pixels(mhz, Height * Width * 2)>>
KeyboardSetUp(mhz) ==
  ReadId(mhz) \o KeyboardCommand(mhz, 33, <<>>) \o
  KeyboardCommand(mhz, 194, Values(1)) \o KeyboardCommand(mhz, 197, Values(3)) \o
  KeyboardCommand(mhz, 177, Values(1)) \o
  KeyboardCommand(mhz, 224, Values(15)) \o KeyboardCommand(mhz, 225, Values(15)) \o
  KeyboardCommand(mhz, 58, <<85>>) \o
  KeyboardCommand(mhz, 17, <<>>) \o KeyboardCommand(mhz, 41, <<>>) \o
  KeyboardCommand(mhz, 182, <<0, 98>>) \o KeyboardCommand(mhz, 54, <<40>>)

-------------------------------------------------------------------------------
\* The panel (external): the registers that a picture depends on.

PanelReset ==
  [command |-> 0, params |-> <<>>, columns |-> <<0, 0>>, rows |-> <<0, 0>>,
   format |-> 0, scan |-> 0, awake |-> FALSE, on |-> FALSE, bytes |-> 0,
   garbled |-> FALSE]

\* It is slow until its set-up has ended with the direction of its scan.
FastestMHz(p) == IF p.scan = 0 THEN 5 ELSE LcdMHz

Range16(d) == <<d[1] * 256 + d[2], d[3] * 256 + d[4]>>

TakeCommand(p, c) ==
  [p EXCEPT !.command = c, !.params = <<>>, !.bytes = IF c = 44 THEN 0 ELSE @,
            !.awake = @ \/ c = 17, !.on = @ \/ c = 41]

TakeParameter(p, d) ==
  LET all == Append(p.params, d)
  IN  [p EXCEPT !.params = all,
                !.columns = IF p.command = 42 /\ Len(all) = 4 THEN Range16(all) ELSE @,
                !.rows = IF p.command = 43 /\ Len(all) = 4 THEN Range16(all) ELSE @,
                !.format = IF p.command = 58 THEN d ELSE @,
                !.scan = IF p.command = 54 THEN d ELSE @]

Take(p, t) ==
  IF t.mhz > FastestMHz(p) THEN [p EXCEPT !.garbled = TRUE]
  ELSE IF t.dc = 0 THEN TakeCommand(p, t.data[1])
  ELSE IF p.command = 44 THEN [p EXCEPT !.bytes = @ + t.bytes]
  ELSE TakeParameter(p, t.data[2])

After(p, transfers) ==
  LET seen[i \in 0 .. Len(transfers)] ==
        IF i = 0 THEN p ELSE Take(seen[i - 1], transfers[i])
  IN  seen[Len(transfers)]
===============================================================================
