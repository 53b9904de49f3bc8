------------------------------ MODULE TouchFilter ------------------------------
(***************************************************************************)
(* PicoDeck-ED-Keyboard/src/touch.c and ui_button_at: from the samples of  *)
(* the touch controller to a tile.                                         *)
(***************************************************************************)
EXTENDS LcdDriver

Columns == 6
Rows == 4
TileWidth == Width \div Columns
TileHeight == Height \div Rows
ButtonCount == 24
NoTile == -1

\* sort_samples: entry i goes to the place before the larger ones of the sorted
\* entries in front of it, which move up by one.
Insert(values, i) ==
  LET value == values[i]
      place == CHOOSE j \in 1 .. i : /\ \A k \in j .. i - 1 : values[k] > value
                                     /\ j > 1 => values[j - 1] <= value
  IN  [k \in DOMAIN values |-> CASE k = place -> value
                                 [] k \in place + 1 .. i -> values[k - 1]
                                 [] OTHER -> values[k]]
Sorted(values) == Insert(Insert(Insert(Insert(values, 2), 3), 4), 5)

\* Seeded bug: the samples are averaged in the order they came.
FilteredUnsorted(samples) == (samples[2] + samples[3] + samples[4]) \div 3

\* touch_read_filtered: without the smallest and the largest of five.
Filtered(samples) ==
  LET s == Sorted(samples) IN (s[2] + s[3] + s[4]) \div 3

\* touch_read_stable_pair, on one axis.
Distance(a, b) == IF a > b THEN a - b ELSE b - a
Stable(a, b) == Distance(a, b) <= 50

InRange(raw) == raw \in 100 .. 4000

Clamped(n, size) == IF n < 0 THEN 0 ELSE IF n >= size THEN size - 1 ELSE n

\* The arithmetic shift by 16 rounds down, as \div does.
ScreenX(rawY) == Width - 1 - Clamped(517 + ((-8709 * rawY) \div 65536), Width)
ScreenY(rawX) == Height - 1 - Clamped(-20 + ((5765 * rawX) \div 65536), Height)

ButtonAt(x, y) ==
  IF x >= Width \/ y >= Height THEN NoTile
  ELSE LET index == (y \div TileHeight) * Columns + x \div TileWidth
       IN  IF index < ButtonCount THEN index ELSE NoTile

\* touch_poll between the two readings of its interrupt pin, then
\* ui_button_at, as the main loop calls them.
PollResult(x1, y1, x2, y2) ==
  LET rawX == (x1 + x2) \div 2
      rawY == (y1 + y2) \div 2
  IN  IF Stable(x1, x2) /\ Stable(y1, y2) /\ InRange(rawX) /\ InRange(rawY)
        THEN ButtonAt(ScreenX(rawY), ScreenY(rawX))
        ELSE NoTile
===============================================================================
