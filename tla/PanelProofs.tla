------------------------------ MODULE PanelProofs ------------------------------
(***************************************************************************)
(* Theorems about Panel and the arithmetic of PageLayout and TouchFilter,  *)
(* for every length of a text, every place of the finger and every noise   *)
(* of its samples.                                                         *)
(*                                                                         *)
(* BoardInv is about the board: StripesInv says where the stripes of a     *)
(* frame are and GlassInv that what was drawn last is on the panel, which  *)
(* was set up before.  ShownInv is about what a frame may be of.  The      *)
(* property of a poll, OneSpikeIsHarmless, is inductive by itself.         *)
(***************************************************************************)
EXTENDS Panel, LcdDriverProofs, FiniteSetTheorems

TileIndices == 0 .. ButtonCount - 1

-------------------------------------------------------------------------------
\* Touch.

\* A coordinate is forced onto the screen.
LEMMA ClampedRange ==
  ASSUME NEW n \in Int, NEW size \in Nat \ {0}
  PROVE  Clamped(n, size) \in 0 .. size - 1
BY DEF Clamped

\* Either axis of a reading is a place on the screen.
LEMMA ScreenRange ==
  ASSUME NEW raw \in Int
  PROVE  ScreenX(raw) \in 0 .. Width - 1 /\ ScreenY(raw) \in 0 .. Height - 1
<1>1. PICK a \in Int : a = 517 + ((-8709 * raw) \div 65536)
  OBVIOUS
<1>2. PICK b \in Int : b = -20 + ((5765 * raw) \div 65536)
  OBVIOUS
<1>3. Width \in Nat \ {0} /\ Height \in Nat \ {0}
  BY DEF Width, Height
<1>4. Clamped(a, Width) \in 0 .. Width - 1 /\ Clamped(b, Height) \in 0 .. Height - 1
  BY <1>3, ClampedRange
<1>5. ScreenX(raw) = Width - 1 - Clamped(a, Width)
      /\ ScreenY(raw) = Height - 1 - Clamped(b, Height)
  BY <1>1, <1>2 DEF ScreenX, ScreenY
<1>. QED
  BY <1>3, <1>4, <1>5

\* A place on the screen belongs to a tile.
LEMMA PlaceHasTile ==
  ASSUME NEW x \in 0 .. Width - 1, NEW y \in 0 .. Height - 1
  PROVE  /\ ButtonAt(x, y) \in TileIndices
         /\ ButtonAt(x, y) = (y \div 80) * 6 + x \div 80
BY DEF ButtonAt, TileIndices, ButtonCount, Width, Height, TileWidth, TileHeight,
       Columns, Rows

\* A poll that finds two readings stable and in range finds one of the tiles,
\* whatever they are: no reading falls between two tiles or beside them all
\* (touch_poll, ui_button_at).
THEOREM StableTouchHasTile ==
  ASSUME NEW x1 \in Nat, NEW y1 \in Nat, NEW x2 \in Nat, NEW y2 \in Nat,
         Stable(x1, x2), Stable(y1, y2),
         InRange((x1 + x2) \div 2), InRange((y1 + y2) \div 2)
  PROVE  PollResult(x1, y1, x2, y2) \in TileIndices
<1>1. (x1 + x2) \div 2 \in Int /\ (y1 + y2) \div 2 \in Int
  OBVIOUS
<1>2. ButtonAt(ScreenX((y1 + y2) \div 2), ScreenY((x1 + x2) \div 2)) \in TileIndices
  BY <1>1, ScreenRange, PlaceHasTile
<1>. QED
  BY <1>2 DEF PollResult

\* A touch of any pixel of a tile, as ui_render_button places it, finds this
\* tile in ui_button_at.
THEOREM TileFoundWhereDrawn ==
  ASSUME NEW index \in TileIndices,
         NEW x \in (index % 6) * 80 .. (index % 6) * 80 + 79,
         NEW y \in (index \div 6) * 80 .. (index \div 6) * 80 + 79
  PROVE  ButtonAt(x, y) = index
<1>1. PICK column \in 0 .. 5, row \in 0 .. 3 : index = row * 6 + column
  BY DEF TileIndices, ButtonCount
<1>2. index % 6 = column /\ index \div 6 = row
  BY <1>1
<1>3. x \in column * 80 .. column * 80 + 79 /\ y \in row * 80 .. row * 80 + 79
  BY <1>2
<1>4. x \in 0 .. Width - 1 /\ y \in 0 .. Height - 1
  BY <1>3 DEF Width, Height
<1>5. x \div 80 = column /\ y \div 80 = row
  BY <1>3
<1>. QED
  BY <1>1, <1>4, <1>5, PlaceHasTile

\* Five samples, in order up to place i, and within lo .. hi except for one.
FiveSamples == [1 .. 5 -> Int]
InOrder(v, i) == \A a, b \in 1 .. i : a < b => v[a] <= v[b]
AllButOne(v, lo, hi) == \E j \in 1 .. 5 : \A k \in 1 .. 5 \ {j} : v[k] \in lo .. hi

\* A place for entry i exists: the one after the last entry not larger than it.
LEMMA PlaceExists ==
  ASSUME NEW v \in FiveSamples, NEW i \in 2 .. 5, InOrder(v, i - 1)
  PROVE  \E j \in 1 .. i : /\ \A k \in j .. i - 1 : v[k] > v[i]
                           /\ j > 1 => v[j - 1] <= v[i]
<1> USE DEF FiveSamples, InOrder
<1>1. \A k \in 1 .. 5 : v[k] \in Int
  OBVIOUS
<1>2. CASE \A k \in 1 .. i - 1 : v[k] > v[i]
  BY <1>2
<1>3. CASE v[i - 1] <= v[i]
  BY <1>3
<1>4. CASE i > 2 /\ v[i - 1] > v[i] /\ v[i - 2] <= v[i]
  BY <1>4
<1>5. CASE i > 3 /\ v[i - 1] > v[i] /\ v[i - 2] > v[i] /\ v[i - 3] <= v[i]
  BY <1>5
<1>6. CASE i > 4 /\ v[i - 1] > v[i] /\ v[i - 2] > v[i] /\ v[i - 3] > v[i] /\ v[i - 4] <= v[i]
  BY <1>6
<1>. QED
  BY <1>1, <1>2, <1>3, <1>4, <1>5, <1>6

\* Where the entries of the samples come from when entry i is put into place.
LEMMA InsertMoves ==
  ASSUME NEW v \in FiveSamples, NEW i \in 2 .. 5, InOrder(v, i - 1)
  PROVE  \E j \in 1 .. i :
           /\ \A k \in j .. i - 1 : v[k] > v[i]
           /\ j > 1 => v[j - 1] <= v[i]
           /\ Insert(v, i) = [k \in 1 .. 5 |-> CASE k = j -> v[i]
                                                 [] k \in j + 1 .. i -> v[k - 1]
                                                 [] OTHER -> v[k]]
<1> DEFINE P(j) == /\ \A k \in j .. i - 1 : v[k] > v[i]
                   /\ j > 1 => v[j - 1] <= v[i]
           place == CHOOSE j \in 1 .. i : P(j)
<1>1. \E j \in 1 .. i : P(j)
  BY PlaceExists
<1>2. place \in 1 .. i /\ P(place)
  <2> HIDE DEF P
  <2>. QED
    BY <1>1
<1>3. DOMAIN v = 1 .. 5
  BY DEF FiveSamples
<1>4. Insert(v, i) = [k \in 1 .. 5 |-> CASE k = place -> v[i]
                                         [] k \in place + 1 .. i -> v[k - 1]
                                         [] OTHER -> v[k]]
  BY <1>3 DEF Insert
<1> HIDE DEF place
<1>. QED
  BY <1>2, <1>4

\* Putting an entry into place leaves one more in order, and loses no sample.
LEMMA InsertOrders ==
  ASSUME NEW v \in FiveSamples, NEW i \in 2 .. 5, InOrder(v, i - 1),
         NEW lo \in Int, NEW hi \in Int, AllButOne(v, lo, hi)
  PROVE  /\ Insert(v, i) \in FiveSamples
         /\ InOrder(Insert(v, i), i)
         /\ AllButOne(Insert(v, i), lo, hi)
<1>1. PICK j \in 1 .. i :
        /\ \A k \in j .. i - 1 : v[k] > v[i]
        /\ j > 1 => v[j - 1] <= v[i]
        /\ Insert(v, i) = [k \in 1 .. 5 |-> CASE k = j -> v[i]
                                              [] k \in j + 1 .. i -> v[k - 1]
                                              [] OTHER -> v[k]]
  BY InsertMoves
<1> DEFINE w == Insert(v, i)
<1>2. \A k \in 1 .. 5 : v[k] \in Int
  BY DEF FiveSamples
<1>3. /\ w[j] = v[i]
      /\ \A k \in j + 1 .. i : w[k] = v[k - 1]
      /\ \A k \in 1 .. 5 : k < j \/ k > i => w[k] = v[k]
  BY <1>1
<1>4. w \in FiveSamples
  <2>1. \A k \in 1 .. 5 : w[k] \in Int
    BY <1>2, <1>3
  <2>. QED
    BY <1>1, <2>1 DEF FiveSamples
<1>5. ASSUME NEW a \in 1 .. i, NEW b \in 1 .. i, a < b
      PROVE  w[a] <= w[b]
  <2>0. \A c, d \in 1 .. i - 1 : c < d => v[c] <= v[d]
    BY DEF InOrder
  <2>1. CASE b < j
    BY <1>2, <1>3, <1>5, <2>0, <2>1
  <2>2. CASE b = j
    <3>1. w[a] = v[a] /\ w[b] = v[i] /\ v[j - 1] <= v[i]
      BY <1>1, <1>3, <1>5, <2>2
    <3>2. v[a] <= v[j - 1]
      <4>1. a = j - 1 \/ a < j - 1
        BY <1>5, <2>2
      <4>. QED
        BY <1>2, <1>5, <2>0, <2>2, <4>1
    <3>. QED
      BY <1>2, <1>5, <2>2, <3>1, <3>2
  <2>3. CASE b > j
    <3>1. w[b] = v[b - 1] /\ b - 1 \in j .. i - 1
      BY <1>3, <1>5, <2>3
    <3>2. CASE a < j
      <4>1. w[a] = v[a] /\ a < b - 1
        BY <1>3, <1>5, <2>3, <3>2
      <4>. QED
        BY <1>5, <2>0, <3>1, <4>1
    <3>3. CASE a = j
      <4>1. w[a] = v[i] /\ v[b - 1] > v[i]
        BY <1>1, <1>3, <3>1, <3>3
      <4>. QED
        BY <1>2, <3>1, <4>1
    <3>4. CASE a > j
      <4>1. w[a] = v[a - 1] /\ a - 1 < b - 1
        BY <1>3, <1>5, <3>4
      <4>. QED
        BY <1>5, <2>0, <3>1, <3>4, <4>1
    <3>. QED
      BY <3>2, <3>3, <3>4
  <2>. QED
    BY <2>1, <2>2, <2>3
<1>6. AllButOne(w, lo, hi)
  <2>1. PICK s \in 1 .. 5 : \A k \in 1 .. 5 \ {s} : v[k] \in lo .. hi
    BY DEF AllButOne
  <2>2. CASE s = i
    <3>1. \A k \in 1 .. 5 \ {j} : w[k] \in lo .. hi
      BY <1>3, <2>1, <2>2
    <3>. QED
      BY <3>1 DEF AllButOne
  <2>3. CASE s \in j .. i - 1
    <3>1. \A k \in 1 .. 5 \ {s + 1} : w[k] \in lo .. hi
      BY <1>3, <2>1, <2>3
    <3>. QED
      BY <2>3, <3>1 DEF AllButOne
  <2>4. CASE s < j \/ s > i
    <3>1. \A k \in 1 .. 5 \ {s} : w[k] \in lo .. hi
      BY <1>3, <2>1, <2>4
    <3>. QED
      BY <3>1 DEF AllButOne
  <2>. QED
    BY <2>2, <2>3, <2>4
<1>. QED
  BY <1>4, <1>5, <1>6 DEF InOrder

\* Of five samples in order, the middle three are within the range of all but one.
LEMMA MiddleThree ==
  ASSUME NEW s \in FiveSamples, InOrder(s, 5), NEW lo \in Int, NEW hi \in Int,
         AllButOne(s, lo, hi)
  PROVE  s[2] \in lo .. hi /\ s[3] \in lo .. hi /\ s[4] \in lo .. hi
<1>1. PICK j \in 1 .. 5 : \A k \in 1 .. 5 \ {j} : s[k] \in lo .. hi
  BY DEF AllButOne
<1>2. /\ s[1] \in Int /\ s[2] \in Int /\ s[3] \in Int /\ s[4] \in Int /\ s[5] \in Int
      /\ s[1] <= s[2] /\ s[2] <= s[3] /\ s[3] <= s[4] /\ s[4] <= s[5]
  BY DEF FiveSamples, InOrder
<1>3. CASE j = 2
  BY <1>1, <1>2, <1>3
<1>4. CASE j = 3
  BY <1>1, <1>2, <1>4
<1>5. CASE j = 4
  BY <1>1, <1>2, <1>5
<1>6. CASE j \in {1, 5}
  BY <1>1, <1>6
<1>. QED
  BY <1>3, <1>4, <1>5, <1>6

\* Whatever one of five samples is, the value that touch_read_filtered makes of
\* them is within the range of the other four (touch_read_filtered, sort_samples).
THEOREM SpikeIsFiltered ==
  ASSUME NEW samples \in FiveSamples, NEW lo \in Int, NEW hi \in Int,
         AllButOne(samples, lo, hi)
  PROVE  Filtered(samples) \in lo .. hi
<1> DEFINE v2 == Insert(samples, 2)
           v3 == Insert(v2, 3)
           v4 == Insert(v3, 4)
           v5 == Insert(v4, 5)
<1> HIDE DEF v2, v3, v4, v5
<1>1. InOrder(samples, 2 - 1)
  BY DEF InOrder
<1>2. v2 \in FiveSamples /\ InOrder(v2, 3 - 1) /\ AllButOne(v2, lo, hi)
  BY <1>1, InsertOrders DEF v2
<1>3. v3 \in FiveSamples /\ InOrder(v3, 4 - 1) /\ AllButOne(v3, lo, hi)
  BY <1>2, InsertOrders DEF v3
<1>4. v4 \in FiveSamples /\ InOrder(v4, 5 - 1) /\ AllButOne(v4, lo, hi)
  BY <1>3, InsertOrders DEF v4
<1>5. v5 \in FiveSamples /\ InOrder(v5, 5) /\ AllButOne(v5, lo, hi)
  BY <1>4, InsertOrders DEF v5
<1>6. v5[2] \in lo .. hi /\ v5[3] \in lo .. hi /\ v5[4] \in lo .. hi
  BY <1>5, MiddleThree
<1>7. (v5[2] + v5[3] + v5[4]) \div 3 \in lo .. hi
  BY <1>6
<1>8. Sorted(samples) = v5
  BY DEF Sorted, v2, v3, v4, v5
<1>. QED
  BY <1>7, <1>8 DEF Filtered

LEMMA OneOfTwo ==
  ASSUME NEW a, NEW b, NEW S, S = {a, b}, Cardinality(S) = 1
  PROVE  a = b
<1>1. IsFiniteSet({a}) /\ IsFiniteSet({b})
  BY FS_Singleton, Zenon
<1>2. IsFiniteSet({a} \cup {b})
  BY <1>1, FS_Union, Zenon
<1>3. {a} \cup {b} = S
  OBVIOUS
<1>4. \E x : S = {x}
  BY <1>2, <1>3, FS_Singleton
<1>. QED
  BY <1>4

\* The samples of a steady finger have at most one that is not near it.
LEMMA SamplesSpike ==
  ASSUME NEW v \in Int, NEW s \in Samples(v), Noise \in 0 .. 25
  PROVE  s \in FiveSamples /\ AllButOne(s, v - Noise, v + Noise)
<1>1. s \in FiveSamples
  BY DEF Samples, FiveSamples
<1>2. CASE s = <<v, v + Noise, v - Noise, v, v>>
  <2>1. \A k \in 1 .. 5 \ {1} : s[k] \in v - Noise .. v + Noise
    BY <1>2
  <2>. QED
    BY <1>1, <2>1 DEF AllButOne
<1>3. CASE s = <<0, v - Noise, v, v, v + Noise>>
  <2>1. \A k \in 1 .. 5 \ {1} : s[k] \in v - Noise .. v + Noise
    BY <1>3
  <2>. QED
    BY <1>1, <2>1 DEF AllButOne
<1>4. CASE s = <<v, v, 4095, v + Noise, v>>
  <2>1. \A k \in 1 .. 5 \ {3} : s[k] \in v - Noise .. v + Noise
    BY <1>4
  <2>. QED
    BY <1>1, <2>1 DEF AllButOne
<1>5. CASE s = <<v - Noise, v, v, 0, v>>
  <2>1. \A k \in 1 .. 5 \ {4} : s[k] \in v - Noise .. v + Noise
    BY <1>5
  <2>. QED
    BY <1>1, <2>1 DEF AllButOne
<1>6. CASE s = <<v + Noise, v + Noise, v, v, 4095>>
  <2>1. \A k \in 1 .. 5 \ {5} : s[k] \in v - Noise .. v + Noise
    BY <1>6
  <2>. QED
    BY <1>1, <2>1 DEF AllButOne
<1>. QED
  BY <1>1, <1>2, <1>3, <1>4, <1>5, <1>6 DEF Samples

\* Either axis of the screen runs against the axis of the controller, or along
\* it, without a jump back.
LEMMA ClampedMonotone ==
  ASSUME NEW m \in Int, NEW n \in Int, m <= n, NEW size \in Nat \ {0}
  PROVE  Clamped(m, size) <= Clamped(n, size)
BY DEF Clamped

LEMMA ScreenMonotone ==
  ASSUME NEW a \in Int, NEW b \in Int, a <= b
  PROVE  ScreenX(a) <= ScreenX(b) /\ ScreenY(b) <= ScreenY(a)
<1>1. PICK xa \in Int, xb \in Int :
        /\ xa = 517 + ((-8709 * a) \div 65536) /\ xb = 517 + ((-8709 * b) \div 65536)
        /\ xb <= xa
  OBVIOUS
<1>2. PICK ya \in Int, yb \in Int :
        /\ ya = -20 + ((5765 * a) \div 65536) /\ yb = -20 + ((5765 * b) \div 65536)
        /\ ya <= yb
  OBVIOUS
<1>3. Width \in Nat \ {0} /\ Height \in Nat \ {0}
  BY DEF Width, Height
<1>4. Clamped(xb, Width) <= Clamped(xa, Width) /\ Clamped(ya, Height) <= Clamped(yb, Height)
  BY <1>1, <1>2, <1>3, ClampedMonotone
<1>5. /\ Clamped(xa, Width) \in Int /\ Clamped(xb, Width) \in Int
      /\ Clamped(ya, Height) \in Int /\ Clamped(yb, Height) \in Int
  BY <1>1, <1>2, <1>3, ClampedRange
<1>6. /\ ScreenX(a) = Width - 1 - Clamped(xa, Width)
      /\ ScreenX(b) = Width - 1 - Clamped(xb, Width)
      /\ ScreenY(a) = Height - 1 - Clamped(ya, Height)
      /\ ScreenY(b) = Height - 1 - Clamped(yb, Height)
  BY <1>1, <1>2 DEF ScreenX, ScreenY
<1>. QED
  BY <1>3, <1>4, <1>5, <1>6

\* The column and the row of a raw coordinate.
Column(raw) == ScreenX(raw) \div TileWidth
Row(raw) == ScreenY(raw) \div TileHeight

LEMMA DivMonotone ==
  ASSUME NEW a \in Int, NEW b \in Int, a <= b PROVE a \div 80 <= b \div 80
OBVIOUS

LEMMA TileMonotone ==
  ASSUME NEW a \in Int, NEW b \in Int, a <= b
  PROVE  Column(a) <= Column(b) /\ Row(b) <= Row(a)
<1>1. /\ ScreenX(a) \in 0 .. Width - 1 /\ ScreenX(b) \in 0 .. Width - 1
      /\ ScreenY(a) \in 0 .. Height - 1 /\ ScreenY(b) \in 0 .. Height - 1
  BY ScreenRange
<1>2. ScreenX(a) <= ScreenX(b) /\ ScreenY(b) <= ScreenY(a)
  BY ScreenMonotone
<1>3. TileWidth = 80 /\ TileHeight = 80
  BY DEF TileWidth, TileHeight, Width, Height, Columns, Rows
<1>4. /\ ScreenX(a) \in Int /\ ScreenX(b) \in Int
      /\ ScreenY(a) \in Int /\ ScreenY(b) \in Int
  BY <1>1
<1>5. /\ ScreenX(a) \div 80 <= ScreenX(b) \div 80
      /\ ScreenY(b) \div 80 <= ScreenY(a) \div 80
  BY <1>2, <1>4, DivMonotone
<1>. QED
  BY <1>3, <1>5 DEF Column, Row

\* The tile of a reading is that of its column and its row.
LEMMA TileOfReading ==
  ASSUME NEW rawX \in Int, NEW rawY \in Int
  PROVE  LET t == ButtonAt(ScreenX(rawY), ScreenY(rawX))
         IN  /\ t \in TileIndices /\ t # NoTile
             /\ t % Columns = Column(rawY) /\ t \div Columns = Row(rawX)
<1> DEFINE x == ScreenX(rawY)
           y == ScreenY(rawX)
           t == ButtonAt(x, y)
<1>1. x \in 0 .. Width - 1 /\ y \in 0 .. Height - 1
  BY ScreenRange
<1>2. t \in TileIndices /\ t = (y \div 80) * 6 + x \div 80
  BY <1>1, PlaceHasTile
<1>3. Column(rawY) = x \div 80 /\ Row(rawX) = y \div 80
  BY DEF Column, Row, TileWidth, TileHeight, Width, Height, Columns, Rows
<1> HIDE DEF x, y, t
<1>4. x \div 80 \in 0 .. 5 /\ y \div 80 \in 0 .. 3
  BY <1>1 DEF Width, Height
<1>5. t % 6 = x \div 80 /\ t \div 6 = y \div 80
  BY <1>2, <1>4
<1>6. t # NoTile
  BY <1>2 DEF TileIndices, NoTile
<1>. QED
  BY <1>2, <1>3, <1>5, <1>6 DEF Columns, t, x, y

\* The mean of two readings is between the ends of what is near two fingers.
LEMMA MeanIsBetween ==
  ASSUME NEW p \in Int, NEW q \in Int, NEW noise \in Nat,
         NEW v1 \in p - noise .. p + noise, NEW v2 \in q - noise .. q + noise
  PROVE  /\ (v1 + v2) \div 2 \in Int
         /\ \E lo, hi \in {p, q} :
              lo - noise <= (v1 + v2) \div 2 /\ (v1 + v2) \div 2 <= hi + noise
<1>1. CASE p <= q
  BY <1>1
<1>2. CASE p > q
  BY <1>2
<1>. QED
  BY <1>1, <1>2

\* What a poll with two readings returns.
LEMMA PollIsBetween ==
  ASSUME NEW p \in Fingers, NEW q \in Fingers,
         NEW x1 \in Samples(p[1]), NEW y1 \in Samples(p[2]),
         NEW x2 \in Samples(q[1]), NEW y2 \in Samples(q[2]),
         fingers' = {p, q},
         touched' = PollResult(Filtered(x1), Filtered(y1), Filtered(x2), Filtered(y2))
  PROVE  OneSpikeIsHarmless'
<1>1. Cardinality(fingers') = 1 => p = q
  BY OneOfTwo
<1> DEFINE a1 == Filtered(x1)
           b1 == Filtered(y1)
           a2 == Filtered(x2)
           b2 == Filtered(y2)
           rawX == (a1 + a2) \div 2
           rawY == (b1 + b2) \div 2
           near(axis) == {f[axis] - Noise : f \in {p, q}}
                           \cup {f[axis] + Noise : f \in {p, q}}
           columns == {Column(raw) : raw \in near(2)}
           rows == {Row(raw) : raw \in near(1)}
<1>2. /\ Noise \in 0 .. 25 /\ Noise \in Nat
      /\ p[1] \in Int /\ p[2] \in Int /\ q[1] \in Int /\ q[2] \in Int
  BY PanelAssumption
<1>3. /\ a1 \in p[1] - Noise .. p[1] + Noise /\ a2 \in q[1] - Noise .. q[1] + Noise
      /\ b1 \in p[2] - Noise .. p[2] + Noise /\ b2 \in q[2] - Noise .. q[2] + Noise
  BY <1>2, SamplesSpike, SpikeIsFiltered
<1>4. CASE touched' = NoTile
  <2>1. ASSUME Cardinality(fingers') = 1,
               \A axis \in {1, 2} : \A raw \in near(axis) : InRange(raw)
        PROVE  FALSE
    <3>1. p = q
      BY <1>1, <2>1
    <3>2. /\ InRange(p[1] - Noise) /\ InRange(p[1] + Noise)
          /\ InRange(p[2] - Noise) /\ InRange(p[2] + Noise)
      <4>1. p[1] - Noise \in near(1) /\ p[1] + Noise \in near(1)
        OBVIOUS
      <4>2. p[2] - Noise \in near(2) /\ p[2] + Noise \in near(2)
        OBVIOUS
      <4>. QED
        BY <2>1, <4>1, <4>2
    <3>3. /\ Stable(a1, a2) /\ Stable(b1, b2)
          /\ InRange((a1 + a2) \div 2) /\ InRange((b1 + b2) \div 2)
      <4> HIDE DEF a1, a2, b1, b2
      <4>1. Stable(a1, a2) /\ Stable(b1, b2)
        BY <1>2, <1>3, <3>1 DEF Stable, Distance
      <4>2. /\ (a1 + a2) \div 2 \in p[1] - Noise .. p[1] + Noise
            /\ (b1 + b2) \div 2 \in p[2] - Noise .. p[2] + Noise
        BY <1>2, <1>3, <3>1
      <4>3. ASSUME NEW m \in Int, NEW n \in Int, NEW r \in m .. n,
                   InRange(m), InRange(n)
            PROVE  InRange(r)
        BY <4>3 DEF InRange
      <4>4. /\ p[1] - Noise \in Int /\ p[1] + Noise \in Int
            /\ p[2] - Noise \in Int /\ p[2] + Noise \in Int
        BY <1>2
      <4>. QED
        BY <3>2, <4>1, <4>2, <4>3, <4>4
    <3>4. touched' = ButtonAt(ScreenX(rawY), ScreenY(rawX))
      BY <3>3 DEF PollResult
    <3>5. rawX \in Int /\ rawY \in Int
      <4> HIDE DEF a1, a2, b1, b2
      <4>. QED
        BY <1>2, <1>3
    <3>. QED
      <4> HIDE DEF rawX, rawY
      <4>. QED
        BY <1>4, <3>4, <3>5, TileOfReading
  <2>. QED
    BY <1>4, <2>1 DEF OneSpikeIsHarmless
<1>5. CASE touched' # NoTile
  <2>1. touched' = ButtonAt(ScreenX(rawY), ScreenY(rawX))
    BY <1>5 DEF PollResult
  <2>2. /\ rawX \in Int
        /\ \E lo, hi \in {p[1], q[1]} : lo - Noise <= rawX /\ rawX <= hi + Noise
    <3> HIDE DEF a1, a2
    <3>. QED
      BY <1>2, <1>3, MeanIsBetween
  <2>3. /\ rawY \in Int
        /\ \E lo, hi \in {p[2], q[2]} : lo - Noise <= rawY /\ rawY <= hi + Noise
    <3> HIDE DEF b1, b2
    <3>. QED
      BY <1>2, <1>3, MeanIsBetween
  <2> HIDE DEF rawX, rawY
  <2>4. touched' % Columns = Column(rawY) /\ touched' \div Columns = Row(rawX)
    BY <2>1, <2>2, <2>3, TileOfReading
  <2>5. Between(columns, Column(rawY))
    <3>1. PICK lo \in {p[2], q[2]}, hi \in {p[2], q[2]} :
            lo - Noise <= rawY /\ rawY <= hi + Noise
      BY <2>3
    <3>2. Column(lo - Noise) <= Column(rawY) /\ Column(rawY) <= Column(hi + Noise)
      BY <1>2, <2>3, <3>1, TileMonotone
    <3>3. Column(lo - Noise) \in columns /\ Column(hi + Noise) \in columns
      OBVIOUS
    <3>. QED
      BY <3>2, <3>3 DEF Between
  <2>6. Between(rows, Row(rawX))
    <3>1. PICK lo \in {p[1], q[1]}, hi \in {p[1], q[1]} :
            lo - Noise <= rawX /\ rawX <= hi + Noise
      BY <2>2
    <3>2. Row(hi + Noise) <= Row(rawX) /\ Row(rawX) <= Row(lo - Noise)
      BY <1>2, <2>2, <3>1, TileMonotone
    <3>3. Row(lo - Noise) \in rows /\ Row(hi + Noise) \in rows
      OBVIOUS
    <3>. QED
      BY <3>2, <3>3 DEF Between
  <2>. QED
    BY <1>5, <2>4, <2>5, <2>6 DEF OneSpikeIsHarmless, Column, Row
<1>. QED
  BY <1>4, <1>5

\* Every step keeps it: only a poll and a drawing change what it speaks of.
LEMMA SpikeNext == OneSpikeIsHarmless /\ [PanelNext]_panelVars => OneSpikeIsHarmless'
<1> SUFFICES ASSUME OneSpikeIsHarmless, [PanelNext]_panelVars
             PROVE  OneSpikeIsHarmless'
  OBVIOUS
<1>1. (touched' = NoTile /\ fingers' = {}) \/ UNCHANGED <<touched, fingers>>
        => OneSpikeIsHarmless'
  <2>1. CASE touched' = NoTile /\ fingers' = {}
    <3>1. Cardinality(fingers') # 1
      BY <2>1, FS_EmptySet
    <3>. QED
      BY <2>1, <3>1 DEF OneSpikeIsHarmless
  <2>2. CASE UNCHANGED <<touched, fingers>>
    BY <2>2 DEF OneSpikeIsHarmless
  <2>. QED
    BY <2>1, <2>2
<1>2. CASE LcdInit \/ Fill \/ StartFrame \/ Stripe \/ FrameOver \/ UNCHANGED panelVars
  BY <1>1, <1>2 DEF LcdInit, Fill, StartFrame, Stripe, FrameOver, panelVars
<1>3. ASSUME NEW index \in 0 .. ButtonCount - 1, RenderButton(index)
      PROVE  OneSpikeIsHarmless'
  BY <1>1, <1>3 DEF RenderButton
<1>4. ASSUME NEW p \in Fingers, NEW q \in Fingers, TouchPoll(p, q)
      PROVE  OneSpikeIsHarmless'
  <2>1. PICK upBefore \in BOOLEAN, upAfter \in BOOLEAN :
          IF upBefore THEN touched' = NoTile /\ fingers' = {}
          ELSE /\ \E x1 \in Samples(p[1]), y1 \in Samples(p[2]),
                     x2 \in Samples(q[1]), y2 \in Samples(q[2]) :
                    touched' = IF upAfter THEN NoTile
                               ELSE PollResult(Filtered(x1), Filtered(y1),
                                               Filtered(x2), Filtered(y2))
               /\ fingers' = IF upAfter THEN {} ELSE {p, q}
    BY <1>4 DEF TouchPoll
  <2>2. CASE upBefore \/ upAfter
    BY <1>1, <2>1, <2>2
  <2>3. CASE ~upBefore /\ ~upAfter
    BY <2>1, <2>3, PollIsBetween
  <2>. QED
    BY <2>2, <2>3
<1>. QED
  BY <1>2, <1>3, <1>4 DEF PanelNext

\* A poll never reports a tile beside those the finger was over, though one of
\* any five samples may be anything, and it always reports one when the finger
\* rested (touch_poll, touch_read_stable_pair, touch_read_filtered).
THEOREM SpikeNeverMisleads == PanelSpec => []OneSpikeIsHarmless
<1>1. PanelInit => OneSpikeIsHarmless
  <2>1. Cardinality({}) # 1
    BY FS_EmptySet
  <2>. QED
    BY <2>1 DEF PanelInit, OneSpikeIsHarmless
<1>. QED
  BY <1>1, SpikeNext, PTL DEF PanelSpec

-------------------------------------------------------------------------------
\* Scrolling.

\* However long a text is, at any time it is shifted by no more than the columns
\* that do not fit, so that its area is never left empty (scroll_offset).
THEOREM ScrollStaysInText ==
  ASSUME NEW over \in Nat \ {0}, NEW ms \in Nat
  PROVE  ScrollOffset(over, ms) \in 0 .. over
<1> DEFINE travel == over * PixelMs
           cycle == 2 * (HoldMs + travel)
           phase == ms % cycle
<1>1. travel \in Nat /\ cycle \in Nat \ {0} /\ cycle = 1800 + 70 * over /\ travel = 35 * over
  BY DEF HoldMs, PixelMs
<1>2. phase \in 0 .. cycle - 1
  BY <1>1
<1>3. CASE phase < 900
  BY <1>1, <1>2, <1>3 DEF ScrollOffset, HoldMs, PixelMs
<1>4. CASE phase >= 900 /\ phase < 900 + travel
  <2>1. ScrollOffset(over, ms) = (phase - 900) \div 35
    BY <1>1, <1>2, <1>4 DEF ScrollOffset, HoldMs, PixelMs
  <2>2. phase - 900 \in 0 .. 35 * over - 1
    BY <1>1, <1>2, <1>4
  <2>. QED
    BY <2>1, <2>2
<1>5. CASE phase >= 900 + travel /\ phase < 1800 + travel
  BY <1>1, <1>2, <1>5 DEF ScrollOffset, HoldMs, PixelMs
<1>6. CASE phase >= 1800 + travel
  <2>1. ScrollOffset(over, ms) = over - (phase - 1800 - travel) \div 35
    BY <1>1, <1>2, <1>6 DEF ScrollOffset, HoldMs, PixelMs
  <2>2. phase - 1800 - travel \in 0 .. 35 * over - 1
    BY <1>1, <1>2, <1>6
  <2>. QED
    BY <2>1, <2>2
<1>. QED
  BY <1>1, <1>2, <1>3, <1>4, <1>5, <1>6

-------------------------------------------------------------------------------
\* Scrolling, from one frame of 35 ms to the next.

LEMMA ModSmall ==
  ASSUME NEW m \in Nat, NEW c \in Nat \ {0}, m < c
  PROVE  m % c = m
BY SMT

LEMMA ModOver ==
  ASSUME NEW m \in Nat, NEW c \in Nat \ {0}, c <= m, m < c + c
  PROVE  m % c = m - c
BY SMT

LEMMA NextPixel ==
  ASSUME NEW n \in Nat
  PROVE  (n + 35) \div 35 = n \div 35 + 1 /\ n \div 35 \in Nat
BY SMT

LEMMA FirstPixel ==
  ASSUME NEW n \in Nat, n < 35
  PROVE  n \div 35 = 0
BY SMT

LEMMA SomePixel ==
  ASSUME NEW n \in Nat, NEW over \in Nat, n < 35 * over
  PROVE  n \div 35 \in 0 .. over - 1 /\ (n + 35 >= 35 * over => n \div 35 = over - 1)
BY SMT

\* The shift at one place of the cycle of scroll_offset.
ScrollAt(over, phase) ==
  LET travel == 35 * over
  IN  CASE phase < 900 -> 0
        [] phase >= 900 /\ phase < 900 + travel -> (phase - 900) \div 35
        [] phase >= 900 + travel /\ phase < 1800 + travel -> over
        [] OTHER -> over - (phase - 1800 - travel) \div 35

LEMMA ScrollOffsetAt ==
  ASSUME NEW over \in Nat \ {0}, NEW ms \in Nat, NEW phase, phase = ms % (1800 + 70 * over)
  PROVE  ScrollOffset(over, ms) = ScrollAt(over, phase)
<1> DEFINE travel == over * PixelMs
           cycle == 2 * (HoldMs + travel)
<1>1. travel = 35 * over /\ cycle = 1800 + 70 * over /\ HoldMs = 900 /\ PixelMs = 35
  BY DEF HoldMs, PixelMs
<1>2. ms % cycle = phase
  BY <1>1
<1>3. ScrollOffset(over, ms)
        = CASE phase < HoldMs -> 0
            [] phase >= HoldMs /\ phase < HoldMs + travel -> (phase - HoldMs) \div PixelMs
            [] phase >= HoldMs + travel /\ phase < 2 * HoldMs + travel -> over
            [] OTHER -> over - (phase - 2 * HoldMs - travel) \div PixelMs
  BY <1>2 DEF ScrollOffset
<1> HIDE DEF travel, cycle
<1>4. 2 * HoldMs = 1800 /\ phase \in Int
  <2>1. phase \in Int
    BY SMT
  <2>. QED
    BY <1>1, <2>1
<1>. QED
  BY <1>1, <1>3, <1>4 DEF ScrollAt

\* Which of its four parts a place of the cycle is in.
LEMMA ScrollRests ==
  ASSUME NEW over \in Nat \ {0}, NEW phase \in Nat
  PROVE  /\ phase < 900 => ScrollAt(over, phase) = 0
         /\ phase >= 900 /\ phase < 900 + 35 * over =>
              ScrollAt(over, phase) = (phase - 900) \div 35
         /\ phase >= 900 + 35 * over /\ phase < 1800 + 35 * over =>
              ScrollAt(over, phase) = over
         /\ phase >= 1800 + 35 * over =>
              ScrollAt(over, phase) = over - (phase - 1800 - 35 * over) \div 35
<1>1. PICK travel \in Nat : travel = 35 * over
  OBVIOUS
<1>2. ScrollAt(over, phase)
        = CASE phase < 900 -> 0
            [] phase >= 900 /\ phase < 900 + travel -> (phase - 900) \div 35
            [] phase >= 900 + travel /\ phase < 1800 + travel -> over
            [] OTHER -> over - (phase - 1800 - travel) \div 35
  BY <1>1 DEF ScrollAt
<1>3. phase < 900 => ScrollAt(over, phase) = 0
  BY <1>2, SMT
<1>4. phase >= 900 /\ phase < 900 + travel => ScrollAt(over, phase) = (phase - 900) \div 35
  BY <1>2, SMT
<1>5. phase >= 900 + travel /\ phase < 1800 + travel => ScrollAt(over, phase) = over
  BY <1>2, SMT
<1>6. phase >= 1800 + travel => ScrollAt(over, phase) = over - (phase - 1800 - travel) \div 35
  BY <1>2, SMT
<1>. QED
  BY <1>1, <1>3, <1>4, <1>5, <1>6

\* 35 ms later the text is at most one pixel further.
LEMMA ScrollMovesOn ==
  ASSUME NEW over \in Nat \ {0}, NEW p \in Nat, NEW q \in Nat,
         p < 1800 + 70 * over,
         q = IF p + 35 < 1800 + 70 * over THEN p + 35 ELSE p + 35 - (1800 + 70 * over)
  PROVE  /\ ScrollAt(over, p) \in 0 .. over
         /\ ScrollAt(over, q) - ScrollAt(over, p) \in -1 .. 1
<1>1. CASE p < 900
  <2>1. ScrollAt(over, p) = 0 /\ q = p + 35
    BY <1>1, ScrollRests
  <2>2. CASE q < 900
    BY <2>1, <2>2, ScrollRests
  <2>3. CASE q >= 900
    <3>1. q - 900 \in Nat /\ q - 900 < 35 /\ q < 900 + 35 * over
      BY <1>1, <2>1, <2>3
    <3>2. ScrollAt(over, q) = (q - 900) \div 35
      BY <2>3, <3>1, ScrollRests
    <3>. QED
      BY <2>1, <3>1, <3>2, FirstPixel
  <2>. QED
    BY <2>1, <2>2, <2>3
<1>2. CASE p >= 900 /\ p < 900 + 35 * over
  <2>1. q = p + 35
    BY <1>2
  <2>2. PICK n \in Nat : n = p - 900 /\ n < 35 * over
    BY <1>2
  <2>3. ScrollAt(over, p) = n \div 35 /\ n \div 35 \in 0 .. over - 1
    BY <1>2, <2>2, ScrollRests, SomePixel
  <2>4. CASE q < 900 + 35 * over
    <3>1. ScrollAt(over, q) = (n + 35) \div 35
      <4>1. q >= 900 /\ q - 900 = n + 35
        BY <1>2, <2>1, <2>2
      <4>. QED
        BY <2>4, <4>1, ScrollRests
    <3>. QED
      BY <2>3, <3>1, NextPixel
  <2>5. CASE q >= 900 + 35 * over
    <3>1. ScrollAt(over, q) = over
      BY <1>2, <2>1, <2>5, ScrollRests
    <3>2. n \div 35 = over - 1
      BY <2>1, <2>2, <2>5, SomePixel
    <3>. QED
      BY <2>3, <3>1, <3>2
  <2>. QED
    BY <2>4, <2>5
<1>3. CASE p >= 900 + 35 * over /\ p < 1800 + 35 * over
  <2>1. ScrollAt(over, p) = over /\ q = p + 35
    BY <1>3, ScrollRests
  <2>2. CASE q < 1800 + 35 * over
    BY <1>3, <2>1, <2>2, ScrollRests
  <2>3. CASE q >= 1800 + 35 * over
    <3>1. PICK n \in Nat : n = q - 1800 - 35 * over /\ n < 35
      BY <1>3, <2>1, <2>3
    <3>2. ScrollAt(over, q) = over - n \div 35
      BY <2>3, <3>1, ScrollRests
    <3>. QED
      BY <2>1, <3>1, <3>2, FirstPixel
  <2>. QED
    BY <2>2, <2>3
<1>4. CASE p >= 1800 + 35 * over
  <2>1. PICK n \in Nat : n = p - 1800 - 35 * over /\ n < 35 * over
    BY <1>4
  <2>2. ScrollAt(over, p) = over - n \div 35 /\ n \div 35 \in 0 .. over - 1
    BY <1>4, <2>1, ScrollRests, SomePixel
  <2>3. CASE p + 35 < 1800 + 70 * over
    <3>1. q = p + 35 /\ q - 1800 - 35 * over = n + 35 /\ q >= 1800 + 35 * over
      BY <1>4, <2>1, <2>3
    <3>2. ScrollAt(over, q) = over - (n + 35) \div 35
      BY <3>1, ScrollRests
    <3>. QED
      BY <2>2, <3>2, NextPixel
  <2>4. CASE p + 35 >= 1800 + 70 * over
    <3>1. q < 900 /\ n + 35 >= 35 * over
      BY <2>1, <2>4
    <3>2. ScrollAt(over, q) = 0 /\ n \div 35 = over - 1
      BY <2>1, <3>1, ScrollRests, SomePixel
    <3>. QED
      BY <2>2, <3>2
  <2>. QED
    BY <2>3, <2>4
<1>. QED
  BY <1>1, <1>2, <1>3, <1>4

\* From one multiple of 35 ms to the next.
LEMMA ScrollSteps ==
  ASSUME NEW over \in Nat \ {0}, NEW t \in Nat, t <= 1800 + 70 * over
  PROVE  /\ ScrollOffset(over, t) \in 0 .. over
         /\ ScrollOffset(over, t + 35) - ScrollOffset(over, t) \in -1 .. 1
<1>1. PICK c \in Nat \ {0} : c = 1800 + 70 * over
  OBVIOUS
<1>2. PICK p, q : p = t % c /\ q = (t + 35) % c
  OBVIOUS
<1>3. /\ p \in Nat /\ q \in Nat /\ p < c
      /\ q = IF p + 35 < c THEN p + 35 ELSE p + 35 - c
  <2>1. CASE t < c
    <3>1. p = t
      BY <1>2, <2>1, ModSmall
    <3>2. CASE t + 35 < c
      BY <1>2, <2>1, <3>1, <3>2, ModSmall
    <3>3. CASE t + 35 >= c
      <4>1. t + 35 \in Nat /\ t + 35 < c + c
        BY <1>1, <2>1
      <4>2. PICK u \in Nat : u = t + 35
        BY <4>1
      <4>3. u % c = u - c
        BY <3>3, <4>1, <4>2, ModOver
      <4>4. q = t + 35 - c
        BY <1>2, <4>2, <4>3
      <4>. QED
        BY <2>1, <3>1, <3>3, <4>4
    <3>. QED
      BY <3>2, <3>3
  <2>2. CASE t = c
    <3>1. p = 0
      BY <1>1, <1>2, <2>2, ModOver
    <3>2. t + 35 \in Nat /\ c <= t + 35 /\ t + 35 < c + c
      BY <1>1, <2>2
    <3>3. PICK u \in Nat : u = t + 35
      BY <3>2
    <3>4. u % c = u - c
      BY <3>2, <3>3, ModOver
    <3>5. q = 35
      BY <1>2, <2>2, <3>3, <3>4
    <3>. QED
      BY <1>1, <3>1, <3>5
  <2>. QED
    BY <1>1, <2>1, <2>2
<1>4. /\ ScrollOffset(over, t) = ScrollAt(over, p)
      /\ ScrollOffset(over, t + 35) = ScrollAt(over, q)
  <2>1. PICK u \in Nat : u = t + 35
    OBVIOUS
  <2>2. p = t % (1800 + 70 * over) /\ q = u % (1800 + 70 * over)
    BY <1>1, <1>2, <2>1
  <2>3. ScrollOffset(over, u) = ScrollAt(over, q)
    BY <2>2, ScrollOffsetAt
  <2>4. ScrollOffset(over, t) = ScrollAt(over, p)
    BY <2>2, ScrollOffsetAt
  <2>. QED
    BY <2>1, <2>3, <2>4
<1>. QED
  BY <1>1, <1>3, <1>4, ScrollMovesOn

\* A value of any length: one that fits its area is shown whole; of any other either
\* end is shown in turn, and from one frame to the next, 35 ms later, the text moves
\* by at most one pixel (scroll_offset, value_area and text_at_clipped).
THEOREM ValueScrolls ==
  ASSUME NEW v, v.w \in Nat \ {0}, v.scale \in Nat \ {0}, NEW n \in Nat
  PROVE  ScrollsThrough(v, n)
<1> DEFINE width == TextWidth(OrDash(n), v.scale)
           over == Overflow(v, n)
           last == width - 1
           half == HoldMs + over * PixelMs
<1>1. width \in Nat \ {0}
  <2>1. PICK m \in Nat \ {0} : m = OrDash(n)
    BY DEF OrDash
  <2>2. m * 6 - 1 \in Nat \ {0}
    OBVIOUS
  <2>3. width = (m * 6 - 1) * v.scale
    BY <2>1 DEF TextWidth
  <2>4. PICK a \in Nat \ {0}, b \in Nat \ {0} : a = m * 6 - 1 /\ b = v.scale
    BY <2>2
  <2>5. a * b \in Nat \ {0}
    BY SMT
  <2>. QED
    BY <2>3, <2>4, <2>5
<1>2. over = width - v.w
  BY DEF Overflow
<1> HIDE DEF width
<1>3. over \in Int /\ last \in Nat
  BY <1>1, <1>2
<1>4. ASSUME over <= 0 PROVE ShownColumns(v, n, 0) = 0 .. last
  <2>1. ShownColumns(v, n, 0) = {i \in 0 .. width - 1 : i - 0 \in 0 .. v.w - 1}
    BY <1>3, <1>4 DEF ShownColumns, width
  <2>2. \A i \in 0 .. width - 1 : i - 0 \in 0 .. v.w - 1
    BY <1>1, <1>2, <1>4
  <2>. QED
    BY <2>1, <2>2
<1>5. ASSUME over > 0
      PROVE  /\ 0 \in ShownColumns(v, n, 0) /\ last \in ShownColumns(v, n, half)
             /\ \A k \in 0 .. (2 * half) \div PixelMs :
                  LET here == ScrollOffset(over, k * PixelMs)
                      next == ScrollOffset(over, (k + 1) * PixelMs)
                  IN  here \in 0 .. over /\ next - here \in -1 .. 1
  <2>1. PICK o \in Nat \ {0} : o = over
    BY <1>3, <1>5
  <2>2. half = 900 + 35 * o /\ half \in Nat /\ PixelMs = 35
    BY <2>1 DEF HoldMs, PixelMs
  <2> HIDE DEF over, half
  <2>3. ScrollOffset(over, 0) = 0
    <3>1. 0 % (1800 + 70 * o) = 0
      BY ModSmall
    <3>2. ScrollOffset(o, 0) = ScrollAt(o, 0)
      BY <3>1, ScrollOffsetAt
    <3>. QED
      BY <2>1, <3>2, ScrollRests
  <2>4. ScrollOffset(over, half) = over
    <3>1. half % (1800 + 70 * o) = half
      <4>1. 1800 + 70 * o \in Nat \ {0} /\ half < 1800 + 70 * o
        BY <2>2
      <4>. QED
        BY <2>2, <4>1, ModSmall
    <3>2. ScrollOffset(o, half) = ScrollAt(o, half)
      BY <2>2, <3>1, ScrollOffsetAt
    <3>3. half >= 900 + 35 * o /\ half < 1800 + 35 * o
      BY <2>2
    <3>4. ScrollAt(o, half) = o
      BY <2>2, <3>3, ScrollRests
    <3>. QED
      BY <2>1, <3>2, <3>4
  <2>5. 0 \in ShownColumns(v, n, 0)
    <3>1. 0 \in 0 .. width - 1 /\ 0 - 0 \in 0 .. v.w - 1
      BY <1>1
    <3>. QED
      BY <1>5, <2>3, <3>1 DEF ShownColumns, width, over
  <2>6. last \in ShownColumns(v, n, half)
    <3>1. last \in 0 .. width - 1 /\ last - over \in 0 .. v.w - 1
      BY <1>1, <1>2, <1>5, <2>1
    <3>. QED
      BY <1>5, <2>4, <3>1 DEF ShownColumns, width, over
  <2>7. ASSUME NEW k \in 0 .. (2 * half) \div PixelMs
        PROVE  LET here == ScrollOffset(over, k * PixelMs)
                   next == ScrollOffset(over, (k + 1) * PixelMs)
               IN  here \in 0 .. over /\ next - here \in -1 .. 1
    <3>1. PICK c \in Nat : c = 2 * half /\ c = 1800 + 70 * o
      BY <2>2
    <3>2. k \in 0 .. c \div 35
      BY <2>2, <3>1
    <3>3. k \in Nat /\ 35 * k <= c
      BY <3>2, SMT
    <3>4. PICK t \in Nat : t = 35 * k /\ t <= c
      BY <3>3
    <3>5. k * PixelMs = t /\ (k + 1) * PixelMs = t + 35
      BY <2>2, <3>3, <3>4
    <3>6. ScrollOffset(o, t) \in 0 .. o /\ ScrollOffset(o, t + 35) - ScrollOffset(o, t) \in -1 .. 1
      BY <3>1, <3>4, ScrollSteps
    <3>. QED
      BY <2>1, <3>5, <3>6
  <2>. QED
    BY <2>5, <2>6, <2>7
<1>. QED
  BY <1>3, <1>4, <1>5 DEF ScrollsThrough, width

-------------------------------------------------------------------------------
\* What every call of lcd.c leaves on the glass.

Drawn(t, p) ==
  LET a == t.area
  IN  /\ OnScreen(a.x, a.y, a.w, a.h)
      /\ p.columns = Side(a.x, a.x + a.w - 1) /\ p.rows = Side(a.y, a.y + a.h - 1)
      /\ p.bytes = 2 * a.w * a.h /\ p.bytes <= t.buffer

\* lcd_blit_rgb565_be and lcd_fill, on a panel that was set up.
LEMMA DrawCall ==
  ASSUME NEW p, Ready(p), NEW x, NEW y, NEW w, NEW h, OnScreen(x, y, w, h),
         NEW n, n = 2 * w * h, NEW buffer, n <= buffer, NEW q,
         q = After(p, SetWindow(LcdMHz, x, y, w, h) \o <<Pixels(LcdMHz, n)>>)
  PROVE  Ready(q) /\ Drawn(Target(Rect(x, y, w, h), buffer), q)
<1>1. p \in Panels /\ LcdMHz <= FastestMHz(p) /\ LcdMHz \in Nat
  BY ReadyIsFast DEF LcdMHz
<1>2. n \in Nat
  <2>1. w \in Nat /\ h \in Nat
    BY DEF OnScreen
  <2>2. 2 * w \in Nat
    BY <2>1
  <2>. QED
    BY <2>1, <2>2
<1>3. /\ Keeps(p, q) /\ q.bytes = n
      /\ q.columns = Side(x, x + w - 1) /\ q.rows = Side(y, y + h - 1)
  BY <1>1, <1>2, DrawingAfter
<1>4. Ready(q)
  BY <1>3, ReadyKept
<1>5. PICK a, t : a = Rect(x, y, w, h) /\ t = Target(a, buffer)
  OBVIOUS
<1>6. /\ a.x = x /\ a.y = y /\ a.w = w /\ a.h = h /\ t.area = a /\ t.buffer = buffer
  BY <1>5 DEF Rect, Target
<1>7. Drawn(t, q)
  BY <1>3, <1>6 DEF Drawn
<1>. QED
  BY <1>4, <1>5, <1>7

\* The stripes of a frame follow one another without a gap.
StripesInv ==
  /\ firmware \in {"display", "keyboard"}
  /\ step \in {"reset", "fill", "frame", "stripes", "drawn", "draw", "poll"}
  /\ stripes \in Seq(Nat)
  /\ \A i \in 1 .. Len(stripes) : stripes[i] = (i - 1) * StripeOf /\ stripes[i] < Height
  /\ step \notin {"stripes", "drawn"} => stripes = <<>>
  /\ step = "stripes" /\ stripes # <<>> => Last(stripes) + StripeOf < Height
  /\ step = "drawn" => stripes # <<>> /\ Last(stripes) + StripeOf >= Height

\* The panel is set up once, then always ready, and it shows what the last call drew.
GlassInv ==
  /\ step = "reset" => panel = PanelReset /\ lcdMHz = InitMHz(firmware)
  /\ step # "reset" => Ready(panel) /\ lcdMHz = LcdMHz
  /\ step \in {"reset", "fill"} => target = NoTarget
  /\ target # NoTarget => Drawn(target, panel)
  /\ stripes # <<>> => target.area = Rect(0, Last(stripes), Width, StripeRows(Last(stripes)))
  /\ step \in {"draw", "poll"} /\ target.area.w = TileWidth =>
       \E index \in TileIndices : target.area = Tile(index)

\* Where the next stripe begins.
NextY ==
  IF stripes = <<>> THEN 0
  ELSE Last(stripes) + IF firmware = "display" THEN StripeRows(Last(stripes))
                       ELSE SetupStripeHeight

LEMMA StripeOfIs ==
  ASSUME StripesInv
  PROVE  /\ firmware = "display" => StripeOf = 24
         /\ firmware = "keyboard" => StripeOf = 12
         /\ StripeOf \in {12, 24}
BY DEF StripesInv, StripeOf, StripeHeight, SetupStripeHeight

LEMMA LastStripe ==
  ASSUME StripesInv, stripes # <<>>
  PROVE  /\ Len(stripes) \in Nat \ {0} /\ Last(stripes) \in Nat
         /\ Last(stripes) = (Len(stripes) - 1) * StripeOf /\ Last(stripes) < Height
<1>1. Len(stripes) \in Nat \ {0} /\ Len(stripes) \in 1 .. Len(stripes)
  BY DEF StripesInv
<1>2. Last(stripes) = stripes[Len(stripes)] /\ stripes[Len(stripes)] \in Nat
  BY <1>1, ElementOfSeq DEF Last, StripesInv
<1>. QED
  BY <1>1, <1>2 DEF StripesInv

LEMMA NextStripe ==
  ASSUME StripesInv, step = "stripes"
  PROVE  /\ NextY \in Nat /\ NextY = Len(stripes) * StripeOf /\ NextY < Height
         /\ StripeRows(NextY) \in 1 .. StripeOf /\ NextY + StripeRows(NextY) <= Height
<1>1. StripeOf \in {12, 24} /\ Height = 320
  BY StripeOfIs DEF Height
<1>2. NextY \in Nat /\ NextY = Len(stripes) * StripeOf /\ NextY < Height
  <2>1. CASE stripes = <<>>
    <3>1. Len(stripes) = 0
      BY <2>1
    <3>. QED
      BY <1>1, <2>1, <3>1 DEF NextY
  <2>2. CASE stripes # <<>>
    <3>1. PICK m \in Nat \ {0}, last \in Nat, size \in {12, 24} :
            /\ m = Len(stripes) /\ last = Last(stripes) /\ size = StripeOf
            /\ last = (m - 1) * size
      BY <1>1, <2>2, LastStripe
    <3>2. last + size < 320
      BY <1>1, <2>2, <3>1 DEF StripesInv
    <3>3. StripeRows(last) = size
      BY <1>1, <3>1, <3>2 DEF StripeRows
    <3>4. firmware = "display" \/ (firmware = "keyboard" /\ SetupStripeHeight = size)
      BY <3>1, StripeOfIs DEF StripesInv, SetupStripeHeight
    <3>5. NextY = last + size
      BY <2>2, <3>1, <3>3, <3>4 DEF NextY
    <3>6. last + size = m * size
      BY <3>1
    <3>. QED
      BY <1>1, <3>1, <3>2, <3>5, <3>6
  <2>. QED
    BY <2>1, <2>2
<1>3. PICK y \in Nat, size \in {12, 24} : y = NextY /\ size = StripeOf /\ y < 320
  BY <1>1, <1>2
<1>4. StripeRows(y) = IF 320 - y > size THEN size ELSE 320 - y
  BY <1>1, <1>3 DEF StripeRows
<1>. QED
  BY <1>1, <1>2, <1>3, <1>4

LEMMA StripesStart == PanelInit => StripesInv /\ GlassInv
BY DEF PanelInit, StripesInv, GlassInv, NoTarget, Rect, TileWidth, Width, Columns

LEMMA StripesAppended ==
  ASSUME StripesInv, step = "stripes", stripes' = Append(stripes, NextY),
         firmware' = firmware,
         step' = IF NextY + StripeOf < Height THEN "stripes" ELSE "drawn"
  PROVE  StripesInv' /\ stripes' # <<>> /\ Last(stripes') = NextY
<1>1. PICK y \in Nat, m \in Nat, size \in {12, 24} :
        y = NextY /\ m = Len(stripes) /\ size = StripeOf /\ y = m * size /\ y < Height
  <2>1. Len(stripes) \in Nat
    BY DEF StripesInv
  <2>. QED
    BY <2>1, NextStripe, StripeOfIs
<1>2. StripeOf' = StripeOf
  BY DEF StripeOf
<1>3. stripes \in Seq(Nat)
  BY DEF StripesInv
<1>4. /\ stripes' \in Seq(Nat) /\ Len(stripes') = m + 1 /\ stripes'[m + 1] = y
      /\ \A i \in 1 .. m : stripes'[i] = stripes[i]
  BY <1>1, <1>3, AppendAt
<1>5. stripes' # <<>> /\ Last(stripes') = y
  BY <1>1, <1>4 DEF Last
<1>6. ASSUME NEW i \in 1 .. Len(stripes')
      PROVE  stripes'[i] = (i - 1) * StripeOf' /\ stripes'[i] < Height
  <2>1. CASE i = m + 1
    BY <1>1, <1>2, <1>4, <2>1
  <2>2. CASE i \in 1 .. m
    BY <1>1, <1>2, <1>4, <2>2 DEF StripesInv
  <2>. QED
    BY <1>1, <1>4, <2>1, <2>2
<1>7. (step' = "stripes" \/ step' = "drawn") /\ (step' = "stripes" => y + StripeOf < Height)
      /\ (step' = "drawn" => y + StripeOf >= Height)
  BY <1>1 DEF Height
<1>. QED
  BY <1>1, <1>2, <1>4, <1>5, <1>6, <1>7 DEF StripesInv

BoardInv == StripesInv /\ GlassInv

LEMMA InitBoard == PanelInit => BoardInv
BY StripesStart DEF BoardInv

LEMMA NoStripes ==
  ASSUME StripesInv, step \notin {"stripes", "drawn"} PROVE stripes = <<>>
BY DEF StripesInv

\* With no stripe, StripesInv is about where main is.
LEMMA NoStripesInv ==
  ASSUME stripes = <<>>, firmware \in {"display", "keyboard"},
         step \in {"reset", "fill", "frame", "stripes", "draw", "poll"}
  PROVE  StripesInv
BY DEF StripesInv

LEMMA LcdInitInv ==
  ASSUME BoardInv, LcdInit PROVE BoardInv'
<1>1. firmware \in {"display", "keyboard"} /\ stripes = <<>> /\ step = "reset"
  BY DEF BoardInv, StripesInv, LcdInit
<1>2. panel = PanelReset /\ lcdMHz = InitMHz(firmware) /\ target = NoTarget
  BY <1>1 DEF BoardInv, GlassInv
<1>3. /\ firmware' = firmware /\ stripes' = stripes /\ target' = target
      /\ step' = "fill" /\ lcdMHz' = LcdMHz
  BY DEF LcdInit
<1>4. InitMHz(firmware) \in {4, 5}
  BY DEF InitMHz
<1>5. Ready(panel')
  <2>1. KeyboardSetUp(InitMHz(firmware)) = SetUp(InitMHz(firmware))
    BY DEF KeyboardSetUp, SetUp, KeyboardCommand
  <2>2. panel' = After(PanelReset, SetUp(InitMHz(firmware)))
    BY <2>1 DEF LcdInit
  <2>. QED
    BY <1>4, <2>2, SetUpAfter
<1>6. StripesInv'
  BY <1>1, <1>3, NoStripesInv DEF StripesInv
<1>7. GlassInv'
  BY <1>1, <1>2, <1>3, <1>5 DEF GlassInv
<1>. QED
  BY <1>6, <1>7 DEF BoardInv

LEMMA FillInv ==
  ASSUME BoardInv, Fill PROVE BoardInv'
<1>1. firmware \in {"display", "keyboard"} /\ stripes = <<>> /\ step = "fill"
  BY DEF BoardInv, StripesInv, Fill
<1>2. Ready(panel) /\ lcdMHz = LcdMHz
  BY <1>1 DEF BoardInv, GlassInv
<1>3. /\ firmware' = firmware /\ stripes' = stripes /\ lcdMHz' = lcdMHz /\ step' = "frame"
      /\ target' = Target(Rect(0, 0, Width, Height), Width * Height * 2)
  BY DEF Fill
<1>4. PICK n : n = Height * Width * 2 /\ n = Width * Height * 2 /\ n = 2 * Width * Height
              /\ n <= n
  BY SMT DEF Width, Height
<1>5. panel' = After(panel, SetWindow(LcdMHz, 0, 0, Width, Height) \o <<Pixels(LcdMHz, n)>>)
  <2>1. KeyboardFill(LcdMHz) = LcdFill(LcdMHz)
    BY DEF KeyboardFill, LcdFill, KeyboardWindow
  <2>2. panel' = After(panel, LcdFill(LcdMHz))
    BY <1>2, <2>1 DEF Fill
  <2>. QED
    BY <1>4, <2>2 DEF LcdFill
<1>6. OnScreen(0, 0, Width, Height)
  BY SMT DEF OnScreen, Width, Height
<1>7. Ready(panel') /\ Drawn(target', panel')
  BY <1>2, <1>3, <1>4, <1>5, <1>6, DrawCall
<1>8. StripesInv'
  BY <1>1, <1>3, NoStripesInv DEF StripesInv
<1>9. GlassInv'
  BY <1>1, <1>2, <1>3, <1>7 DEF GlassInv
<1>. QED
  BY <1>8, <1>9 DEF BoardInv

LEMMA StartFrameInv ==
  ASSUME BoardInv, StartFrame PROVE BoardInv'
<1>1. /\ firmware' = firmware /\ lcdMHz' = lcdMHz /\ panel' = panel /\ target' = target
      /\ step = "frame" /\ step' = "stripes" /\ stripes' = <<>>
  BY DEF StartFrame
<1>2. StripesInv'
  BY <1>1, NoStripesInv DEF BoardInv, StripesInv
<1>3. GlassInv'
  BY <1>1 DEF BoardInv, GlassInv, Drawn
<1>. QED
  BY <1>2, <1>3 DEF BoardInv

LEMMA StripeInv ==
  ASSUME BoardInv, Stripe PROVE BoardInv'
<1>1. PICK y, h : y = NextY /\ h = StripeRows(y)
  OBVIOUS
<1>2. /\ firmware' = firmware /\ lcdMHz' = lcdMHz /\ step = "stripes"
      /\ step' = IF NextY + StripeOf < Height THEN "stripes" ELSE "drawn"
      /\ stripes' = Append(stripes, NextY)
      /\ panel' = After(panel, IF firmware = "display"
                                 THEN Blit(lcdMHz, 0, y, Width, h, Width * h * 2)
                                 ELSE KeyboardBlit(lcdMHz, 0, y, Width, h, Width * h * 2))
      /\ target' = Target(Rect(0, y, Width, h),
                          IF firmware = "display" THEN StripeBuffer ELSE TileBuffer)
  BY <1>1 DEF Stripe, NextY
<1>3. Ready(panel) /\ lcdMHz = LcdMHz /\ StripesInv
  BY <1>2 DEF BoardInv, GlassInv
<1>4. y \in Nat /\ h \in 1 .. StripeOf /\ y + h <= Height
  BY <1>1, <1>2, <1>3, NextStripe
<1>5. firmware \in {"display", "keyboard"} /\ StripeOf \in {12, 24}
      /\ (firmware = "display" => StripeOf = 24) /\ (firmware = "keyboard" => StripeOf = 12)
  BY <1>3, StripeOfIs DEF StripesInv
<1>6. PICK n, buffer : n = Width * h * 2 /\ n = 2 * Width * h
          /\ buffer = (IF firmware = "display" THEN StripeBuffer ELSE TileBuffer)
  BY <1>4, <1>5, SMT DEF Width
<1>7. n <= buffer
  <2>1. StripeBuffer = 23040 /\ TileBuffer = 12800 /\ Width = 480
    BY SMT DEF StripeBuffer, StripeHeight, TileBuffer, TileWidth, TileHeight, Width, Height,
               Columns, Rows
  <2>2. n = 960 * h
    BY <1>4, <1>5, <1>6, <2>1, SMT
  <2>3. (firmware = "display" /\ h <= 24) \/ (firmware = "keyboard" /\ h <= 12)
    BY <1>4, <1>5
  <2>4. CASE firmware = "display" /\ h <= 24
    BY <1>4, <1>5, <1>6, <2>1, <2>2, <2>4, SMT
  <2>5. CASE firmware = "keyboard" /\ h <= 12
    BY <1>4, <1>5, <1>6, <2>1, <2>2, <2>5, SMT
  <2>. QED
    BY <2>3, <2>4, <2>5
<1>8. OnScreen(0, y, Width, h)
  BY <1>4, <1>5, SMT DEF OnScreen, Width
<1>9. panel' = After(panel, SetWindow(LcdMHz, 0, y, Width, h) \o <<Pixels(LcdMHz, n)>>)
  <2>1. ~(Width = 0 \/ h = 0)
    BY <1>8 DEF OnScreen
  <2>2. KeyboardBlit(LcdMHz, 0, y, Width, h, n) = Blit(LcdMHz, 0, y, Width, h, n)
    BY DEF KeyboardBlit, Blit, KeyboardWindow
  <2>3. panel' = After(panel, Blit(LcdMHz, 0, y, Width, h, n))
    BY <1>2, <1>3, <1>6, <2>2
  <2>. QED
    BY <2>1, <2>3 DEF Blit
<1>10. PICK a, t : a = Rect(0, y, Width, h) /\ t = Target(a, buffer) /\ target' = t
  BY <1>2, <1>6
<1>11. Ready(panel') /\ Drawn(t, panel')
  BY <1>3, <1>6, <1>7, <1>8, <1>9, <1>10, DrawCall
<1>12. StripesInv' /\ stripes' # <<>> /\ Last(stripes') = y
  BY <1>1, <1>2, <1>3, StripesAppended
<1>13. target'.area = a /\ a = Rect(0, Last(stripes'), Width, StripeRows(Last(stripes))')
  <2>1. StripeRows(Last(stripes))' = StripeRows(Last(stripes'))
    BY <1>2 DEF StripeRows, StripeOf
  <2>. QED
    BY <1>1, <1>2, <1>10, <1>12, <2>1 DEF Target
<1>14. step' \in {"stripes", "drawn"}
  BY <1>2
<1>15. GlassInv'
  BY <1>2, <1>3, <1>10, <1>11, <1>13, <1>14 DEF GlassInv
<1>. QED
  BY <1>12, <1>15 DEF BoardInv

LEMMA FrameOverInv ==
  ASSUME BoardInv, FrameOver PROVE BoardInv'
<1>1. /\ firmware' = firmware /\ lcdMHz' = lcdMHz /\ panel' = panel /\ target' = target
      /\ step = "drawn" /\ step' \in {"frame", "draw"} /\ stripes' = <<>>
  BY DEF FrameOver
<1>2. StripesInv'
  BY <1>1, NoStripesInv DEF BoardInv, StripesInv
<1>3. target.area.w = Width
  BY <1>1 DEF BoardInv, StripesInv, GlassInv, Rect
<1>4. Width # TileWidth
  BY DEF Width, TileWidth, Columns
<1>5. GlassInv'
  BY <1>1, <1>3, <1>4 DEF BoardInv, GlassInv, Drawn
<1>. QED
  BY <1>2, <1>5 DEF BoardInv

\* A tile is on the screen.
LEMMA TileOnScreen ==
  ASSUME NEW index \in TileIndices
  PROVE  /\ Tile(index).x = (index % 6) * 80 /\ Tile(index).y = (index \div 6) * 80
         /\ Tile(index).w = 80 /\ Tile(index).h = 80
         /\ Tile(index) = Rect(Tile(index).x, Tile(index).y, TileWidth, TileHeight)
         /\ OnScreen(Tile(index).x, Tile(index).y, TileWidth, TileHeight)
<1>1. TileWidth = 80 /\ TileHeight = 80 /\ Columns = 6
  BY DEF TileWidth, TileHeight, Width, Height, Columns, Rows
<1>2. PICK column \in 0 .. 5, row \in 0 .. 3 : index = row * 6 + column
  BY DEF TileIndices, ButtonCount
<1>3. index % 6 = column /\ index \div 6 = row
  BY <1>2
<1>4. Tile(index) = Rect(column * 80, row * 80, 80, 80)
  BY <1>1, <1>3 DEF Tile
<1>5. /\ Tile(index).x = column * 80 /\ Tile(index).y = row * 80
      /\ Tile(index).w = 80 /\ Tile(index).h = 80
  BY <1>4 DEF Rect
<1>6. OnScreen(column * 80, row * 80, 80, 80)
  BY SMT DEF OnScreen, Width, Height
<1>. QED
  BY <1>1, <1>3, <1>4, <1>5, <1>6

LEMMA RenderButtonInv ==
  ASSUME BoardInv, NEW index \in 0 .. ButtonCount - 1, RenderButton(index) PROVE BoardInv'
<1>1. /\ firmware' = firmware /\ lcdMHz' = lcdMHz /\ stripes' = stripes
      /\ step = "draw" /\ step' \in {"draw", "poll"}
      /\ target' = Target(Tile(index), TileBuffer)
  BY DEF RenderButton
<1>2. Ready(panel) /\ lcdMHz = LcdMHz /\ StripesInv
  BY <1>1 DEF BoardInv, GlassInv
<1>3. stripes = <<>>
  BY <1>1, <1>2, NoStripes
<1>4. PICK a, x, y, w, h : /\ a = Tile(index) /\ x = a.x /\ y = a.y
                           /\ w = TileWidth /\ h = TileHeight
  OBVIOUS
<1>5. a = Rect(x, y, w, h) /\ OnScreen(x, y, w, h)
  BY <1>4, TileOnScreen DEF TileIndices
<1>6. PICK n : n = TileBuffer /\ n = 2 * w * h /\ n <= TileBuffer
  BY <1>4, SMT DEF TileBuffer, TileWidth, TileHeight, Width, Height, Columns, Rows
<1>7. panel' = After(panel, SetWindow(LcdMHz, x, y, w, h) \o <<Pixels(LcdMHz, n)>>)
  <2>1. ~(w = 0 \/ h = 0)
    BY <1>5 DEF OnScreen
  <2>2. panel' = After(panel, KeyboardBlit(LcdMHz, x, y, w, h, n))
    BY <1>2, <1>4, <1>6 DEF RenderButton
  <2>. QED
    BY <2>1, <2>2 DEF KeyboardBlit, KeyboardWindow
<1>8. PICK t : t = Target(a, TileBuffer) /\ target' = t
  BY <1>1, <1>4
<1>9. Ready(panel') /\ Drawn(t, panel')
  BY <1>2, <1>5, <1>6, <1>7, <1>8, DrawCall
<1>10. StripesInv'
  BY <1>1, <1>2, <1>3, NoStripesInv DEF StripesInv
<1>11. target'.area = Tile(index) /\ index \in TileIndices
  BY <1>1 DEF Target, TileIndices
<1>12. GlassInv'
  BY <1>1, <1>2, <1>3, <1>8, <1>9, <1>11 DEF GlassInv
<1>. QED
  BY <1>10, <1>12 DEF BoardInv

\* Whatever else is done leaves the panel alone.
LEMMA PanelAlone ==
  ASSUME BoardInv, UNCHANGED <<firmware, lcdMHz, panel, target, stripes>>,
         step' = step \/ (step = "poll" /\ step' = "draw")
  PROVE  BoardInv'
<1>1. StripeOf' = StripeOf
  BY DEF StripeOf
<1>2. StripesInv'
  <2>1. CASE step' = step
    BY <1>1, <2>1 DEF BoardInv, StripesInv
  <2>2. CASE step = "poll" /\ step' = "draw"
    BY <2>2, NoStripes, NoStripesInv DEF BoardInv, StripesInv
  <2>. QED
    BY <2>1, <2>2
<1>3. GlassInv'
  <2>1. stripes # <<>> => StripeRows(Last(stripes))' = StripeRows(Last(stripes))
    BY <1>1 DEF StripeRows
  <2>2. Drawn(target, panel)' = Drawn(target, panel) /\ NoTarget' = NoTarget
    BY DEF Drawn, NoTarget
  <2>. QED
    BY <2>1, <2>2 DEF BoardInv, GlassInv
<1>. QED
  BY <1>2, <1>3 DEF BoardInv

LEMMA NextBoard == BoardInv /\ [PanelNext]_panelVars => BoardInv'
<1> SUFFICES ASSUME BoardInv, [PanelNext]_panelVars PROVE BoardInv'
  OBVIOUS
<1>1. CASE LcdInit
  BY <1>1, LcdInitInv
<1>2. CASE Fill
  BY <1>2, FillInv
<1>3. CASE StartFrame
  BY <1>3, StartFrameInv
<1>4. CASE Stripe
  BY <1>4, StripeInv
<1>5. CASE FrameOver
  BY <1>5, FrameOverInv
<1>6. CASE \E index \in 0 .. ButtonCount - 1 : RenderButton(index)
  BY <1>6, RenderButtonInv
<1>7. CASE \E p, q \in Fingers : TouchPoll(p, q)
  <2>1. /\ UNCHANGED <<firmware, lcdMHz, panel, target, stripes>>
        /\ step = "poll" /\ step' = "draw"
    BY <1>7 DEF TouchPoll
  <2>. QED
    BY <2>1, PanelAlone
<1>8. CASE UNCHANGED panelVars
  BY <1>8, PanelAlone DEF panelVars
<1>. QED
  BY <1>1, <1>2, <1>3, <1>4, <1>5, <1>6, <1>7, <1>8 DEF PanelNext

\* Any corner of a tile is looked for in this tile alone.
LEMMA CornersOfTile ==
  ASSUME NEW index \in TileIndices, NEW a, a = Tile(index)
  PROVE  Cardinality({ButtonAt(x, y) : x \in {a.x, a.x + a.w - 1},
                                       y \in {a.y, a.y + a.h - 1}}) = 1
<1>1. a.x = (index % 6) * 80 /\ a.y = (index \div 6) * 80 /\ a.w = 80 /\ a.h = 80
  BY TileOnScreen
<1>2. PICK left \in Int, top \in Int : left = (index % 6) * 80 /\ top = (index \div 6) * 80
  BY DEF TileIndices, ButtonCount
<1>3. \A x \in left .. left + 79, y \in top .. top + 79 : ButtonAt(x, y) = index
  BY <1>2, TileFoundWhereDrawn
<1>4. \A x \in {a.x, a.x + a.w - 1}, y \in {a.y, a.y + a.h - 1} : ButtonAt(x, y) = index
  <2>1. a.x = left /\ a.x + a.w - 1 = left + 79 /\ a.y = top /\ a.y + a.h - 1 = top + 79
    BY <1>1, <1>2
  <2>. QED
    BY <1>3, <2>1
<1>5. {ButtonAt(x, y) : x \in {a.x, a.x + a.w - 1}, y \in {a.y, a.y + a.h - 1}} = {index}
  BY <1>4
<1>. QED
  BY <1>5, FS_Singleton

LEMMA BoardDraws == BoardInv => DrawsWhole
<1> SUFFICES ASSUME BoardInv, target # NoTarget PROVE DrawsWhole
  BY DEF DrawsWhole
<1>1. PICK a : a = target.area
  OBVIOUS
<1>2. Drawn(target, panel) /\ step \notin {"reset", "fill"} /\ Ready(panel)
  BY DEF BoardInv, GlassInv
<1>3. /\ a.x \in Nat /\ a.y \in Nat /\ a.w \in Nat \ {0} /\ a.h \in Nat \ {0}
      /\ a.x + a.w <= Width /\ a.y + a.h <= Height
      /\ panel.columns = <<a.x, a.x + a.w - 1>> /\ panel.rows = <<a.y, a.y + a.h - 1>>
      /\ panel.bytes = 2 * a.w * a.h /\ panel.bytes <= target.buffer
  BY <1>1, <1>2 DEF Drawn, OnScreen, Side
<1>4. Inside(a, Width, Height)
  BY <1>3 DEF Inside
<1>5. /\ panel.on /\ panel.awake /\ ~panel.garbled /\ panel.format = 85 /\ panel.scan = 40
  BY <1>2 DEF Ready
<1>6. ASSUME stripes # <<>>
      PROVE  PixelOffset(a.y, a.w - 1, a.y + a.h - 1) + 2 = panel.bytes
  <2>1. a.w = 480
    BY <1>1, <1>6 DEF BoardInv, GlassInv, Rect, Width
  <2>2. PICK y \in Nat, h \in Nat : y = a.y /\ h = a.h
    BY <1>3
  <2>3. panel.bytes = 960 * h
    BY <1>3, <2>1, <2>2
  <2>4. PixelOffset(y, 479, y + h - 1) + 2 = 960 * h
    BY <2>2, SMT DEF PixelOffset, Width
  <2>5. a.w - 1 = 479
    BY <2>1
  <2>. QED
    BY <2>2, <2>3, <2>4, <2>5
<1>7. ASSUME step \in {"draw", "poll"}, a.w = TileWidth
      PROVE  Cardinality({ButtonAt(x, y) : x \in {a.x, a.x + a.w - 1},
                                           y \in {a.y, a.y + a.h - 1}}) = 1
  BY <1>1, <1>7, CornersOfTile DEF BoardInv, GlassInv
<1>. QED
  BY <1>1, <1>3, <1>4, <1>5, <1>6, <1>7 DEF DrawsWhole

\* Every call of lcd.c fills exactly the rectangle it was given, on a panel that
\* was set up and never written too fast, from a buffer that is large enough, and a
\* tile is drawn where a touch of it is looked for: in every state either firmware
\* reaches, whatever it shows.
THEOREM AlwaysDrawsWhole == PanelSpec => []DrawsWhole
<1>1. PanelInit => BoardInv
  BY InitBoard
<1>2. BoardInv /\ [PanelNext]_panelVars => BoardInv'
  BY NextBoard
<1>3. BoardInv => DrawsWhole
  BY BoardDraws
<1>. QED
  BY <1>1, <1>2, <1>3, PTL DEF PanelSpec

-------------------------------------------------------------------------------
\* The pages.

\* What a page is made of, as in FrameShowsPage.
AreasOf(usb, page) ==
  {Rect(v.x, v.y, v.w, v.h) : v \in ValuesOf(usb, page)} \cup FixedOf(usb, page)

\* An area the stripes of a frame can show.
Placed(a) ==
  /\ Inside(a, Width, Height) /\ a.y \in Nat /\ a.h \in Nat
  /\ a.y + a.h <= Height

\* A value whose text can be scrolled.
Scrollable(v) == v.w \in Nat \ {0} /\ v.scale \in Nat \ {0}

LEMMA DiagnosticsAreas ==
  /\ \A a, b \in AreasOf(FALSE, 0) : a # b => Apart(a, b)
  /\ \A a \in AreasOf(FALSE, 0) : Placed(a)
  /\ \A v \in ValuesOf(FALSE, 0) : Scrollable(v)
<1>1. \A a, b \in AreasOf(FALSE, 0) : a # b => Apart(a, b)
  BY SMT DEF AreasOf, ValuesOf, DiagnosticsValues, ValueArea, LabelValue, FixedOf, Centered,
             LabelText, Text7, TextWidth, Pill, Rect, Width, Apart, JumpDigits
<1>2. \A a \in AreasOf(FALSE, 0) : Placed(a)
  BY SMT DEF AreasOf, ValuesOf, DiagnosticsValues, ValueArea, LabelValue, FixedOf, Centered,
             LabelText, Text7, TextWidth, Pill, Rect, Width, Height, Inside, Placed,
             JumpDigits
<1>3. \A v \in ValuesOf(FALSE, 0) : Scrollable(v)
  BY SMT DEF ValuesOf, DiagnosticsValues, ValueArea, LabelValue, Scrollable
<1>. QED
  BY <1>1, <1>2, <1>3

LEMMA OverviewAreas ==
  /\ \A a, b \in AreasOf(TRUE, 0) : a # b => Apart(a, b)
  /\ \A a \in AreasOf(TRUE, 0) : Placed(a)
  /\ \A v \in ValuesOf(TRUE, 0) : Scrollable(v)
<1>1. \A a, b \in AreasOf(TRUE, 0) : a # b => Apart(a, b)
  BY SMT DEF AreasOf, ValuesOf, OverviewValues, ValueArea, LabelValue, FixedOf, Centered,
             LabelText, Text7, TextWidth, Pill, Rect, Width, Apart, JumpDigits
<1>2. \A a \in AreasOf(TRUE, 0) : Placed(a)
  BY SMT DEF AreasOf, ValuesOf, OverviewValues, ValueArea, LabelValue, FixedOf, Centered,
             LabelText, Text7, TextWidth, Pill, Rect, Width, Height, Inside, Placed,
             JumpDigits
<1>3. \A v \in ValuesOf(TRUE, 0) : Scrollable(v)
  BY SMT DEF ValuesOf, OverviewValues, ValueArea, LabelValue, Scrollable
<1>. QED
  BY <1>1, <1>2, <1>3

LEMMA ShipAreas ==
  /\ \A a, b \in AreasOf(TRUE, 1) : a # b => Apart(a, b)
  /\ \A a \in AreasOf(TRUE, 1) : Placed(a)
  /\ \A v \in ValuesOf(TRUE, 1) : Scrollable(v)
<1>1. \A a, b \in AreasOf(TRUE, 1) : a # b => Apart(a, b)
  BY SMT DEF AreasOf, ValuesOf, ShipValues, ValueArea, LabelValue, FixedOf, Centered,
             LabelText, Text7, TextWidth, Pill, Rect, Width, Apart, JumpDigits
<1>2. \A a \in AreasOf(TRUE, 1) : Placed(a)
  BY SMT DEF AreasOf, ValuesOf, ShipValues, ValueArea, LabelValue, FixedOf, Centered,
             LabelText, Text7, TextWidth, Pill, Rect, Width, Height, Inside, Placed,
             JumpDigits
<1>3. \A v \in ValuesOf(TRUE, 1) : Scrollable(v)
  BY SMT DEF ValuesOf, ShipValues, ValueArea, LabelValue, Scrollable
<1>. QED
  BY <1>1, <1>2, <1>3

LEMMA SystemAreas ==
  /\ \A a, b \in AreasOf(TRUE, 2) : a # b => Apart(a, b)
  /\ \A a \in AreasOf(TRUE, 2) : Placed(a)
  /\ \A v \in ValuesOf(TRUE, 2) : Scrollable(v)
<1>1. \A a, b \in AreasOf(TRUE, 2) : a # b => Apart(a, b)
  BY SMT DEF AreasOf, ValuesOf, SystemValues, ValueArea, LabelValue, FixedOf, Centered,
             LabelText, Text7, TextWidth, Pill, Rect, Width, Apart, JumpDigits
<1>2. \A a \in AreasOf(TRUE, 2) : Placed(a)
  BY SMT DEF AreasOf, ValuesOf, SystemValues, ValueArea, LabelValue, FixedOf, Centered,
             LabelText, Text7, TextWidth, Pill, Rect, Width, Height, Inside, Placed,
             JumpDigits
<1>3. \A v \in ValuesOf(TRUE, 2) : Scrollable(v)
  BY SMT DEF ValuesOf, SystemValues, ValueArea, LabelValue, Scrollable
<1>. QED
  BY <1>1, <1>2, <1>3

LEMMA InfoAreas ==
  /\ \A a, b \in AreasOf(TRUE, 3) : a # b => Apart(a, b)
  /\ \A a \in AreasOf(TRUE, 3) : Placed(a)
  /\ \A v \in ValuesOf(TRUE, 3) : Scrollable(v)
<1>1. \A a, b \in AreasOf(TRUE, 3) : a # b => Apart(a, b)
  BY SMT DEF AreasOf, ValuesOf, InfoValues, ValueArea, LabelValue, FixedOf, Centered,
             LabelText, Text7, TextWidth, Pill, Rect, Width, Apart, JumpDigits
<1>2. \A a \in AreasOf(TRUE, 3) : Placed(a)
  BY SMT DEF AreasOf, ValuesOf, InfoValues, ValueArea, LabelValue, FixedOf, Centered,
             LabelText, Text7, TextWidth, Pill, Rect, Width, Height, Inside, Placed,
             JumpDigits
<1>3. \A v \in ValuesOf(TRUE, 3) : Scrollable(v)
  BY SMT DEF ValuesOf, InfoValues, ValueArea, LabelValue, Scrollable
<1>. QED
  BY <1>1, <1>2, <1>3

\* A value a page shows is one page_needs_scroll measures.
SameText(c, v) == v.field = c[1] /\ v.scale = c[2] /\ v.w = c[3]

LEMMA SameTexts ==
  ASSUME NEW C, NEW V, NEW chars,
         \A c \in C : \E v \in V : SameText(c, v),
         \A v \in V : \E c \in C : SameText(c, v)
  PROVE  (\E c \in C : TooWide(chars[c[1]], c[2], c[3]))
           <=> \E v \in V : TooWide(chars[v.field], v.scale, v.w)
<1>1. ASSUME NEW c \in C, TooWide(chars[c[1]], c[2], c[3])
      PROVE  \E v \in V : TooWide(chars[v.field], v.scale, v.w)
  <2>1. PICK v \in V : SameText(c, v)
    OBVIOUS
  <2>2. TooWide(chars[v.field], v.scale, v.w)
    BY <1>1, <2>1 DEF SameText
  <2>. QED
    BY <2>2
<1>2. ASSUME NEW v \in V, TooWide(chars[v.field], v.scale, v.w)
      PROVE  \E c \in C : TooWide(chars[c[1]], c[2], c[3])
  <2>1. PICK c \in C : SameText(c, v)
    OBVIOUS
  <2>2. TooWide(chars[c[1]], c[2], c[3])
    BY <1>2, <2>1 DEF SameText
  <2>. QED
    BY <2>2
<1>. QED
  BY <1>1, <1>2

LEMMA OverviewChecked ==
  /\ \A c \in Checked(0) : \E v \in ValuesOf(TRUE, 0) : SameText(c, v)
  /\ \A v \in ValuesOf(TRUE, 0) : \E c \in Checked(0) : SameText(c, v)
<1>1. PICK v1, v2, v3 :
        /\ v1 = ValueArea(14, 72, 452, "route_target", 3)
        /\ v2 = LabelValue(14, 222, 210, "system")
        /\ v3 = LabelValue(250, 222, 216, "next_system")
  OBVIOUS
<1>2. PICK c1, c2, c3 :
        /\ c1 = <<"route_target", 3, 452>>
        /\ c2 = <<"system", 2, 210>>
        /\ c3 = <<"next_system", 2, 216>>
  OBVIOUS
<1>3. /\ SameText(c1, v1) /\ SameText(c2, v2) /\ SameText(c3, v3)
  BY <1>1, <1>2 DEF ValueArea, LabelValue, SameText
<1>4. ValuesOf(TRUE, 0) = {v1, v2, v3}
  BY <1>1 DEF ValuesOf, OverviewValues
<1>5. Checked(0) = {c1, c2, c3}
  BY <1>2 DEF Checked
<1>. QED
  BY <1>3, <1>4, <1>5

LEMMA ShipChecked ==
  /\ \A c \in Checked(1) : \E v \in ValuesOf(TRUE, 1) : SameText(c, v)
  /\ \A v \in ValuesOf(TRUE, 1) : \E c \in Checked(1) : SameText(c, v)
<1>1. PICK v1, v2, v3, v4, v5, v6, v7 :
        /\ v1 = ValueArea(12, 55, 456, "ship", 3)
        /\ v2 = LabelValue(20, 105, 140, "fuel")
        /\ v3 = LabelValue(180, 105, 130, "tank_size")
        /\ v4 = LabelValue(330, 105, 136, "jump_range")
        /\ v5 = LabelValue(20, 170, 140, "cargo")
        /\ v6 = LabelValue(180, 170, 130, "mode")
        /\ v7 = LabelValue(330, 170, 136, "legal_state")
  OBVIOUS
<1>2. PICK c1, c2, c3, c4, c5, c6, c7 :
        /\ c1 = <<"ship", 3, 456>>
        /\ c2 = <<"fuel", 2, 140>>
        /\ c3 = <<"tank_size", 2, 130>>
        /\ c4 = <<"jump_range", 2, 136>>
        /\ c5 = <<"cargo", 2, 140>>
        /\ c6 = <<"mode", 2, 130>>
        /\ c7 = <<"legal_state", 2, 136>>
  OBVIOUS
<1>3. /\ SameText(c1, v1) /\ SameText(c2, v2) /\ SameText(c3, v3) /\ SameText(c4, v4)
      /\ SameText(c5, v5) /\ SameText(c6, v6) /\ SameText(c7, v7)
  BY <1>1, <1>2 DEF ValueArea, LabelValue, SameText
<1>4. ValuesOf(TRUE, 1) = {v1, v2, v3, v4, v5, v6, v7}
  BY <1>1 DEF ValuesOf, ShipValues
<1>5. Checked(1) = {c1, c2, c3, c4, c5, c6, c7}
  BY <1>2 DEF Checked
<1>. QED
  BY <1>3, <1>4, <1>5

LEMMA SystemChecked ==
  /\ \A c \in Checked(2) : \E v \in ValuesOf(TRUE, 2) : SameText(c, v)
  /\ \A v \in ValuesOf(TRUE, 2) : \E c \in Checked(2) : SameText(c, v)
<1>1. PICK v1, v2, v3, v4, v5, v6, v7 :
        /\ v1 = ValueArea(10, 57, 460, "system", 4)
        /\ v2 = LabelValue(20, 115, 210, "body")
        /\ v3 = LabelValue(250, 115, 216, "station")
        /\ v4 = LabelValue(20, 180, 210, "allegiance")
        /\ v5 = LabelValue(250, 180, 216, "economy")
        /\ v6 = LabelValue(20, 245, 210, "security")
        /\ v7 = LabelValue(250, 245, 216, "sol_dist")
  OBVIOUS
<1>2. PICK c1, c2, c3, c4, c5, c6, c7 :
        /\ c1 = <<"system", 4, 460>>
        /\ c2 = <<"body", 2, 210>>
        /\ c3 = <<"station", 2, 216>>
        /\ c4 = <<"allegiance", 2, 210>>
        /\ c5 = <<"economy", 2, 216>>
        /\ c6 = <<"security", 2, 210>>
        /\ c7 = <<"sol_dist", 2, 216>>
  OBVIOUS
<1>3. /\ SameText(c1, v1) /\ SameText(c2, v2) /\ SameText(c3, v3) /\ SameText(c4, v4)
      /\ SameText(c5, v5) /\ SameText(c6, v6) /\ SameText(c7, v7)
  BY <1>1, <1>2 DEF ValueArea, LabelValue, SameText
<1>4. ValuesOf(TRUE, 2) = {v1, v2, v3, v4, v5, v6, v7}
  BY <1>1 DEF ValuesOf, SystemValues
<1>5. Checked(2) = {c1, c2, c3, c4, c5, c6, c7}
  BY <1>2 DEF Checked
<1>. QED
  BY <1>3, <1>4, <1>5

LEMMA InfoChecked ==
  /\ \A c \in Checked(3) : \E v \in ValuesOf(TRUE, 3) : SameText(c, v)
  /\ \A v \in ValuesOf(TRUE, 3) : \E c \in Checked(3) : SameText(c, v)
<1>1. PICK v1, v2, v3, v4, v5, v6 :
        /\ v1 = ValueArea(20, 72, 446, "commander", 3)
        /\ v2 = LabelValue(20, 125, 210, "game_mode")
        /\ v3 = LabelValue(250, 125, 216, "mode")
        /\ v4 = LabelValue(20, 190, 210, "credits")
        /\ v5 = LabelValue(250, 190, 216, "sol_dist")
        /\ v6 = ValueArea(20, 275, 446, "system", 2)
  OBVIOUS
<1>2. PICK c1, c2, c3, c4, c5, c6 :
        /\ c1 = <<"commander", 3, 446>>
        /\ c2 = <<"game_mode", 2, 210>>
        /\ c3 = <<"mode", 2, 216>>
        /\ c4 = <<"credits", 2, 210>>
        /\ c5 = <<"sol_dist", 2, 216>>
        /\ c6 = <<"system", 2, 446>>
  OBVIOUS
<1>3. /\ SameText(c1, v1) /\ SameText(c2, v2) /\ SameText(c3, v3) /\ SameText(c4, v4)
      /\ SameText(c5, v5) /\ SameText(c6, v6)
  BY <1>1, <1>2 DEF ValueArea, LabelValue, SameText
<1>4. ValuesOf(TRUE, 3) = {v1, v2, v3, v4, v5, v6}
  BY <1>1 DEF ValuesOf, InfoValues
<1>5. Checked(3) = {c1, c2, c3, c4, c5, c6}
  BY <1>2 DEF Checked
<1>. QED
  BY <1>3, <1>4, <1>5

-------------------------------------------------------------------------------
\* A finished frame.

\* The stripes of a finished frame follow one another to the last row.
LEMMA StripesFill ==
  ASSUME StripesInv, step = "drawn"
  PROVE  /\ \A i \in 1 .. Len(stripes) - 1 :
              stripes[i + 1] = stripes[i] + StripeRows(stripes[i])
         /\ Last(stripes) + StripeRows(Last(stripes)) = Height
<1>1. stripes # <<>> /\ Last(stripes) + StripeOf >= Height
  BY DEF StripesInv
<1>2. PICK size \in {12, 24}, m \in Nat, last \in Nat :
        size = StripeOf /\ m = Len(stripes) /\ last = Last(stripes) /\ last < 320
  BY <1>1, LastStripe, StripeOfIs DEF Height
<1>3. ASSUME NEW i \in 1 .. m - 1
      PROVE  stripes[i + 1] = stripes[i] + StripeRows(stripes[i])
  <2>1. PICK j \in 1 .. m : j = i + 1
    BY <1>2
  <2>2. stripes[i] = (i - 1) * size /\ stripes[j] = (j - 1) * size /\ stripes[j] < 320
    BY <1>2, <2>1 DEF StripesInv, Height
  <2>3. PICK y \in Nat : y = stripes[i] /\ stripes[j] = y + size
    BY <2>1, <2>2
  <2>4. StripeRows(y) = size
    BY <1>2, <2>2, <2>3 DEF StripeRows, Height
  <2>. QED
    BY <2>1, <2>3, <2>4
<1>4. last + StripeRows(last) = Height
  BY <1>1, <1>2 DEF StripeRows, Height
<1>. QED
  BY <1>2, <1>3, <1>4

\* Every row of the screen lies in a stripe.
LEMMA RowInStripe ==
  ASSUME StripesInv, step = "drawn", NEW r \in Nat, r < Height
  PROVE  \E i \in DOMAIN stripes : stripes[i] <= r /\ r < stripes[i] + StripeOf
<1>1. stripes # <<>> /\ Last(stripes) + StripeOf >= Height
  BY DEF StripesInv
<1>2. PICK size \in {12, 24}, m \in Nat \ {0} :
        size = StripeOf /\ m = Len(stripes) /\ Last(stripes) = (m - 1) * size
  BY <1>1, LastStripe, StripeOfIs
<1>3. r < m * size
  BY <1>1, <1>2 DEF Height
<1>4. PICK q \in Nat : q * size <= r /\ r < (q + 1) * size
  <2>1. CASE size = 12
    BY <2>1, r \div 12 \in Nat
  <2>2. CASE size = 24
    BY <2>2, r \div 24 \in Nat
  <2>. QED
    BY <2>1, <2>2
<1>5. PICK i \in 1 .. m : i = q + 1
  BY <1>2, <1>3, <1>4
<1>6. stripes[i] = q * size
  BY <1>2, <1>5 DEF StripesInv
<1>7. DOMAIN stripes = 1 .. m
  BY <1>2 DEF StripesInv
<1>. QED
  BY <1>2, <1>4, <1>5, <1>6, <1>7

LEMMA RowsCovered ==
  ASSUME StripesInv, step = "drawn", NEW y \in Nat, NEW h \in Nat, y + h <= Height
  PROVE  UNION {RowsIn(stripes[i], StripeOf, y, h) : i \in DOMAIN stripes} = y .. y + h - 1
<1>1. ASSUME NEW r \in y .. y + h - 1
      PROVE  \E i \in DOMAIN stripes : r \in RowsIn(stripes[i], StripeOf, y, h)
  <2>1. r \in Nat /\ r < Height
    BY DEF Height
  <2>2. PICK i \in DOMAIN stripes : stripes[i] <= r /\ r < stripes[i] + StripeOf
    BY <2>1, RowInStripe
  <2>3. r \in RowsIn(stripes[i], StripeOf, y, h)
    BY <2>1, <2>2 DEF RowsIn
  <2>. QED
    BY <2>3
<1>2. \A i \in DOMAIN stripes : RowsIn(stripes[i], StripeOf, y, h) \subseteq y .. y + h - 1
  BY DEF RowsIn
<1>. QED
  BY <1>1, <1>2

\* Every page: its areas are apart, on the screen, and its values can be scrolled.
LEMMA PageAreas ==
  ASSUME NEW usb \in BOOLEAN, NEW page \in 0 .. 3
  PROVE  /\ \A a, b \in AreasOf(usb, page) : a # b => Apart(a, b)
         /\ \A a \in AreasOf(usb, page) : Placed(a)
         /\ \A v \in ValuesOf(usb, page) : Scrollable(v)
<1>1. CASE ~usb
  <2>1. usb = FALSE
    BY <1>1
  <2>2. ValuesOf(FALSE, page) = ValuesOf(FALSE, 0)
    BY DEF ValuesOf
  <2>3. FixedOf(FALSE, page) = FixedOf(FALSE, 0)
    BY ZenonT(30) DEF FixedOf
  <2>4. AreasOf(FALSE, page) = AreasOf(FALSE, 0)
    BY <2>2, <2>3 DEF AreasOf
  <2>. QED
    BY <2>1, <2>2, <2>4, DiagnosticsAreas
<1>2. CASE usb
  <2>1. usb = TRUE
    BY <1>2
  <2>2. CASE page = 0
    BY <2>1, <2>2, OverviewAreas
  <2>3. CASE page = 1
    BY <2>1, <2>3, ShipAreas
  <2>4. CASE page = 2
    BY <2>1, <2>4, SystemAreas
  <2>5. CASE page = 3
    BY <2>1, <2>5, InfoAreas
  <2>. QED
    BY <2>2, <2>3, <2>4, <2>5
<1>. QED
  BY <1>1, <1>2

\* page_needs_scroll measures what the page shows.
LEMMA PageChecked ==
  ASSUME NEW page \in 0 .. 3, NEW chars
  PROVE  PageNeedsScroll(TRUE, page, chars)
           <=> \E v \in ValuesOf(TRUE, page) : TooWide(chars[v.field], v.scale, v.w)
<1>1. /\ \A c \in Checked(page) : \E v \in ValuesOf(TRUE, page) : SameText(c, v)
      /\ \A v \in ValuesOf(TRUE, page) : \E c \in Checked(page) : SameText(c, v)
  <2>1. CASE page = 0
    BY <2>1, OverviewChecked
  <2>2. CASE page = 1
    BY <2>2, ShipChecked
  <2>3. CASE page = 2
    BY <2>3, SystemChecked
  <2>4. CASE page = 3
    BY <2>4, InfoChecked
  <2>5. page = 0 \/ page = 1 \/ page = 2 \/ page = 3
    OBVIOUS
  <2>. QED
    BY <2>1, <2>2, <2>3, <2>4, <2>5, Zenon
<1>2. PICK C, V : C = Checked(page) /\ V = ValuesOf(TRUE, page)
  OBVIOUS
<1>3. (\E c \in C : TooWide(chars[c[1]], c[2], c[3]))
        <=> \E v \in V : TooWide(chars[v.field], v.scale, v.w)
  BY <1>1, <1>2, SameTexts
<1>. QED
  BY <1>2, <1>3 DEF PageNeedsScroll

LEMMA WideOverflows ==
  ASSUME NEW v, Scrollable(v), NEW n \in Nat
  PROVE  TooWide(n, v.scale, v.w) <=> Overflow(v, n) > 0
<1>1. PICK s \in Nat, w \in Nat, m \in Nat : s = v.scale /\ w = v.w /\ m = OrDash(n)
  BY DEF Scrollable, OrDash
<1>2. PICK t \in Int : t = TextWidth(m, s)
  BY DEF TextWidth
<1>. QED
  BY <1>1, <1>2 DEF TooWide, Overflow

\* The start-up screen and the tiles of the Keyboard.
LEMMA SetupPlaced ==
  /\ \A a, b \in SetupTexts : a # b => Apart(a, b)
  /\ \A a \in SetupTexts : Placed(a)
<1>1. \A a, b \in SetupTexts : a # b => Apart(a, b)
  BY SMT DEF SetupTexts, Centered, Text7, TextWidth, StateChars, Rect, Width, Apart
<1>2. \A a \in SetupTexts : Placed(a)
  BY SMT DEF SetupTexts, Centered, Text7, TextWidth, StateChars, Rect, Width, Height, Inside,
             Placed
<1>. QED
  BY <1>1, <1>2

LEMMA LabelSizes ==
  ASSUME NEW i \in 1 .. 24
  PROVE  Labels[i][1] \in 0 .. 6 /\ Labels[i][2] \in 1 .. 6
BY SMT DEF Labels

LEMMA TilePlaced ==
  ASSUME NEW index \in TileIndices
  PROVE  /\ \A a \in TileParts(index) : Inside(a, TileWidth, TileHeight)
         /\ \A a, b \in TileParts(index) : a # b => Apart(a, b)
<1>1. PICK i \in 1 .. 24 : i = index + 1
  BY SMT DEF TileIndices, ButtonCount, Columns, Rows
<1>2. PICK top \in 0 .. 6, bottom \in 1 .. 6 : top = Labels[i][1] /\ bottom = Labels[i][2]
  BY LabelSizes
<1>3. PICK icon, upper, lower, single :
        /\ icon = Rect(12, 2, 56, 44) /\ upper = TileText(49, top)
        /\ lower = TileText(64, bottom)
        /\ single = TileText(57, IF top # 0 THEN top ELSE bottom)
  OBVIOUS
<1>4. TileParts(index) \in {{icon, upper, lower}, {icon, single}}
      /\ (top = 0 => TileParts(index) = {icon, single})
  BY <1>1, <1>2, <1>3 DEF TileParts
<1>5. TileWidth = 80 /\ TileHeight = 80
  BY SMT DEF TileWidth, TileHeight, Width, Height, Columns, Rows
<1>6. /\ Inside(icon, 80, 80) /\ Inside(lower, 80, 80) /\ Inside(single, 80, 80)
      /\ Apart(icon, lower) /\ Apart(icon, single) /\ Apart(lower, icon) /\ Apart(single, icon)
  BY <1>2, <1>3, SMT DEF Rect, TileText, Inside, Apart
<1>7. top # 0 => /\ Inside(upper, 80, 80)
                 /\ Apart(icon, upper) /\ Apart(upper, lower)
                 /\ Apart(upper, icon) /\ Apart(lower, upper)
  BY <1>2, <1>3, SMT DEF Rect, TileText, Inside, Apart
<1>. QED
  BY <1>4, <1>5, <1>6, <1>7

-------------------------------------------------------------------------------
\* FrameShowsPage.

\* What a frame may be of.
ShownInv ==
  shown.usb \in BOOLEAN /\ shown.page \in 0 .. 3 /\ shown.chars \in Nat

LEMMA InitShown == PanelInit => ShownInv
BY DEF PanelInit, ShownInv, ShortText

LEMMA NextShown ==
  ASSUME ShownInv, [PanelNext]_panelVars PROVE ShownInv'
<1>1. CASE StartFrame
  BY <1>1, PanelAssumption DEF StartFrame, ShownInv
<1>2. CASE ~StartFrame
  <2>1. shown' = shown
    BY <1>2 DEF PanelNext, panelVars, LcdInit, Fill, Stripe, FrameOver, RenderButton, TouchPoll
  <2>. QED
    BY <2>1 DEF ShownInv
<1>. QED
  BY <1>1, <1>2

\* A value of a page is one of the fields.
LEMMA FieldLength ==
  ASSUME ShownInv, NEW v \in ValuesOf(shown.usb, shown.page)
  PROVE  Chars[v.field] \in Nat
<1>1. v.field \in Fields
  BY DEF Fields, ValuesOf
<1>2. shown.chars \in Nat /\ ShortText \in Nat
  BY DEF ShownInv, ShortText
<1>. QED
  BY <1>1, <1>2 DEF Chars

\* What FrameShowsPage says of either board.
LEMMA StripesShow ==
  ASSUME StripesInv, step = "drawn", NEW a, Placed(a)
  PROVE  UNION {RowsIn(stripes[i], StripeOf, a.y, a.h) : i \in DOMAIN stripes}
           = a.y .. a.y + a.h - 1
<1>1. PICK y \in Nat, h \in Nat : y = a.y /\ h = a.h /\ y + h <= Height
  BY DEF Placed
<1>. QED
  BY <1>1, RowsCovered

LEMMA DisplayFrame ==
  ASSUME StripesInv, ShownInv, step = "drawn", firmware = "display"
  PROVE  LET values == ValuesOf(shown.usb, shown.page)
             areas == {Rect(v.x, v.y, v.w, v.h) : v \in values}
                        \cup FixedOf(shown.usb, shown.page)
         IN  /\ \A a, b \in areas : a # b => Apart(a, b)
             /\ \A a \in areas :
                  /\ Inside(a, Width, Height)
                  /\ UNION {RowsIn(stripes[i], StripeHeight, a.y, a.h) : i \in DOMAIN stripes}
                       = a.y .. a.y + a.h - 1
             /\ shown.usb =>
                  PageNeedsScroll(shown.usb, shown.page, Chars)
                    = (\E v \in values : Overflow(v, Chars[v.field]) > 0)
             /\ \A v \in values : ScrollsThrough(v, Chars[v.field])
<1>. DEFINE areas == AreasOf(shown.usb, shown.page)
            values == ValuesOf(shown.usb, shown.page)
<1>1. shown.usb \in BOOLEAN /\ shown.page \in 0 .. 3
  BY DEF ShownInv
<1>2. /\ \A a, b \in areas : a # b => Apart(a, b)
      /\ \A a \in areas : Placed(a)
      /\ \A v \in values : Scrollable(v)
  BY <1>1, PageAreas
<1>3. StripeOf = StripeHeight
  BY DEF StripeOf
<1>4. ASSUME NEW a \in areas
      PROVE  /\ Inside(a, Width, Height)
             /\ UNION {RowsIn(stripes[i], StripeHeight, a.y, a.h) : i \in DOMAIN stripes}
                  = a.y .. a.y + a.h - 1
  <2>1. Placed(a)
    BY <1>2
  <2>. QED
    BY <1>3, <2>1, StripesShow DEF Placed
<1>5. ASSUME NEW v \in values
      PROVE  /\ ScrollsThrough(v, Chars[v.field])
             /\ TooWide(Chars[v.field], v.scale, v.w) <=> Overflow(v, Chars[v.field]) > 0
  <2>1. PICK n \in Nat : n = Chars[v.field]
    BY FieldLength
  <2>2. Scrollable(v)
    BY <1>2
  <2>3. ScrollsThrough(v, n)
    BY <2>2, ValueScrolls DEF Scrollable
  <2>4. TooWide(n, v.scale, v.w) <=> Overflow(v, n) > 0
    BY <2>2, WideOverflows
  <2>. QED
    BY <2>1, <2>3, <2>4
<1>6. ASSUME shown.usb
      PROVE  PageNeedsScroll(shown.usb, shown.page, Chars)
               = (\E v \in values : Overflow(v, Chars[v.field]) > 0)
  <2>1. shown.usb = TRUE
    BY <1>1, <1>6
  <2>2. PICK chars : chars = Chars
    OBVIOUS
  <2>3. PageNeedsScroll(TRUE, shown.page, chars)
          <=> \E v \in values : TooWide(chars[v.field], v.scale, v.w)
    BY <1>1, <2>1, PageChecked
  <2>4. (\E v \in values : TooWide(chars[v.field], v.scale, v.w))
          <=> \E v \in values : Overflow(v, chars[v.field]) > 0
    BY <1>5, <2>2
  <2>5. PageNeedsScroll(TRUE, shown.page, chars) \in BOOLEAN
    BY DEF PageNeedsScroll
  <2>. QED
    BY <2>1, <2>2, <2>3, <2>4, <2>5
<1>. QED
  BY <1>2, <1>4, <1>5, <1>6 DEF AreasOf

LEMMA KeyboardFrame ==
  ASSUME StripesInv, step = "drawn", firmware = "keyboard"
  PROVE  /\ \A index \in 0 .. ButtonCount - 1 :
              /\ \A a \in TileParts(index) : Inside(a, TileWidth, TileHeight)
              /\ \A a, b \in TileParts(index) : a # b => Apart(a, b)
         /\ \A a, b \in SetupTexts : a # b => Apart(a, b)
         /\ \A a \in SetupTexts :
              /\ Inside(a, Width, Height)
              /\ UNION {RowsIn(stripes[i], SetupStripeHeight, a.y, a.h) : i \in DOMAIN stripes}
                   = a.y .. a.y + a.h - 1
<1>1. StripeOf = SetupStripeHeight
  BY DEF StripeOf
<1>2. ASSUME NEW a \in SetupTexts
      PROVE  /\ Inside(a, Width, Height)
             /\ UNION {RowsIn(stripes[i], SetupStripeHeight, a.y, a.h) : i \in DOMAIN stripes}
                  = a.y .. a.y + a.h - 1
  <2>1. Placed(a)
    BY SetupPlaced
  <2>. QED
    BY <1>1, <2>1, StripesShow DEF Placed
<1>. QED
  BY <1>2, SetupPlaced, TilePlaced DEF TileIndices

\* A finished frame shows its page, whatever the lengths of its fields (dashboard.c,
\* ui_render_startup and ui_render_button, page_needs_scroll and scroll_offset).
THEOREM FramesAlwaysShowPage == PanelSpec => []FrameShowsPage
<1>1. PanelInit => BoardInv /\ ShownInv
  BY InitBoard, InitShown
<1>2. BoardInv /\ ShownInv /\ [PanelNext]_panelVars => BoardInv' /\ ShownInv'
  BY NextBoard, NextShown
<1>3. ASSUME BoardInv, ShownInv PROVE FrameShowsPage
  <2>1. SUFFICES ASSUME step = "drawn" PROVE FrameShowsPage
    BY DEF FrameShowsPage
  <2>2. StripesInv /\ firmware \in {"display", "keyboard"}
    BY <1>3 DEF BoardInv, StripesInv
  <2>3. /\ \A i \in 1 .. Len(stripes) - 1 :
             stripes[i + 1] = stripes[i] + StripeRows(stripes[i])
        /\ Last(stripes) + StripeRows(Last(stripes)) = Height
    BY <2>1, <2>2, StripesFill
  <2>4. CASE firmware = "display"
    BY <1>3, <2>1, <2>2, <2>3, <2>4, DisplayFrame, Zenon DEF FrameShowsPage
  <2>5. CASE firmware = "keyboard"
    BY <1>3, <2>1, <2>2, <2>3, <2>5, KeyboardFrame, Zenon DEF FrameShowsPage
  <2>. QED
    BY <2>2, <2>4, <2>5
<1>. QED
  BY <1>1, <1>2, <1>3, PTL DEF PanelSpec
===============================================================================
