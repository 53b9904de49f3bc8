---------------------------- MODULE LcdDriverProofs ----------------------------
(***************************************************************************)
(* Theorems about LcdDriver, for every rectangle on the screen, every number *)
(* of pixels and every panel that a command can be sent to.                *)
(*                                                                         *)
(* A call of lcd.c is a sequence of transfers, and After follows the panel *)
(* through them; AfterBoth splits it where the sequence is put together, so *)
(* that a call is taken command by command.                                *)
(***************************************************************************)
EXTENDS LcdDriver, SequenceTheorems, WellFoundedInduction, TLAPS

-------------------------------------------------------------------------------
\* Transfers, one after another.

\* Induction over the numbers up to n, for the set of those with a property.
LEMMA CountUp ==
  ASSUME NEW n \in Nat, NEW S \in SUBSET (0 .. n), 0 \in S,
         \A i \in 0 .. n - 1 : i \in S => i + 1 \in S
  PROVE  S = 0 .. n
<1> SUFFICES ASSUME (0 .. n) \ S # {} PROVE FALSE
  OBVIOUS
<1>1. (0 .. n) \ S \subseteq Nat
  OBVIOUS
<1>2. PICK x \in (0 .. n) \ S : \A y \in (0 .. n) \ S : ~(<<y, x>> \in OpToRel(<, Nat))
  BY <1>1, NatLessThanWellFounded, WFMin
<1>3. \A y \in (0 .. n) \ S : ~(y < x)
  BY <1>1, <1>2 DEF OpToRel
<1>4. x # 0 /\ x - 1 \in 0 .. n - 1
  OBVIOUS
<1>5. x - 1 \in S
  BY <1>3, <1>4
<1>. QED
  BY <1>4, <1>5

\* The panel after each transfer: seen[i] is the panel after the first i.
Seen(seen, p, transfers) ==
  /\ seen[0] = p
  /\ \A i \in 1 .. Len(transfers) : seen[i] = Take(seen[i - 1], transfers[i])

\* After is the last of them.
LEMMA AfterSeen ==
  ASSUME NEW p, NEW transfers, Len(transfers) \in Nat
  PROVE  \E seen : /\ Seen(seen, p, transfers)
                   /\ After(p, transfers) = seen[Len(transfers)]
<1> DEFINE R(f, n) == f = [i \in 0 .. n |-> IF i = 0 THEN p
                                            ELSE Take(f[i - 1], transfers[i])]
           S == {n \in 0 .. Len(transfers) : \E f : R(f, n)}
<1>1. 0 \in S
  <2> DEFINE z == [i \in 0 .. 0 |-> p]
  <2>1. \A i \in 0 .. 0 : i = 0
    OBVIOUS
  <2>2. R(z, 0)
    BY <2>1
  <2>3. \E f : R(f, 0)
    <3> HIDE DEF R
    <3>. QED
      BY <2>2
  <2>. QED
    BY <2>3
<1>2. ASSUME NEW n \in 0 .. Len(transfers) - 1, n \in S PROVE n + 1 \in S
  <2>1. PICK f : R(f, n)
    BY <1>2
  <2> DEFINE g == [i \in 0 .. n + 1 |-> IF i = n + 1 THEN Take(f[n], transfers[n + 1])
                                       ELSE f[i]]
             h == [i \in 0 .. n + 1 |-> IF i = 0 THEN p ELSE Take(g[i - 1], transfers[i])]
  <2>2. ASSUME NEW i \in 0 .. n + 1 PROVE g[i] = h[i]
    <3>1. CASE i = 0
      <4>1. 0 \in 0 .. n /\ i # n + 1
        BY <3>1
      <4>2. f[0] = p
        BY <2>1, <4>1
      <4>. QED
        BY <3>1, <4>1, <4>2
    <3>2. CASE i = n + 1
      <4>1. i # 0 /\ i - 1 = n /\ n \in 0 .. n + 1 /\ n # n + 1
        BY <3>2
      <4>2. h[i] = Take(g[n], transfers[n + 1])
        BY <3>2, <4>1
      <4>3. g[n] = f[n]
        BY <4>1
      <4>. QED
        BY <3>2, <4>2, <4>3
    <3>3. CASE i \in 1 .. n
      <4>1. i # 0 /\ i - 1 \in 0 .. n /\ i - 1 # n + 1 /\ i # n + 1 /\ i \in 0 .. n
        BY <3>3
      <4>2. f[i] = Take(f[i - 1], transfers[i])
        BY <2>1, <4>1
      <4>3. g[i - 1] = f[i - 1]
        BY <4>1
      <4>. QED
        BY <4>1, <4>2, <4>3
    <3>. QED
      BY <3>1, <3>2, <3>3
  <2>3. R(g, n + 1)
    BY <2>2
  <2>4. \E f2 : R(f2, n + 1)
    <3> HIDE DEF R
    <3>. QED
      BY <2>3
  <2>. QED
    BY <1>2, <2>4
<1>3. S = 0 .. Len(transfers)
  <2> HIDE DEF S
  <2>1. S \in SUBSET (0 .. Len(transfers))
    BY DEF S
  <2>. QED
    BY <1>1, <1>2, <2>1, CountUp
<1>4. \E f : R(f, Len(transfers))
  BY <1>3
<1>5. PICK f : f = (CHOOSE g : R(g, Len(transfers))) /\ R(f, Len(transfers))
  <2> HIDE DEF R
  <2>. QED
    BY <1>4
<1>6. After(p, transfers) = f[Len(transfers)]
  BY <1>5 DEF After
<1>7. Seen(f, p, transfers)
  <2>1. 0 \in 0 .. Len(transfers)
    OBVIOUS
  <2>2. f[0] = p
    BY <1>5, <2>1
  <2>3. ASSUME NEW i \in 1 .. Len(transfers)
        PROVE  f[i] = Take(f[i - 1], transfers[i])
    <3>1. i \in 0 .. Len(transfers) /\ i # 0
      OBVIOUS
    <3>. QED
      BY <1>5, <3>1
  <2>. QED
    BY <2>2, <2>3 DEF Seen
<1>. QED
  BY <1>6, <1>7

\* There is only one panel after each transfer.
LEMMA SeenOnce ==
  ASSUME NEW p, NEW transfers, Len(transfers) \in Nat, NEW f, NEW g,
         Seen(f, p, transfers), Seen(g, p, transfers)
  PROVE  \A i \in 0 .. Len(transfers) : f[i] = g[i]
<1> DEFINE S == {i \in 0 .. Len(transfers) : f[i] = g[i]}
<1>1. 0 \in S
  BY DEF Seen
<1>2. ASSUME NEW i \in 0 .. Len(transfers) - 1, i \in S PROVE i + 1 \in S
  <2>1. i + 1 \in 1 .. Len(transfers) /\ (i + 1) - 1 = i /\ i + 1 \in 0 .. Len(transfers)
    OBVIOUS
  <2>2. f[i + 1] = Take(f[i], transfers[i + 1]) /\ g[i + 1] = Take(g[i], transfers[i + 1])
    BY <2>1 DEF Seen
  <2>. QED
    BY <1>2, <2>1, <2>2
<1>3. S = 0 .. Len(transfers)
  <2> HIDE DEF S
  <2>1. S \in SUBSET (0 .. Len(transfers))
    BY DEF S
  <2>. QED
    BY <1>1, <1>2, <2>1, CountUp
<1>. QED
  BY <1>3

LEMMA AfterIs ==
  ASSUME NEW p, NEW transfers, Len(transfers) \in Nat, NEW f, Seen(f, p, transfers)
  PROVE  After(p, transfers) = f[Len(transfers)]
<1>1. PICK g : Seen(g, p, transfers) /\ After(p, transfers) = g[Len(transfers)]
  BY AfterSeen
<1>2. f[Len(transfers)] = g[Len(transfers)]
  BY <1>1, SeenOnce
<1>. QED
  BY <1>1, <1>2

\* What is written in two parts.
LEMMA AfterBoth ==
  ASSUME NEW p, NEW T, NEW s \in Seq(T), NEW t \in Seq(T)
  PROVE  After(p, s \o t) = After(After(p, s), t)
<1> DEFINE m == Len(s)
           n == Len(t)
<1>0. m \in Nat /\ n \in Nat /\ Len(s \o t) = m + n
  OBVIOUS
<1>1. PICK f : Seen(f, p, s) /\ After(p, s) = f[m]
  BY <1>0, AfterSeen
<1>2. PICK g : Seen(g, f[m], t) /\ After(f[m], t) = g[n]
  BY <1>0, AfterSeen
<1> DEFINE h == [i \in 0 .. m + n |-> IF i <= m THEN f[i] ELSE g[i - m]]
<1>3. h[0] = p
  BY <1>0, <1>1 DEF Seen
<1>4. ASSUME NEW i \in 1 .. m + n PROVE h[i] = Take(h[i - 1], (s \o t)[i])
  <2>1. CASE i <= m
    <3>1. /\ i \in 1 .. m /\ i \in 0 .. m + n /\ i - 1 \in 0 .. m + n /\ i - 1 <= m
          /\ (s \o t)[i] = s[i]
      BY <1>0, <2>1
    <3>2. f[i] = Take(f[i - 1], s[i])
      BY <1>1, <3>1 DEF Seen
    <3>. QED
      BY <2>1, <3>1, <3>2
  <2>2. CASE i = m + 1
    <3>1. /\ 1 \in 1 .. n /\ i \in 0 .. m + n /\ i - 1 = m /\ m \in 0 .. m + n
          /\ ~(i <= m) /\ m <= m /\ i - m = 1 /\ 1 - 1 = 0
          /\ (s \o t)[i] = t[1]
      BY <1>0, <2>2
    <3>2. g[1] = Take(g[0], t[1]) /\ g[0] = f[m]
      BY <1>2, <3>1 DEF Seen
    <3>3. h[i] = g[1] /\ h[i - 1] = f[m]
      BY <3>1
    <3>. QED
      BY <3>1, <3>2, <3>3
  <2>3. CASE i > m + 1
    <3>1. /\ i - m \in 1 .. n /\ i \in 0 .. m + n /\ i - 1 \in 0 .. m + n
          /\ ~(i <= m) /\ ~(i - 1 <= m) /\ (i - 1) - m = (i - m) - 1
          /\ (s \o t)[i] = t[i - m]
      BY <1>0, <2>3
    <3>2. g[i - m] = Take(g[(i - m) - 1], t[i - m])
      BY <1>2, <3>1 DEF Seen
    <3>3. h[i] = g[i - m] /\ h[i - 1] = g[(i - m) - 1]
      BY <3>1
    <3>. QED
      BY <3>1, <3>2, <3>3
  <2>. QED
    BY <1>0, <2>1, <2>2, <2>3
<1>5. Seen(h, p, s \o t)
  <2> HIDE DEF h, m, n
  <2>. QED
    BY <1>0, <1>3, <1>4 DEF Seen
<1>6. After(p, s \o t) = h[m + n]
  <2> HIDE DEF h, m, n
  <2>1. Len(s \o t) \in Nat
    BY <1>0
  <2>2. After(p, s \o t) = h[Len(s \o t)]
    BY <1>5, <2>1, AfterIs
  <2>. QED
    BY <1>0, <2>2
<1>7. h[m + n] = g[n]
  <2>1. CASE n = 0
    <3>1. h[m + n] = f[m] /\ g[n] = f[m]
      BY <1>0, <1>2, <2>1 DEF Seen
    <3>. QED
      BY <3>1
  <2>2. CASE n > 0
    <3>1. ~(m + n <= m) /\ (m + n) - m = n /\ m + n \in 0 .. m + n
      BY <1>0, <2>2
    <3>. QED
      BY <3>1
  <2>. QED
    BY <1>0, <2>1, <2>2
<1>. QED
  BY <1>1, <1>2, <1>6, <1>7

\* A set of panels that no transfer leads out of.
LEMMA AfterStays ==
  ASSUME NEW S, NEW p \in S, NEW transfers, Len(transfers) \in Nat,
         \A q \in S, i \in 1 .. Len(transfers) : Take(q, transfers[i]) \in S
  PROVE  After(p, transfers) \in S
<1>1. PICK f : Seen(f, p, transfers) /\ After(p, transfers) = f[Len(transfers)]
  BY AfterSeen
<1> DEFINE D == {i \in 0 .. Len(transfers) : f[i] \in S}
<1>2. 0 \in D
  BY <1>1 DEF Seen
<1>3. ASSUME NEW i \in 0 .. Len(transfers) - 1, i \in D PROVE i + 1 \in D
  <2>1. i + 1 \in 1 .. Len(transfers) /\ (i + 1) - 1 = i /\ i + 1 \in 0 .. Len(transfers)
    OBVIOUS
  <2>2. f[i + 1] = Take(f[i], transfers[i + 1])
    BY <1>1, <2>1 DEF Seen
  <2>. QED
    BY <1>3, <2>1, <2>2
<1>4. D = 0 .. Len(transfers)
  <2> HIDE DEF D
  <2>1. D \in SUBSET (0 .. Len(transfers))
    BY DEF D
  <2>. QED
    BY <1>2, <1>3, <2>1, CountUp
<1>. QED
  BY <1>1, <1>4

-------------------------------------------------------------------------------
\* What one transfer does.

Transfers == [mhz : Nat, dc : {0, 1}, data : Seq(Nat), bytes : Nat]
Panels ==
  [command : Nat, params : Seq(Nat), columns : Int \X Int, rows : Int \X Int,
   format : Nat, scan : Nat, awake : BOOLEAN, on : BOOLEAN, bytes : Nat,
   garbled : BOOLEAN]

\* What q has of p when only windows and pixels were written in between.
Keeps(p, q) ==
  /\ q \in Panels /\ q.format = p.format /\ q.scan = p.scan
  /\ (p.awake => q.awake) /\ (p.on => q.on) /\ (~p.garbled => ~q.garbled)

LEMMA FastestIs ==
  ASSUME NEW p PROVE FastestMHz(p) \in {5, 15}
BY DEF FastestMHz, LcdMHz

\* The command byte of a transfer.
LEMMA CommandTaken ==
  ASSUME NEW p \in Panels, NEW mhz \in Nat, mhz <= FastestMHz(p),
         NEW data \in Seq(Nat), data # <<>>
  PROVE  LET q == Take(p, Transfer(mhz, 0, data))
         IN  /\ Keeps(p, q) /\ q.command = data[1] /\ q.params = <<>>
             /\ q.columns = p.columns /\ q.rows = p.rows
             /\ data[1] = 17 => q.awake
             /\ data[1] = 41 => q.on
             /\ data[1] = 44 => q.bytes = 0
<1> DEFINE t == Transfer(mhz, 0, data)
           q == Take(p, t)
           awake == p.awake \/ data[1] = 17
           on == p.on \/ data[1] = 41
           bytes == IF data[1] = 44 THEN 0 ELSE p.bytes
<1>1. t.mhz = mhz /\ t.dc = 0 /\ t.data = data
  BY DEF Transfer
<1>2. q = TakeCommand(p, data[1])
  <2> HIDE DEF t
  <2>. QED
    BY <1>1, FastestIs DEF Take
<1>3. data[1] \in Nat
  BY ElementOfSeq
<1>4. q = [command |-> data[1], params |-> <<>>, columns |-> p.columns, rows |-> p.rows,
           format |-> p.format, scan |-> p.scan, awake |-> awake, on |-> on,
           bytes |-> bytes, garbled |-> p.garbled]
  BY <1>2 DEF TakeCommand, Panels
<1>5. /\ <<>> \in Seq(Nat) /\ bytes \in Nat /\ awake \in BOOLEAN /\ on \in BOOLEAN
      /\ (p.awake => awake) /\ (p.on => on)
      /\ (data[1] = 17 => awake) /\ (data[1] = 41 => on) /\ (data[1] = 44 => bytes = 0)
  BY DEF Panels
<1> HIDE DEF q, awake, on, bytes
<1>6. q \in Panels
  BY <1>3, <1>4, <1>5 DEF Panels
<1>7. /\ q.command = data[1] /\ q.params = <<>> /\ q.columns = p.columns
      /\ q.rows = p.rows /\ q.format = p.format /\ q.scan = p.scan /\ q.awake = awake
      /\ q.on = on /\ q.bytes = bytes /\ q.garbled = p.garbled
  BY <1>4
<1>. QED
  BY <1>5, <1>6, <1>7 DEF Keeps, q

\* A parameter, and what the panel q has of it that was p.
IsParameter(t, mhz) == t.mhz = mhz /\ t.dc = 1 /\ t.data[2] \in Nat

Parameter(p, t, q) ==
  LET d == t.data[2]
      all == Append(p.params, d)
  IN  /\ q \in Panels /\ q.command = p.command /\ q.params = all
      /\ q.columns = IF p.command = 42 /\ Len(all) = 4 THEN Range16(all) ELSE p.columns
      /\ q.rows = IF p.command = 43 /\ Len(all) = 4 THEN Range16(all) ELSE p.rows
      /\ q.format = IF p.command = 58 THEN d ELSE p.format
      /\ q.scan = IF p.command = 54 THEN d ELSE p.scan
      /\ (p.awake => q.awake) /\ (p.on => q.on) /\ (~p.garbled => ~q.garbled)

LEMMA FourNumbers ==
  ASSUME NEW s \in Seq(Nat), Len(s) = 4
  PROVE  s[1] \in Nat /\ s[2] \in Nat /\ s[3] \in Nat /\ s[4] \in Nat
<1>1. \A i \in 1 .. 4 : s[i] \in Nat
  BY ElementOfSeq
<1>. QED
  BY <1>1

LEMMA ParameterTaken ==
  ASSUME NEW p \in Panels, NEW mhz \in Nat, mhz <= FastestMHz(p), p.command # 44,
         NEW t, IsParameter(t, mhz)
  PROVE  Parameter(p, t, Take(p, t))
<1> DEFINE d == t.data[2]
           all == Append(p.params, d)
           columns == IF p.command = 42 /\ Len(all) = 4 THEN Range16(all) ELSE p.columns
           rows == IF p.command = 43 /\ Len(all) = 4 THEN Range16(all) ELSE p.rows
           format == IF p.command = 58 THEN d ELSE p.format
           scan == IF p.command = 54 THEN d ELSE p.scan
           q == Take(p, t)
<1>1. d \in Nat
  BY DEF IsParameter
<1>2. q = TakeParameter(p, d)
  BY FastestIs DEF Take, IsParameter
<1> HIDE DEF d
<1>3. all \in Seq(Nat)
  BY <1>1 DEF Panels
<1>4. Len(all) = 4 => Range16(all) \in Int \X Int
  <2>1. Len(all) = 4 => /\ all[1] \in Nat /\ all[2] \in Nat
                        /\ all[3] \in Nat /\ all[4] \in Nat
    BY <1>3, FourNumbers
  <2> HIDE DEF all
  <2>. QED
    BY <2>1 DEF Range16
<1>5. columns \in Int \X Int /\ rows \in Int \X Int /\ format \in Nat /\ scan \in Nat
  BY <1>1, <1>4 DEF Panels
<1>6. q = [command |-> p.command, params |-> all, columns |-> columns, rows |-> rows,
           format |-> format, scan |-> scan, awake |-> p.awake, on |-> p.on,
           bytes |-> p.bytes, garbled |-> p.garbled]
  BY <1>2 DEF TakeParameter, Panels
<1> HIDE DEF all, columns, rows, format, scan
<1>7. q \in Panels
  BY <1>3, <1>5, <1>6 DEF Panels
<1> HIDE DEF q
<1>8. /\ q.command = p.command /\ q.params = all /\ q.columns = columns
      /\ q.rows = rows /\ q.format = format /\ q.scan = scan /\ q.awake = p.awake
      /\ q.on = p.on /\ q.garbled = p.garbled
  BY <1>6
<1>. QED
  BY <1>7, <1>8 DEF Parameter, q, all, columns, rows, format, scan, d

LEMMA ParameterIs ==
  ASSUME NEW mhz, NEW d \in Nat, NEW t, t = Transfer(mhz, 1, <<0, d>>)
  PROVE  IsParameter(t, mhz) /\ t.data[2] = d
BY DEF Transfer, IsParameter

\* Pixels, after the command for them.
LEMMA PixelsTaken ==
  ASSUME NEW p \in Panels, NEW mhz \in Nat, mhz <= FastestMHz(p), p.command = 44,
         NEW n \in Nat
  PROVE  LET q == Take(p, Pixels(mhz, n))
         IN  /\ Keeps(p, q) /\ q.columns = p.columns /\ q.rows = p.rows
             /\ q.bytes = p.bytes + n
<1> DEFINE t == Pixels(mhz, n)
           q == Take(p, t)
<1>1. t.mhz = mhz /\ t.dc = 1 /\ t.bytes = n
  BY DEF Pixels
<1>2. q = [p EXCEPT !.bytes = @ + n]
  <2> HIDE DEF t
  <2>. QED
    BY <1>1, FastestIs DEF Take
<1>3. q = [command |-> p.command, params |-> p.params, columns |-> p.columns,
           rows |-> p.rows, format |-> p.format, scan |-> p.scan, awake |-> p.awake,
           on |-> p.on, bytes |-> p.bytes + n, garbled |-> p.garbled]
  BY <1>2 DEF Panels
<1>4. q \in Panels
  <2>1. p.bytes + n \in Nat
    BY DEF Panels
  <2>. QED
    BY <1>3, <2>1 DEF Panels
<1> HIDE DEF q
<1>. QED
  BY <1>3, <1>4 DEF Keeps, q

LEMMA AfterOne ==
  ASSUME NEW p, NEW t PROVE After(p, <<t>>) = Take(p, t)
<1>1. Len(<<t>>) \in Nat /\ Len(<<t>>) = 1 /\ <<t>>[1] = t
  OBVIOUS
<1>2. PICK seen : Seen(seen, p, <<t>>) /\ After(p, <<t>>) = seen[1]
  BY <1>1, AfterSeen
<1>3. seen[0] = p /\ seen[1] = Take(seen[1 - 1], t)
  BY <1>1, <1>2 DEF Seen
<1>. QED
  BY <1>2, <1>3

\* The transfers of a command.
LEMMA CommandParts ==
  ASSUME NEW mhz \in Nat, NEW c \in Nat, NEW data \in Seq(Nat)
  PROVE  LET head == <<Transfer(mhz, 0, <<c>>)>>
             params == [i \in 1 .. Len(data) |-> Transfer(mhz, 1, <<0, data[i]>>)]
         IN  /\ head \in Seq(Transfers) /\ params \in Seq(Transfers)
             /\ Len(params) = Len(data)
             /\ WriteCommand(mhz, c, data) = head \o params
             /\ WriteCommand(mhz, c, data) \in Seq(Transfers)
<1> DEFINE head == <<Transfer(mhz, 0, <<c>>)>>
           params == [i \in 1 .. Len(data) |-> Transfer(mhz, 1, <<0, data[i]>>)]
<1>1. \A d \in Seq(Nat), dc \in {0, 1} : Transfer(mhz, dc, d) \in Transfers
  BY DEF Transfer, Transfers
<1>2. head \in Seq(Transfers)
  <2>1. <<c>> \in Seq(Nat)
    OBVIOUS
  <2>2. Transfer(mhz, 0, <<c>>) \in Transfers
    BY <1>1, <2>1
  <2>. QED
    BY <2>2
<1>3. params \in Seq(Transfers) /\ Len(params) = Len(data)
  <2>1. ASSUME NEW i \in 1 .. Len(data)
        PROVE  Transfer(mhz, 1, <<0, data[i]>>) \in Transfers
    <3>1. data[i] \in Nat
      BY ElementOfSeq
    <3>2. <<0, data[i]>> \in Seq(Nat)
      BY <3>1
    <3>. QED
      BY <1>1, <3>2
  <2>2. Len(data) \in Nat
    OBVIOUS
  <2>. QED
    BY <2>1, <2>2
<1>4. WriteCommand(mhz, c, data) = head \o params
  BY DEF WriteCommand
<1> HIDE DEF head, params
<1>5. head \o params \in Seq(Transfers)
  BY <1>2, <1>3, ConcatProperties
<1>. QED
  BY <1>2, <1>3, <1>4, <1>5 DEF head, params

-------------------------------------------------------------------------------
\* Commands.

\* A command is its byte, and then its parameters.
LEMMA CommandByte ==
  ASSUME NEW p \in Panels, NEW mhz \in Nat, mhz <= FastestMHz(p), NEW c \in Nat
  PROVE  LET q == Take(p, Transfer(mhz, 0, <<c>>))
         IN  /\ Keeps(p, q) /\ q.command = c /\ q.params = <<>>
             /\ q.columns = p.columns /\ q.rows = p.rows
             /\ (c = 17 => q.awake) /\ (c = 41 => q.on) /\ (c = 44 => q.bytes = 0)
             /\ mhz <= FastestMHz(q)
<1>1. PICK data : data = <<c>>
  OBVIOUS
<1>2. data \in Seq(Nat) /\ data # <<>> /\ data[1] = c
  BY <1>1
<1> DEFINE q == Take(p, Transfer(mhz, 0, data))
<1>3. /\ Keeps(p, q) /\ q.command = data[1] /\ q.params = <<>>
      /\ q.columns = p.columns /\ q.rows = p.rows
      /\ (data[1] = 17 => q.awake) /\ (data[1] = 41 => q.on)
      /\ (data[1] = 44 => q.bytes = 0)
  BY <1>2, CommandTaken
<1> HIDE DEF q
<1>4. mhz <= FastestMHz(q)
  BY <1>3 DEF Keeps, FastestMHz
<1>. QED
  BY <1>1, <1>2, <1>3, <1>4 DEF q

LEMMA AfterCommand ==
  ASSUME NEW p, NEW mhz \in Nat, NEW c \in Nat, NEW data \in Seq(Nat)
  PROVE  LET params == [i \in 1 .. Len(data) |-> Transfer(mhz, 1, <<0, data[i]>>)]
         IN  /\ After(p, WriteCommand(mhz, c, data))
                  = After(Take(p, Transfer(mhz, 0, <<c>>)), params)
             /\ Len(params) = Len(data)
<1> DEFINE head == <<Transfer(mhz, 0, <<c>>)>>
           params == [i \in 1 .. Len(data) |-> Transfer(mhz, 1, <<0, data[i]>>)]
<1>1. /\ head \in Seq(Transfers) /\ params \in Seq(Transfers)
      /\ Len(params) = Len(data) /\ WriteCommand(mhz, c, data) = head \o params
  BY CommandParts
<1>2. After(p, head) = Take(p, Transfer(mhz, 0, <<c>>))
  BY AfterOne
<1> HIDE DEF head, params
<1>3. After(p, head \o params) = After(After(p, head), params)
  BY <1>1, AfterBoth
<1>. QED
  BY <1>1, <1>2, <1>3 DEF params

\* A command that sets neither the window nor the format or direction of the
\* pixels, whatever its parameters.
LEMMA QuietCommand ==
  ASSUME NEW p \in Panels, NEW mhz \in Nat, mhz <= FastestMHz(p),
         NEW c \in Nat \ {42, 43, 44, 54, 58}, NEW data \in Seq(Nat)
  PROVE  LET q == After(p, WriteCommand(mhz, c, data))
         IN  Keeps(p, q) /\ (c = 17 => q.awake) /\ (c = 41 => q.on)
<1> DEFINE head == Transfer(mhz, 0, <<c>>)
           params == [i \in 1 .. Len(data) |-> Transfer(mhz, 1, <<0, data[i]>>)]
           r == Take(p, head)
           S == {q \in Panels : q.command = c /\ Keeps(r, q)}
           q == After(p, WriteCommand(mhz, c, data))
<1>1. Keeps(p, r) /\ r.command = c /\ (c = 17 => r.awake) /\ (c = 41 => r.on)
  BY CommandByte
<1>2. q = After(r, params)
  BY AfterCommand
<1>3. Len(params) \in Nat /\ Len(params) = Len(data)
  BY AfterCommand
<1>4. \A i \in 1 .. Len(data) : data[i] \in Nat
  BY ElementOfSeq
<1> HIDE DEF r, q
<1>5. r \in S
  BY <1>1 DEF Keeps
<1>6. ASSUME NEW u \in S, NEW i \in 1 .. Len(params) PROVE Take(u, params[i]) \in S
  <2>1. IsParameter(params[i], mhz)
    <3>1. params[i] = Transfer(mhz, 1, <<0, data[i]>>) /\ data[i] \in Nat
      BY <1>3, <1>4
    <3>. QED
      BY <3>1, ParameterIs
  <2>2. u \in Panels /\ u.command = c /\ Keeps(r, u) /\ u.command # 44
    OBVIOUS
  <2>3. mhz <= FastestMHz(u)
    BY <1>1, <2>2 DEF Keeps, FastestMHz
  <2> DEFINE w == Take(u, params[i])
  <2>4. /\ w \in Panels /\ w.command = u.command
        /\ w.format = u.format /\ w.scan = u.scan
        /\ (u.awake => w.awake) /\ (u.on => w.on) /\ (~u.garbled => ~w.garbled)
    <3>1. Parameter(u, params[i], w)
      <4> HIDE DEF params
      <4>. QED
        BY <2>1, <2>2, <2>3, ParameterTaken
    <3>2. u.command # 58 /\ u.command # 54
      BY <2>2
    <3> HIDE DEF w
    <3>. QED
      BY <3>1, <3>2 DEF Parameter
  <2> HIDE DEF w
  <2>5. Keeps(r, w)
    BY <2>2, <2>4 DEF Keeps
  <2>6. w \in S
    BY <2>2, <2>4, <2>5
  <2>. QED
    BY <2>6 DEF w
<1>7. q \in S
  <2> HIDE DEF S, params
  <2>. QED
    BY <1>2, <1>3, <1>5, <1>6, AfterStays
<1>8. Keeps(p, q)
  BY <1>1, <1>7 DEF Keeps
<1>9. (c = 17 => q.awake) /\ (c = 41 => q.on)
  BY <1>1, <1>7 DEF Keeps
<1>. QED
  BY <1>8, <1>9 DEF q

\* A command of one byte and one parameter of one byte.
LEMMA OneParameter ==
  ASSUME NEW p \in Panels, NEW mhz \in Nat, mhz <= FastestMHz(p),
         NEW c \in {54, 58}, NEW d \in Nat
  PROVE  LET q == After(p, WriteCommand(mhz, c, <<d>>))
         IN  /\ q \in Panels
             /\ q.format = IF c = 58 THEN d ELSE p.format
             /\ q.scan = IF c = 54 THEN d ELSE p.scan
             /\ (p.awake => q.awake) /\ (p.on => q.on) /\ (~p.garbled => ~q.garbled)
<1> DEFINE head == Transfer(mhz, 0, <<c>>)
           last == Transfer(mhz, 1, <<0, d>>)
           r == Take(p, head)
           q == After(p, WriteCommand(mhz, c, <<d>>))
<1>1. Keeps(p, r) /\ r.command = c
  BY CommandByte
<1>2. q = Take(r, last)
  <2> DEFINE params == [i \in 1 .. Len(<<d>>) |-> Transfer(mhz, 1, <<0, <<d>>[i]>>)]
  <2>1. params = <<last>>
    BY Len(<<d>>) = 1
  <2>2. q = After(r, params)
    <3> DEFINE data == <<d>>
    <3>1. data \in Seq(Nat)
      OBVIOUS
    <3>2. c \in Nat
      OBVIOUS
    <3> HIDE DEF data
    <3>3. After(p, WriteCommand(mhz, c, data))
            = After(r, [i \in 1 .. Len(data) |-> Transfer(mhz, 1, <<0, data[i]>>)])
      BY <3>1, <3>2, AfterCommand
    <3>. QED
      BY <3>3 DEF data
  <2>. QED
    BY <2>1, <2>2, AfterOne
<1> HIDE DEF r, q
<1>3. r \in Panels /\ mhz <= FastestMHz(r) /\ r.command # 44
  BY <1>1 DEF Keeps, FastestMHz
<1>4. /\ q \in Panels
      /\ q.format = IF r.command = 58 THEN d ELSE r.format
      /\ q.scan = IF r.command = 54 THEN d ELSE r.scan
      /\ (r.awake => q.awake) /\ (r.on => q.on) /\ (~r.garbled => ~q.garbled)
  <2>1. IsParameter(last, mhz) /\ last.data[2] = d
    BY ParameterIs
  <2> HIDE DEF last
  <2>2. Parameter(r, last, q)
    BY <1>2, <1>3, <2>1, ParameterTaken
  <2>. QED
    BY <2>1, <2>2 DEF Parameter
<1>. QED
  BY <1>1, <1>4 DEF Keeps, q

LEMMA AppendAt ==
  ASSUME NEW n \in Nat, NEW s \in Seq(Nat), Len(s) = n, NEW d \in Nat
  PROVE  /\ Append(s, d) \in Seq(Nat) /\ Len(Append(s, d)) = n + 1
         /\ \A i \in 1 .. n : Append(s, d)[i] = s[i]
         /\ Append(s, d)[n + 1] = d
BY AppendProperties

\* The panel u while it takes the parameters of command c for a window: like q,
\* but for the parameters.
Taking(q, c, mhz, u) ==
  /\ u \in Panels /\ u.command = c /\ u.format = q.format /\ u.scan = q.scan
  /\ (q.awake => u.awake) /\ (q.on => u.on) /\ (~q.garbled => ~u.garbled)
  /\ mhz <= FastestMHz(u)

LEMMA TakingOne ==
  ASSUME NEW q, NEW c \in {42, 43}, NEW mhz \in Nat, NEW u, Taking(q, c, mhz, u),
         NEW t, IsParameter(t, mhz)
  PROVE  /\ Taking(q, c, mhz, Take(u, t))
         /\ Parameter(u, t, Take(u, t))
<1> DEFINE w == Take(u, t)
<1>1. u \in Panels /\ mhz <= FastestMHz(u) /\ u.command = c /\ u.command # 44
  BY DEF Taking
<1>2. Parameter(u, t, w)
  BY <1>1, ParameterTaken
<1> HIDE DEF w
<1>3. w.format = u.format /\ w.scan = u.scan
  BY <1>1, <1>2 DEF Parameter
<1>4. mhz <= FastestMHz(w)
  BY <1>1, <1>3 DEF FastestMHz
<1>5. Taking(q, c, mhz, w)
  BY <1>1, <1>2, <1>3, <1>4 DEF Taking, Parameter
<1>. QED
  BY <1>2, <1>5 DEF w

\* Four parameters put after one another.
LEMMA FourAppended ==
  ASSUME NEW d1 \in Nat, NEW d2 \in Nat, NEW d3 \in Nat, NEW d4 \in Nat,
         NEW s1, s1 = Append(<<>>, d1), NEW s2, s2 = Append(s1, d2),
         NEW s3, s3 = Append(s2, d3), NEW s4, s4 = Append(s3, d4)
  PROVE  /\ Len(s1) = 1 /\ Len(s2) = 2 /\ Len(s3) = 3 /\ Len(s4) = 4
         /\ s4[1] = d1 /\ s4[2] = d2 /\ s4[3] = d3 /\ s4[4] = d4
<1>1. s1 \in Seq(Nat) /\ Len(s1) = 0 + 1 /\ s1[0 + 1] = d1
  BY EmptySeq, AppendAt
<1>2. s1 \in Seq(Nat) /\ Len(s1) = 1 /\ s1[1] = d1
  BY <1>1
<1>3. s2 \in Seq(Nat) /\ Len(s2) = 1 + 1 /\ s2[1] = s1[1] /\ s2[1 + 1] = d2
  BY <1>2, AppendAt
<1>4. s2 \in Seq(Nat) /\ Len(s2) = 2 /\ s2[1] = d1 /\ s2[2] = d2
  BY <1>2, <1>3
<1>5. /\ s3 \in Seq(Nat) /\ Len(s3) = 2 + 1 /\ s3[1] = s2[1] /\ s3[2] = s2[2]
      /\ s3[2 + 1] = d3
  BY <1>4, AppendAt
<1>6. s3 \in Seq(Nat) /\ Len(s3) = 3 /\ s3[1] = d1 /\ s3[2] = d2 /\ s3[3] = d3
  BY <1>4, <1>5
<1>7. /\ Len(s4) = 3 + 1 /\ s4[1] = s3[1] /\ s4[2] = s3[2] /\ s4[3] = s3[3]
      /\ s4[3 + 1] = d4
  BY <1>6, AppendAt
<1>. QED
  BY <1>2, <1>4, <1>6, <1>7

\* The panel u after four parameters is p with that side of its window.
SideTaken(c, p, t1, t2, t3, t4, u) ==
  LET side == <<t1.data[2] * 256 + t2.data[2], t3.data[2] * 256 + t4.data[2]>>
  IN  /\ u.columns = IF c = 42 THEN side ELSE p.columns
      /\ u.rows = IF c = 43 THEN side ELSE p.rows

\* Four parameters of one byte, and the side of the window they set.
LEMMA FourTaken ==
  ASSUME NEW q, NEW c \in {42, 43}, NEW mhz \in Nat,
         NEW t1, NEW t2, NEW t3, NEW t4, IsParameter(t1, mhz), IsParameter(t2, mhz),
         IsParameter(t3, mhz), IsParameter(t4, mhz),
         NEW u0, Taking(q, c, mhz, u0), u0.params = <<>>
  PROVE  /\ Taking(q, c, mhz, Take(Take(Take(Take(u0, t1), t2), t3), t4))
         /\ SideTaken(c, u0, t1, t2, t3, t4, Take(Take(Take(Take(u0, t1), t2), t3), t4))
<1>0. PICK u1, u2, u3, u4 :
        u1 = Take(u0, t1) /\ u2 = Take(u1, t2) /\ u3 = Take(u2, t3) /\ u4 = Take(u3, t4)
  OBVIOUS
<1>1. PICK d1 \in Nat, d2 \in Nat, d3 \in Nat, d4 \in Nat :
        d1 = t1.data[2] /\ d2 = t2.data[2] /\ d3 = t3.data[2] /\ d4 = t4.data[2]
  BY DEF IsParameter
<1>2. PICK s1, s2, s3, s4 :
        s1 = Append(<<>>, d1) /\ s2 = Append(s1, d2) /\ s3 = Append(s2, d3)
          /\ s4 = Append(s3, d4)
  OBVIOUS
<1>3. /\ Len(s1) = 1 /\ Len(s2) = 2 /\ Len(s3) = 3 /\ Len(s4) = 4
      /\ s4[1] = d1 /\ s4[2] = d2 /\ s4[3] = d3 /\ s4[4] = d4
  BY <1>2, FourAppended
<1>4. /\ Taking(q, c, mhz, u1) /\ u1.params = s1
      /\ u1.columns = u0.columns /\ u1.rows = u0.rows
  <2>1. Taking(q, c, mhz, u1) /\ Parameter(u0, t1, u1)
    BY <1>0, TakingOne
  <2>. QED
    BY <1>1, <1>2, <1>3, <2>1 DEF Parameter
<1>5. /\ Taking(q, c, mhz, u2) /\ u2.params = s2
      /\ u2.columns = u0.columns /\ u2.rows = u0.rows
  <2>1. Taking(q, c, mhz, u2) /\ Parameter(u1, t2, u2)
    BY <1>0, <1>4, TakingOne
  <2>. QED
    BY <1>1, <1>2, <1>3, <1>4, <2>1 DEF Parameter
<1>6. /\ Taking(q, c, mhz, u3) /\ u3.params = s3
      /\ u3.columns = u0.columns /\ u3.rows = u0.rows
  <2>1. Taking(q, c, mhz, u3) /\ Parameter(u2, t3, u3)
    BY <1>0, <1>5, TakingOne
  <2>. QED
    BY <1>1, <1>2, <1>3, <1>5, <2>1 DEF Parameter
<1>7. /\ Taking(q, c, mhz, u4)
      /\ u4.columns = IF c = 42 THEN Range16(s4) ELSE u0.columns
      /\ u4.rows = IF c = 43 THEN Range16(s4) ELSE u0.rows
  <2>1. Taking(q, c, mhz, u4) /\ Parameter(u3, t4, u4)
    BY <1>0, <1>6, TakingOne, ZenonT(60)
  <2>2. u3.command = c
    BY <1>6 DEF Taking
  <2>. QED
    BY <1>1, <1>2, <1>3, <1>6, <2>1, <2>2 DEF Parameter
<1>8. Range16(s4) = <<d1 * 256 + d2, d3 * 256 + d4>>
  BY <1>3 DEF Range16
<1>. QED
  BY <1>0, <1>1, <1>7, <1>8 DEF SideTaken

\* A command that sets one side of the window: four parameters of one byte.
LEMMA FourParameters ==
  ASSUME NEW p \in Panels, NEW mhz \in Nat, mhz <= FastestMHz(p), NEW c \in {42, 43},
         NEW data \in Seq(Nat), Len(data) = 4
  PROVE  LET q == After(p, WriteCommand(mhz, c, data))
         IN  /\ Keeps(p, q)
             /\ q.columns = IF c = 42 THEN Range16(data) ELSE p.columns
             /\ q.rows = IF c = 43 THEN Range16(data) ELSE p.rows
<1> DEFINE params == [i \in 1 .. Len(data) |-> Transfer(mhz, 1, <<0, data[i]>>)]
           q0 == Take(p, Transfer(mhz, 0, <<c>>))
           q == After(p, WriteCommand(mhz, c, data))
<1>1. c \in Nat
  OBVIOUS
<1>2. /\ Keeps(p, q0) /\ q0.command = c /\ q0.params = <<>>
      /\ q0.columns = p.columns /\ q0.rows = p.rows /\ mhz <= FastestMHz(q0)
  BY <1>1, CommandByte
<1>3. q = After(q0, params) /\ Len(params) = 4
  BY <1>1, AfterCommand, ZenonT(60)
<1> HIDE DEF q, q0
<1>4. PICK t1, t2, t3, t4 :
        t1 = params[1] /\ t2 = params[2] /\ t3 = params[3] /\ t4 = params[4]
  OBVIOUS
<1>5. /\ IsParameter(t1, mhz) /\ t1.data[2] = data[1]
      /\ IsParameter(t2, mhz) /\ t2.data[2] = data[2]
      /\ IsParameter(t3, mhz) /\ t3.data[2] = data[3]
      /\ IsParameter(t4, mhz) /\ t4.data[2] = data[4]
  <2>1. ASSUME NEW i \in 1 .. 4
        PROVE  IsParameter(params[i], mhz) /\ params[i].data[2] = data[i]
    <3>1. data[i] \in Nat /\ params[i] = Transfer(mhz, 1, <<0, data[i]>>)
      BY ElementOfSeq
    <3> HIDE DEF params
    <3>. QED
      BY <3>1, ParameterIs
  <2> HIDE DEF params
  <2>. QED
    BY <1>4, <2>1
<1> HIDE DEF params
<1>6. PICK seen : Seen(seen, q0, params) /\ q = seen[4]
  <2>1. Len(params) \in Nat
    BY <1>3
  <2>2. \E seen : Seen(seen, q0, params) /\ After(q0, params) = seen[Len(params)]
    BY <2>1, AfterSeen, ZenonT(60)
  <2>. QED
    BY <1>3, <2>2
<1>7. /\ seen[0] = q0
      /\ seen[1] = Take(seen[0], t1)
      /\ seen[2] = Take(seen[1], t2)
      /\ seen[3] = Take(seen[2], t3)
      /\ seen[4] = Take(seen[3], t4)
  <2>1. \A i \in 1 .. 4 : seen[i] = Take(seen[i - 1], params[i])
    BY <1>3, <1>6 DEF Seen
  <2>2. seen[0] = q0
    BY <1>6 DEF Seen
  <2>. QED
    BY <1>4, <2>1, <2>2
<1>8. Taking(q0, c, mhz, q0)
  BY <1>2 DEF Taking, Keeps
<1>9. PICK u4 : u4 = Take(Take(Take(Take(q0, t1), t2), t3), t4) /\ q = u4
  BY <1>6, <1>7
<1>10. Taking(q0, c, mhz, u4) /\ SideTaken(c, q0, t1, t2, t3, t4, u4)
  <2>1. Taking(q0, c, mhz, q0) /\ q0.params = <<>>
    BY <1>2, <1>8
  <2>2. /\ IsParameter(t1, mhz) /\ IsParameter(t2, mhz)
        /\ IsParameter(t3, mhz) /\ IsParameter(t4, mhz)
    BY <1>5
  <2>3. /\ Taking(q0, c, mhz, Take(Take(Take(Take(q0, t1), t2), t3), t4))
        /\ SideTaken(c, q0, t1, t2, t3, t4, Take(Take(Take(Take(q0, t1), t2), t3), t4))
    BY <2>1, <2>2, FourTaken
  <2>. QED
    BY <1>9, <2>3
<1>11. /\ u4.columns = IF c = 42 THEN Range16(data) ELSE q0.columns
       /\ u4.rows = IF c = 43 THEN Range16(data) ELSE q0.rows
  BY <1>5, <1>10 DEF SideTaken, Range16
<1>12. Keeps(p, q)
  BY <1>2, <1>9, <1>10 DEF Keeps, Taking
<1>. QED
  BY <1>2, <1>9, <1>11, <1>12 DEF q

-------------------------------------------------------------------------------
\* Windows.

LEMMA AfterNone ==
  ASSUME NEW p, NEW transfers, Len(transfers) = 0
  PROVE  After(p, transfers) = p
<1>1. PICK seen : Seen(seen, p, transfers) /\ After(p, transfers) = seen[0]
  BY AfterSeen
<1>. QED
  BY <1>1 DEF Seen

\* A 16-bit word in two bytes.
LEMMA BytesOf ==
  ASSUME NEW x \in Nat, NEW high, high = x \div 256, NEW low, low = x % 256
  PROVE  high \in Nat /\ low \in Nat /\ high * 256 + low = x
<1>1. x \div 256 \in Nat /\ x % 256 \in Nat
  OBVIOUS
<1>2. x % 256 = x - 256 * (x \div 256)
  BY SMT
<1>3. high \in Nat /\ low \in Nat
  BY <1>1
<1>4. low = x - 256 * high
  BY <1>2
<1>. QED
  BY <1>3, <1>4

Side(first, last) == <<first, last>>

LEMMA SideBytes ==
  ASSUME NEW x \in Nat, NEW y \in Nat
  PROVE  LET data == TwoBytes(x) \o TwoBytes(y)
         IN  data \in Seq(Nat) /\ Len(data) = 4 /\ Range16(data) = Side(x, y)
<1>1. PICK a, b, c, d :
        a = x \div 256 /\ b = x % 256 /\ c = y \div 256 /\ d = y % 256
  OBVIOUS
<1>2. TwoBytes(x) = <<a, b>> /\ TwoBytes(y) = <<c, d>>
  BY <1>1 DEF TwoBytes
<1>3. /\ a \in Nat /\ b \in Nat /\ a * 256 + b = x
      /\ c \in Nat /\ d \in Nat /\ c * 256 + d = y
  BY <1>1, BytesOf
<1>4. PICK s, t, data : s = TwoBytes(x) /\ t = TwoBytes(y) /\ data = s \o t
  OBVIOUS
<1>5. /\ Len(data) = 4 /\ data[1] = a /\ data[2] = b /\ data[3] = c /\ data[4] = d
  BY <1>2, <1>4
<1>6. s \in Seq(Nat) /\ t \in Seq(Nat)
  BY <1>2, <1>3, <1>4
<1>7. data \in Seq(Nat)
  BY <1>4, <1>6, ConcatProperties
<1>8. Range16(data) = Side(x, y)
  BY <1>3, <1>5 DEF Range16, Side
<1>. QED
  BY <1>4, <1>5, <1>7, <1>8

LEMMA CommandTransfers ==
  ASSUME NEW mhz \in Nat, NEW c \in Nat, NEW data \in Seq(Nat)
  PROVE  WriteCommand(mhz, c, data) \in Seq(Transfers)
BY CommandParts

LEMMA AfterTwo ==
  ASSUME NEW p, NEW s \in Seq(Transfers), NEW t \in Seq(Transfers)
  PROVE  /\ s \o t \in Seq(Transfers)
         /\ After(p, s \o t) = After(After(p, s), t)
<1>1. PICK T : T = Transfers
  OBVIOUS
<1>2. s \in Seq(T) /\ t \in Seq(T)
  BY <1>1
<1>3. s \o t \in Seq(T)
  BY <1>2, ConcatProperties
<1>4. After(p, s \o t) = After(After(p, s), t)
  BY <1>2, AfterBoth
<1>. QED
  BY <1>1, <1>3, <1>4

\* How many values a 16-bit word has.
Words == 65536

\* One side of a window, from its first to its last place.
SideCommand(mhz, c, first, size) ==
  WriteCommand(mhz, c, TwoBytes(first) \o TwoBytes(U16(first + size - 1)))

LEMMA SideAfter ==
  ASSUME NEW p \in Panels, NEW mhz \in Nat, mhz <= FastestMHz(p), NEW c \in {42, 43},
         NEW first \in Nat, NEW size \in Nat \ {0}, first + size <= Words
  PROVE  LET q == After(p, SideCommand(mhz, c, first, size))
             side == Side(first, first + size - 1)
         IN  /\ SideCommand(mhz, c, first, size) \in Seq(Transfers) /\ Keeps(p, q)
             /\ q.columns = IF c = 42 THEN side ELSE p.columns
             /\ q.rows = IF c = 43 THEN side ELSE p.rows
<1>1. PICK last : last = first + size - 1
  OBVIOUS
<1>2. last \in Nat /\ U16(last) = last
  <2>1. last \in Nat /\ last < 65536
    BY <1>1, SMT DEF Words
  <2>2. last % 65536 = last
    BY <2>1, SMT
  <2>. QED
    BY <2>1, <2>2 DEF U16
<1>3. PICK data : data = TwoBytes(first) \o TwoBytes(last)
  OBVIOUS
<1>4. data \in Seq(Nat) /\ Len(data) = 4 /\ Range16(data) = Side(first, last)
  BY <1>3, <1>2, SideBytes
<1>5. SideCommand(mhz, c, first, size) = WriteCommand(mhz, c, data)
  BY <1>1, <1>3, <1>2 DEF SideCommand
<1>6. c \in Nat
  OBVIOUS
<1>7. WriteCommand(mhz, c, data) \in Seq(Transfers)
  BY <1>4, <1>6, CommandTransfers
<1>8. PICK q : q = After(p, WriteCommand(mhz, c, data))
  OBVIOUS
<1>9. /\ Keeps(p, q)
      /\ q.columns = IF c = 42 THEN Range16(data) ELSE p.columns
      /\ q.rows = IF c = 43 THEN Range16(data) ELSE p.rows
  BY <1>4, <1>8, FourParameters
<1>. QED
  BY <1>1, <1>4, <1>5, <1>7, <1>8, <1>9

\* The command for pixels has no parameter.
LEMMA MemoryWrite ==
  ASSUME NEW p \in Panels, NEW mhz \in Nat, mhz <= FastestMHz(p)
  PROVE  LET command == WriteCommand(mhz, 44, <<>>)
             q == After(p, command)
         IN  /\ command \in Seq(Transfers) /\ Keeps(p, q)
             /\ q.command = 44 /\ q.bytes = 0
             /\ q.columns = p.columns /\ q.rows = p.rows
<1>1. PICK data \in Seq(Nat) : data = <<>> /\ Len(data) = 0
  <2>1. <<>> \in Seq(Nat) /\ Len(<<>>) = 0
    OBVIOUS
  <2>. QED
    BY <2>1
<1> DEFINE params == [i \in 1 .. Len(data) |-> Transfer(mhz, 1, <<0, data[i]>>)]
           r == Take(p, Transfer(mhz, 0, <<44>>))
           q == After(p, WriteCommand(mhz, 44, data))
<1>2. WriteCommand(mhz, 44, data) \in Seq(Transfers)
  BY CommandParts
<1>3. q = After(r, params) /\ Len(params) = Len(data)
  BY AfterCommand
<1>4. /\ Keeps(p, r) /\ r.command = 44 /\ r.bytes = 0
      /\ r.columns = p.columns /\ r.rows = p.rows
  BY CommandByte
<1> HIDE DEF r, params, q
<1>5. q = r
  BY <1>1, <1>3, AfterNone
<1>. QED
  BY <1>1, <1>2, <1>4, <1>5 DEF q

LEMMA KeepsTwice ==
  ASSUME NEW p, NEW q, NEW r, Keeps(p, q), Keeps(q, r)
  PROVE  Keeps(p, r)
BY DEF Keeps

LEMMA KeepsFast ==
  ASSUME NEW p, NEW q, Keeps(p, q)
  PROVE  q \in Panels /\ FastestMHz(q) = FastestMHz(p)
BY DEF Keeps, FastestMHz

\* A window on the screen.
OnScreen(x, y, w, h) ==
  x \in Nat /\ y \in Nat /\ w \in Nat \ {0} /\ h \in Nat \ {0}
    /\ x + w <= Width /\ y + h <= Height

LEMMA WindowAfter ==
  ASSUME NEW p \in Panels, NEW mhz \in Nat, mhz <= FastestMHz(p),
         NEW x, NEW y, NEW w, NEW h, OnScreen(x, y, w, h)
  PROVE  LET q == After(p, SetWindow(mhz, x, y, w, h))
         IN  /\ SetWindow(mhz, x, y, w, h) \in Seq(Transfers) /\ Keeps(p, q)
             /\ q.command = 44 /\ q.bytes = 0
             /\ q.columns = Side(x, x + w - 1) /\ q.rows = Side(y, y + h - 1)
<1>1. PICK c1, c2, c3 :
        /\ c1 = SideCommand(mhz, 42, x, w)
        /\ c2 = SideCommand(mhz, 43, y, h)
        /\ c3 = WriteCommand(mhz, 44, <<>>)
  OBVIOUS
<1>2. SetWindow(mhz, x, y, w, h) = (c1 \o c2) \o c3
  <2>1. SetWindow(mhz, x, y, w, h) = c1 \o c2 \o c3
    BY <1>1 DEF SetWindow, SideCommand
  <2>. QED
    BY <2>1
<1>3. PICK p1, p2, p3 : p1 = After(p, c1) /\ p2 = After(p1, c2) /\ p3 = After(p2, c3)
  OBVIOUS
<1>4. c1 \in Seq(Transfers) /\ Keeps(p, p1) /\ p1.columns = Side(x, x + w - 1)
  <2>1. x \in Nat /\ w \in Nat \ {0} /\ x + w <= Words
    BY SMT DEF OnScreen, Width, Words
  <2>2. LET q == After(p, SideCommand(mhz, 42, x, w))
            side == Side(x, x + w - 1)
        IN  /\ SideCommand(mhz, 42, x, w) \in Seq(Transfers) /\ Keeps(p, q)
            /\ q.columns = IF 42 = 42 THEN side ELSE p.columns
            /\ q.rows = IF 42 = 43 THEN side ELSE p.rows
    BY <2>1, SideAfter
  <2>. QED
    BY <1>1, <1>3, <2>2
<1>5. p1 \in Panels /\ mhz <= FastestMHz(p1)
  BY <1>4, KeepsFast
<1>6. /\ c2 \in Seq(Transfers) /\ Keeps(p1, p2)
      /\ p2.columns = p1.columns /\ p2.rows = Side(y, y + h - 1)
  <2>1. y \in Nat /\ h \in Nat \ {0} /\ y + h <= Words
    BY SMT DEF OnScreen, Height, Words
  <2>2. LET q == After(p1, SideCommand(mhz, 43, y, h))
            side == Side(y, y + h - 1)
        IN  /\ SideCommand(mhz, 43, y, h) \in Seq(Transfers) /\ Keeps(p1, q)
            /\ q.columns = IF 43 = 42 THEN side ELSE p1.columns
            /\ q.rows = IF 43 = 43 THEN side ELSE p1.rows
    BY <1>5, <2>1, SideAfter
  <2>. QED
    BY <1>1, <1>3, <2>2
<1>7. p2 \in Panels /\ mhz <= FastestMHz(p2)
  BY <1>5, <1>6, KeepsFast
<1>8. /\ c3 \in Seq(Transfers) /\ Keeps(p2, p3) /\ p3.command = 44 /\ p3.bytes = 0
      /\ p3.columns = p2.columns /\ p3.rows = p2.rows
  BY <1>1, <1>3, <1>7, MemoryWrite
<1>9. c1 \o c2 \in Seq(Transfers) /\ (c1 \o c2) \o c3 \in Seq(Transfers)
  BY <1>4, <1>6, <1>8, AfterTwo
<1>10. After(p, (c1 \o c2) \o c3) = p3
  <2>1. After(p, c1 \o c2) = p2
    BY <1>3, <1>4, <1>6, AfterTwo
  <2>2. PICK c : c = c1 \o c2
    OBVIOUS
  <2>3. c \in Seq(Transfers) /\ c3 \in Seq(Transfers)
    BY <1>8, <1>9, <2>2
  <2>4. After(p, c \o c3) = After(After(p, c), c3)
    BY <2>3, AfterTwo
  <2>. QED
    BY <1>3, <2>1, <2>2, <2>4
<1>11. Keeps(p, p3)
  BY <1>4, <1>6, <1>8, KeepsTwice
<1>. QED
  BY <1>2, <1>4, <1>6, <1>8, <1>9, <1>10, <1>11

\* A window and the pixels that fill it, in any transfers the panel is fast enough
\* for: whatever it was told before, its window is the rectangle meant and it got
\* as many pixels, and nothing else of it has changed (lcd_set_window and lcd_fill,
\* lcd_blit_rgb565_be).
THEOREM DrawingAfter ==
  ASSUME NEW p \in Panels, NEW mhz \in Nat, mhz <= FastestMHz(p),
         NEW x, NEW y, NEW w, NEW h, OnScreen(x, y, w, h), NEW n \in Nat
  PROVE  LET q == After(p, SetWindow(mhz, x, y, w, h) \o <<Pixels(mhz, n)>>)
         IN  /\ Keeps(p, q) /\ q.bytes = n
             /\ q.columns = Side(x, x + w - 1) /\ q.rows = Side(y, y + h - 1)
<1>1. PICK s, t, r : /\ s = SetWindow(mhz, x, y, w, h) /\ t = Pixels(mhz, n)
                     /\ r = After(p, s)
  OBVIOUS
<1>2. /\ s \in Seq(Transfers) /\ Keeps(p, r) /\ r.command = 44 /\ r.bytes = 0
      /\ r.columns = Side(x, x + w - 1) /\ r.rows = Side(y, y + h - 1)
  BY <1>1, WindowAfter
<1>3. r \in Panels /\ mhz <= FastestMHz(r)
  BY <1>2, KeepsFast
<1>4. <<t>> \in Seq(Transfers)
  <2>1. t \in Transfers
    BY <1>1 DEF Pixels, Transfers
  <2>. QED
    BY <2>1
<1>5. After(p, s \o <<t>>) = Take(r, t)
  <2>1. PICK u \in Seq(Transfers) : u = <<t>>
    BY <1>4
  <2>2. After(p, s \o u) = After(After(p, s), u)
    BY <1>2, AfterTwo
  <2>3. After(r, u) = Take(r, t)
    BY <2>1, AfterOne
  <2>. QED
    BY <1>1, <2>1, <2>2, <2>3
<1>6. PICK q : q = Take(r, t)
  OBVIOUS
<1>7. Keeps(r, q) /\ q.columns = r.columns /\ q.rows = r.rows /\ q.bytes = r.bytes + n
  BY <1>1, <1>2, <1>3, <1>6, PixelsTaken
<1>8. Keeps(p, q)
  BY <1>2, <1>7, KeepsTwice
<1>. QED
  BY <1>1, <1>2, <1>5, <1>6, <1>7, <1>8

-------------------------------------------------------------------------------
\* The panel's set-up.

\* Once set up, a panel takes the speed of every later transfer.
Ready(q) ==
  q \in Panels /\ q.on /\ q.awake /\ ~q.garbled /\ q.format = 85 /\ q.scan = 40

LEMMA ReadyIsFast ==
  ASSUME NEW q, Ready(q) PROVE q \in Panels /\ LcdMHz <= FastestMHz(q)
BY DEF Ready, FastestMHz, LcdMHz

LEMMA ReadyKept ==
  ASSUME NEW p, NEW q, Ready(p), Keeps(p, q) PROVE Ready(q)
BY DEF Ready, Keeps

LEMMA ResetIsPanel ==
  /\ PanelReset \in Panels /\ PanelReset.scan = 0
  /\ ~PanelReset.garbled /\ PanelReset.format = 0
<1>1. <<0, 0>> \in Int \X Int /\ <<>> \in Seq(Nat)
  OBVIOUS
<1>. QED
  BY <1>1 DEF PanelReset, Panels

\* What a panel that was reset has after the transfers s of its set-up, before the
\* direction of its scan is set: nothing, awake, or awake and on.
SetUpTo(s, format, stage) ==
  /\ s \in Seq(Transfers)
  /\ After(PanelReset, s) \in Panels /\ After(PanelReset, s).scan = 0
  /\ ~After(PanelReset, s).garbled /\ After(PanelReset, s).format = format
  /\ stage \in 0 .. 2
  /\ (stage >= 1 => After(PanelReset, s).awake) /\ (stage = 2 => After(PanelReset, s).on)

LEMMA SlowPanel ==
  ASSUME NEW q, q.scan = 0, NEW mhz \in {4, 5} PROVE mhz <= FastestMHz(q)
BY DEF FastestMHz

LEMMA SetUpRead ==
  ASSUME NEW mhz \in {4, 5}
  PROVE  SetUpTo(ReadId(mhz), 0, 0)
<1>1. PICK data, t, s : data = <<220, 0>> /\ t = Transfer(mhz, 0, data) /\ s = <<t>>
  OBVIOUS
<1>2. data \in Seq(Nat) /\ data # <<>> /\ mhz \in Nat
  BY <1>1
<1>3. PICK q : q = Take(PanelReset, t)
  OBVIOUS
<1>4. Keeps(PanelReset, q)
  <2>1. PanelReset \in Panels /\ mhz <= FastestMHz(PanelReset)
    BY ResetIsPanel, SlowPanel
  <2>2. Keeps(PanelReset, Take(PanelReset, Transfer(mhz, 0, data)))
    BY <1>2, <2>1, CommandTaken
  <2>. QED
    BY <1>1, <1>3, <2>2
<1>5. t \in Transfers
  BY <1>1, <1>2 DEF Transfer, Transfers
<1>6. s \in Seq(Transfers)
  BY <1>1, <1>5
<1>7. After(PanelReset, s) = q
  BY <1>1, <1>3, AfterOne
<1>8. SetUpTo(s, 0, 0)
  BY <1>4, <1>6, <1>7, ResetIsPanel DEF SetUpTo, Keeps
<1>. QED
  BY <1>1, <1>8 DEF ReadId

\* Neither a side of the window, nor pixels, nor their direction or format.
Quiet(c) == c \in Nat \ {42, 43, 44, 54, 58}

\* A command of the set-up that the picture does not depend on.
LEMMA SetUpQuiet ==
  ASSUME NEW mhz \in {4, 5}, NEW s, NEW format, NEW stage, SetUpTo(s, format, stage),
         NEW c, Quiet(c), NEW data \in Seq(Nat)
  PROVE  /\ SetUpTo(s \o WriteCommand(mhz, c, data), format, stage)
         /\ stage = 0 /\ c = 17 => SetUpTo(s \o WriteCommand(mhz, c, data), format, 1)
         /\ stage = 1 /\ c = 41 => SetUpTo(s \o WriteCommand(mhz, c, data), format, 2)
<1>1. PICK p, t, q : /\ p = After(PanelReset, s) /\ t = WriteCommand(mhz, c, data)
                     /\ q = After(p, t)
  OBVIOUS
<1>2. s \in Seq(Transfers) /\ p \in Panels /\ mhz \in Nat /\ mhz <= FastestMHz(p)
  BY <1>1, SlowPanel DEF SetUpTo
<1>3. t \in Seq(Transfers)
  BY <1>1, <1>2, CommandTransfers DEF Quiet
<1>4. Keeps(p, q) /\ (c = 17 => q.awake) /\ (c = 41 => q.on)
  BY <1>1, <1>2, QuietCommand DEF Quiet
<1>5. s \o t \in Seq(Transfers) /\ After(PanelReset, s \o t) = q
  BY <1>1, <1>2, <1>3, AfterTwo
<1>6. /\ SetUpTo(s \o t, format, stage)
      /\ stage = 0 /\ c = 17 => SetUpTo(s \o t, format, 1)
      /\ stage = 1 /\ c = 41 => SetUpTo(s \o t, format, 2)
  BY <1>1, <1>4, <1>5 DEF SetUpTo, Keeps
<1>. QED
  BY <1>1, <1>6

LEMMA SetUpFormat ==
  ASSUME NEW mhz \in {4, 5}, NEW s, NEW format, NEW stage, SetUpTo(s, format, stage),
         NEW d \in Nat
  PROVE  SetUpTo(s \o WriteCommand(mhz, 58, <<d>>), d, stage)
<1>1. PICK p, t, q : /\ p = After(PanelReset, s) /\ t = WriteCommand(mhz, 58, <<d>>)
                     /\ q = After(p, t)
  OBVIOUS
<1>2. s \in Seq(Transfers) /\ p \in Panels /\ mhz \in Nat /\ mhz <= FastestMHz(p)
  BY <1>1, SlowPanel DEF SetUpTo
<1>3. PICK data : data = <<d>>
  OBVIOUS
<1>4. data \in Seq(Nat)
  BY <1>3
<1>5. t \in Seq(Transfers)
  BY <1>1, <1>2, <1>3, <1>4, CommandTransfers
<1>6. /\ q \in Panels /\ q.format = d /\ q.scan = p.scan
      /\ (p.awake => q.awake) /\ (p.on => q.on) /\ (~p.garbled => ~q.garbled)
  BY <1>1, <1>2, OneParameter
<1>7. s \o t \in Seq(Transfers) /\ After(PanelReset, s \o t) = q
  BY <1>1, <1>2, <1>5, AfterTwo
<1>8. SetUpTo(s \o t, d, stage)
  BY <1>1, <1>6, <1>7 DEF SetUpTo
<1>. QED
  BY <1>1, <1>8

LEMMA SetUpScan ==
  ASSUME NEW mhz \in {4, 5}, NEW s, SetUpTo(s, 85, 2)
  PROVE  Ready(After(PanelReset, s \o WriteCommand(mhz, 54, <<40>>)))
<1>1. PICK p, t, q : /\ p = After(PanelReset, s) /\ t = WriteCommand(mhz, 54, <<40>>)
                     /\ q = After(p, t)
  OBVIOUS
<1>2. s \in Seq(Transfers) /\ p \in Panels /\ mhz \in Nat /\ mhz <= FastestMHz(p)
  BY <1>1, SlowPanel DEF SetUpTo
<1>3. PICK data : data = <<40>>
  OBVIOUS
<1>4. data \in Seq(Nat)
  BY <1>3
<1>5. t \in Seq(Transfers)
  BY <1>1, <1>2, <1>3, <1>4, CommandTransfers
<1>6. /\ q \in Panels /\ q.format = p.format /\ q.scan = 40
      /\ (p.awake => q.awake) /\ (p.on => q.on) /\ (~p.garbled => ~q.garbled)
  BY <1>1, <1>2, OneParameter
<1>7. After(PanelReset, s \o t) = q
  BY <1>1, <1>2, <1>5, AfterTwo
<1>8. Ready(q)
  BY <1>1, <1>6 DEF SetUpTo, Ready
<1>. QED
  BY <1>1, <1>7, <1>8

LEMMA ValuesAre ==
  ASSUME NEW n \in Nat PROVE Values(n) \in Seq(Nat)
BY DEF Values

\* lcd_init, at the speed either board starts with: at the end of its commands the
\* panel is awake and on, in the format and the direction that the pixels are
\* written in, and no command or parameter of them was too fast for it.
THEOREM SetUpAfter ==
  ASSUME NEW mhz \in {4, 5}
  PROVE  Ready(After(PanelReset, SetUp(mhz)))
<1>1. PICK s0 : s0 = ReadId(mhz)
  OBVIOUS
<1>2. PICK s1 : s1 = s0 \o WriteCommand(mhz, 33, <<>>)
  OBVIOUS
<1>3. PICK s2 : s2 = s1 \o WriteCommand(mhz, 194, Values(1))
  OBVIOUS
<1>4. PICK s3 : s3 = s2 \o WriteCommand(mhz, 197, Values(3))
  OBVIOUS
<1>5. PICK s4 : s4 = s3 \o WriteCommand(mhz, 177, Values(1))
  OBVIOUS
<1>6. PICK s5 : s5 = s4 \o WriteCommand(mhz, 224, Values(15))
  OBVIOUS
<1>7. PICK s6 : s6 = s5 \o WriteCommand(mhz, 225, Values(15))
  OBVIOUS
<1>8. PICK s7 : s7 = s6 \o WriteCommand(mhz, 58, <<85>>)
  OBVIOUS
<1>9. PICK s8 : s8 = s7 \o WriteCommand(mhz, 17, <<>>)
  OBVIOUS
<1>10. PICK s9 : s9 = s8 \o WriteCommand(mhz, 41, <<>>)
  OBVIOUS
<1>11. PICK s10 : s10 = s9 \o WriteCommand(mhz, 182, <<0, 98>>)
  OBVIOUS
<1>12. PICK s11 : s11 = s10 \o WriteCommand(mhz, 54, <<40>>)
  OBVIOUS
<1>13. SetUp(mhz) = s11
  BY <1>1, <1>2, <1>3, <1>4, <1>5, <1>6, <1>7, <1>8, <1>9, <1>10, <1>11, <1>12 DEF SetUp
<1>14. SetUpTo(s0, 0, 0)
  BY <1>1, SetUpRead
<1>15. SetUpTo(s1, 0, 0)
  <2>1. PICK data : data = <<>>
    OBVIOUS
  <2>2. data \in Seq(Nat)
    BY <2>1
  <2>3. Quiet(33)
    BY DEF Quiet
  <2>4. s1 = s0 \o WriteCommand(mhz, 33, data)
    BY <1>2, <2>1
  <2>. QED
    BY <1>14, <2>2, <2>3, <2>4, SetUpQuiet
<1>16. SetUpTo(s2, 0, 0)
  <2>1. PICK data \in Seq(Nat) : data = Values(1)
    BY ValuesAre
  <2>2. Quiet(194)
    BY DEF Quiet
  <2>3. s2 = s1 \o WriteCommand(mhz, 194, data)
    BY <1>3, <2>1
  <2>. QED
    BY <1>15, <2>2, <2>3, SetUpQuiet
<1>17. SetUpTo(s3, 0, 0)
  <2>1. PICK data \in Seq(Nat) : data = Values(3)
    BY ValuesAre
  <2>2. Quiet(197)
    BY DEF Quiet
  <2>3. s3 = s2 \o WriteCommand(mhz, 197, data)
    BY <1>4, <2>1
  <2>. QED
    BY <1>16, <2>2, <2>3, SetUpQuiet
<1>18. SetUpTo(s4, 0, 0)
  <2>1. PICK data \in Seq(Nat) : data = Values(1)
    BY ValuesAre
  <2>2. Quiet(177)
    BY DEF Quiet
  <2>3. s4 = s3 \o WriteCommand(mhz, 177, data)
    BY <1>5, <2>1
  <2>. QED
    BY <1>17, <2>2, <2>3, SetUpQuiet
<1>19. SetUpTo(s5, 0, 0)
  <2>1. PICK data \in Seq(Nat) : data = Values(15)
    BY ValuesAre
  <2>2. Quiet(224)
    BY DEF Quiet
  <2>3. s5 = s4 \o WriteCommand(mhz, 224, data)
    BY <1>6, <2>1
  <2>. QED
    BY <1>18, <2>2, <2>3, SetUpQuiet
<1>20. SetUpTo(s6, 0, 0)
  <2>1. PICK data \in Seq(Nat) : data = Values(15)
    BY ValuesAre
  <2>2. Quiet(225)
    BY DEF Quiet
  <2>3. s6 = s5 \o WriteCommand(mhz, 225, data)
    BY <1>7, <2>1
  <2>. QED
    BY <1>19, <2>2, <2>3, SetUpQuiet
<1>21. SetUpTo(s7, 85, 0)
  BY <1>8, <1>20, SetUpFormat
<1>22. SetUpTo(s8, 85, 1)
  <2>1. PICK data : data = <<>>
    OBVIOUS
  <2>2. data \in Seq(Nat)
    BY <2>1
  <2>3. Quiet(17)
    BY DEF Quiet
  <2>4. s8 = s7 \o WriteCommand(mhz, 17, data)
    BY <1>9, <2>1
  <2>. QED
    BY <1>21, <2>2, <2>3, <2>4, SetUpQuiet
<1>23. SetUpTo(s9, 85, 2)
  <2>1. PICK data : data = <<>>
    OBVIOUS
  <2>2. data \in Seq(Nat)
    BY <2>1
  <2>3. Quiet(41)
    BY DEF Quiet
  <2>4. s9 = s8 \o WriteCommand(mhz, 41, data)
    BY <1>10, <2>1
  <2>. QED
    BY <1>22, <2>2, <2>3, <2>4, SetUpQuiet
<1>24. SetUpTo(s10, 85, 2)
  <2>1. PICK data : data = <<0, 98>>
    OBVIOUS
  <2>2. data \in Seq(Nat)
    BY <2>1
  <2>3. Quiet(182)
    BY DEF Quiet
  <2>4. s10 = s9 \o WriteCommand(mhz, 182, data)
    BY <1>11, <2>1
  <2>. QED
    BY <1>23, <2>2, <2>3, <2>4, SetUpQuiet
<1>. QED
  BY <1>12, <1>13, <1>24, SetUpScan
===============================================================================
