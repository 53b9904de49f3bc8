---------------------------- MODULE TelemetryProofs ----------------------------
(***************************************************************************)
(* Theorems about Telemetry, for every value of its constants.             *)
(***************************************************************************)
EXTENDS Telemetry, SequenceTheorems, WellFoundedInduction, TLAPS

-------------------------------------------------------------------------------
\* Numbers, and functions defined by recursion over them.

LEMMA Least ==
  ASSUME NEW S \in SUBSET Nat, S # {}
  PROVE  \E x \in S : \A y \in S : x <= y
<1>1. PICK x \in S : \A y \in S : ~(<<y, x>> \in OpToRel(<, Nat))
  BY NatLessThanWellFounded, WFMin
<1>2. \A y \in S : ~(y < x)
  BY <1>1 DEF OpToRel
<1>. QED
  BY <1>2

\* Induction over the numbers up to n, for the set of those with a property.
LEMMA CountUp ==
  ASSUME NEW n \in Nat, NEW S \in SUBSET (0 .. n), 0 \in S,
         \A i \in 0 .. n - 1 : i \in S => i + 1 \in S
  PROVE  S = 0 .. n
<1> SUFFICES ASSUME (0 .. n) \ S # {} PROVE FALSE
  OBVIOUS
<1>1. (0 .. n) \ S \in SUBSET Nat
  OBVIOUS
<1>2. PICK x \in (0 .. n) \ S : \A y \in (0 .. n) \ S : x <= y
  BY <1>1, Least
<1>3. x # 0 /\ x - 1 \in 0 .. n - 1
  OBVIOUS
<1>4. x - 1 \in S
  BY <1>2, <1>3
<1>. QED
  BY <1>3, <1>4

\* A function whose values follow from the one before, by step, exists.
Follows(f, n, a, step) ==
  f[0] = a /\ \A i \in 1 .. n : f[i] = step[<<i, f[i - 1]>>]

LEMMA Stepwise ==
  ASSUME NEW n \in Nat, NEW V, NEW a \in V, NEW step \in [(1 .. n) \X V -> V]
  PROVE  \E f \in [0 .. n -> V] : Follows(f, n, a, step)
<1> DEFINE R(f, m) == /\ f \in [0 .. m -> V] /\ f[0] = a
                      /\ \A i \in 1 .. m : f[i] = step[<<i, f[i - 1]>>]
           S == {m \in 0 .. n : \E f : R(f, m)}
<1>1. 0 \in S
  <2> DEFINE z == [i \in 0 .. 0 |-> a]
  <2>1. R(z, 0)
    OBVIOUS
  <2>2. \E f : R(f, 0)
    <3> HIDE DEF R
    <3>. QED
      BY <2>1
  <2>. QED
    BY <2>2
<1>2. ASSUME NEW m \in 0 .. n - 1, m \in S PROVE m + 1 \in S
  <2>1. PICK f : R(f, m)
    BY <1>2
  <2> DEFINE last == step[<<m + 1, f[m]>>]
             g == [i \in 0 .. m + 1 |-> IF i = m + 1 THEN last ELSE f[i]]
  <2>2. m \in 0 .. m /\ f[m] \in V /\ m + 1 \in 1 .. n
    BY <2>1
  <2>3. last \in V
    BY <2>2
  <2>4. g \in [0 .. m + 1 -> V] /\ g[0] = a
    <3>1. ASSUME NEW i \in 0 .. m + 1, i # m + 1 PROVE f[i] \in V
      BY <2>1, <3>1
    <3> HIDE DEF last
    <3>. QED
      BY <2>1, <2>3, <3>1
  <2>5. ASSUME NEW i \in 1 .. m + 1 PROVE g[i] = step[<<i, g[i - 1]>>]
    <3>1. CASE i = m + 1
      <4>1. i - 1 = m /\ i - 1 \in 0 .. m + 1 /\ i - 1 # m + 1 /\ i \in 0 .. m + 1
        BY <3>1
      <4>2. g[i - 1] = f[m] /\ g[i] = last
        BY <3>1, <4>1
      <4>. QED
        BY <3>1, <4>2
    <3>2. CASE i # m + 1
      <4>1. /\ i \in 1 .. m /\ i - 1 \in 0 .. m + 1 /\ i - 1 # m + 1
            /\ i \in 0 .. m + 1
        BY <3>2
      <4>2. g[i - 1] = f[i - 1] /\ g[i] = f[i]
        BY <3>2, <4>1
      <4>. QED
        BY <2>1, <4>1, <4>2
    <3>. QED
      BY <3>1, <3>2
  <2>6. R(g, m + 1)
    <3> HIDE DEF g
    <3>. QED
      BY <2>4, <2>5
  <2>7. \E f2 : R(f2, m + 1)
    <3> HIDE DEF R, g
    <3>. QED
      BY <2>6
  <2>. QED
    BY <2>7
<1>3. S = 0 .. n
  <2> HIDE DEF R
  <2>1. S \in SUBSET (0 .. n)
    OBVIOUS
  <2> HIDE DEF S
  <2>. QED
    BY <1>1, <1>2, <2>1, CountUp
<1>4. PICK f : R(f, n)
  <2> HIDE DEF R
  <2>. QED
    BY <1>3
<1>. QED
  BY <1>4 DEF Follows

-------------------------------------------------------------------------------
\* The text of an object.

Comma == <<Mark("comma")>>

LEMMA MarksAreLexemes ==
  /\ \A kind \in Opening \cup Closing \cup {"comma", "colon"} : Mark(kind) \in Lexeme
  /\ Comma \in Seq(Lexeme) /\ Len(Comma) = 1 /\ Comma[1] = Mark("comma")
  /\ \A s \in Texts : Str(s) \in Lexeme
<1>1. "" \in Texts
  BY MessagesAssumption
<1>2. \A kind \in Opening \cup Closing \cup {"comma", "colon"} : Mark(kind) \in Lexeme
  BY <1>1 DEF Mark, Lexeme
<1>3. \A s \in Texts : Str(s) \in Lexeme
  BY DEF Str, Lexeme
<1>. QED
  BY <1>2, <1>3 DEF Comma

LEMMA JoinedSteps ==
  ASSUME NEW parts \in Seq(Seq(Lexeme))
  PROVE  \E J \in [0 .. Len(parts) -> Seq(Lexeme)] :
           /\ Joined(parts) = J[Len(parts)]
           /\ Len(parts) >= 1 => J[1] = parts[1]
           /\ \A n \in 2 .. Len(parts) : J[n] = J[n - 1] \o Comma \o parts[n]
<1> DEFINE N == Len(parts)
           V == Seq(Lexeme)
           step == [x \in (1 .. N) \X V |->
                      IF x[1] = 1 THEN parts[1] ELSE x[2] \o Comma \o parts[x[1]]]
           R(h) == h = [n \in 0 .. N |-> IF n = 0 THEN <<>> ELSE IF n = 1 THEN parts[1]
                                          ELSE h[n - 1] \o Comma \o parts[n]]
<1>1. N \in Nat /\ <<>> \in V /\ \A n \in 1 .. N : parts[n] \in V
  OBVIOUS
<1>2. \A u \in V, w \in V : u \o Comma \o w \in V
  BY MarksAreLexemes
<1>3. step \in [(1 .. N) \X V -> V]
  <2> SUFFICES ASSUME NEW x \in (1 .. N) \X V
               PROVE  (IF x[1] = 1 THEN parts[1] ELSE x[2] \o Comma \o parts[x[1]]) \in V
    OBVIOUS
  <2>1. x[1] \in 1 .. N /\ x[2] \in V
    OBVIOUS
  <2>2. parts[x[1]] \in V
    BY <1>1, <2>1
  <2>3. x[2] \o Comma \o parts[x[1]] \in V
    BY <1>2, <2>1, <2>2
  <2>4. CASE x[1] = 1
    BY <2>2, <2>4
  <2>5. CASE x[1] # 1
    BY <2>3, <2>5
  <2>. QED
    BY <2>4, <2>5
<1>4. PICK f \in [0 .. N -> V] : Follows(f, N, <<>>, step)
  <2> HIDE DEF step, V, N
  <2>. QED
    BY <1>1, <1>3, Stepwise
<1>5. R(f)
  <2> DEFINE g == [n \in 0 .. N |-> IF n = 0 THEN <<>> ELSE IF n = 1 THEN parts[1]
                                     ELSE f[n - 1] \o Comma \o parts[n]]
  <2>1. ASSUME NEW n \in 0 .. N PROVE f[n] = g[n]
    <3>1. CASE n = 0
      BY <1>4, <3>1 DEF Follows
    <3>2. CASE n # 0
      <4>1. n \in 1 .. N /\ n - 1 \in 0 .. N
        BY <3>2
      <4>2. f[n - 1] \in V /\ <<n, f[n - 1]>> \in (1 .. N) \X V
        BY <1>4, <4>1
      <4>3. f[n] = IF n = 1 THEN parts[1] ELSE f[n - 1] \o Comma \o parts[n]
        <5>1. f[n] = step[<<n, f[n - 1]>>]
          BY <1>4, <4>1 DEF Follows
        <5> HIDE DEF V
        <5>. QED
          BY <4>2, <5>1
      <4>. QED
        BY <3>2, <4>3
    <3>. QED
      BY <3>1, <3>2
  <2>2. f = [n \in 0 .. N |-> f[n]]
    BY <1>4
  <2>. QED
    BY <2>1, <2>2
<1>6. \E h : R(h)
  <2> HIDE DEF R
  <2>. QED
    BY <1>5
<1>7. PICK J : J = (CHOOSE h : R(h)) /\ R(J)
  <2> HIDE DEF R
  <2>. QED
    BY <1>6
<1>8. Joined(parts) = J[N]
  BY <1>7 DEF Joined, Comma
<1>9. /\ J[0] = <<>> /\ (N >= 1 => J[1] = parts[1])
      /\ \A n \in 2 .. N : J[n] = J[n - 1] \o Comma \o parts[n]
  <2>1. \A n \in 0 .. N : J[n] = IF n = 0 THEN <<>> ELSE IF n = 1 THEN parts[1]
                                  ELSE J[n - 1] \o Comma \o parts[n]
    BY <1>7
  <2>2. 0 \in 0 .. N /\ (N >= 1 => 1 \in 0 .. N)
    BY <1>1
  <2>3. J[0] = <<>> /\ (N >= 1 => J[1] = parts[1])
    BY <2>1, <2>2
  <2>4. ASSUME NEW n \in 2 .. N PROVE J[n] = J[n - 1] \o Comma \o parts[n]
    <3>1. n \in 0 .. N /\ n # 0 /\ n # 1
      OBVIOUS
    <3> HIDE DEF N, R
    <3>. QED
      BY <2>1, <3>1
  <2>. QED
    BY <2>3, <2>4
<1>10. J \in [0 .. N -> V]
  <2> DEFINE S == {n \in 0 .. N : J[n] \in V}
  <2>1. 0 \in S
    <3>1. 0 \in 0 .. N /\ J[0] \in V
      BY <1>1, <1>9
    <3>. QED
      BY <3>1
  <2>2. ASSUME NEW n \in 0 .. N - 1, n \in S PROVE n + 1 \in S
    <3>1. n + 1 \in 0 .. N /\ n + 1 \in 1 .. N /\ parts[n + 1] \in V
      BY <1>1
    <3>2. CASE n = 0
      BY <1>1, <1>9, <3>1, <3>2
    <3>3. CASE n # 0
      <4>1. n + 1 \in 2 .. N /\ (n + 1) - 1 = n
        BY <3>3
      <4>2. J[n + 1] = J[n] \o Comma \o parts[n + 1]
        BY <1>9, <4>1
      <4>3. J[n] \in V
        BY <2>2
      <4>4. J[n + 1] \in V
        BY <1>2, <3>1, <4>2, <4>3
      <4>. QED
        BY <3>1, <4>4
    <3>. QED
      BY <3>2, <3>3
  <2>3. S = 0 .. N
    <3>1. S \in SUBSET (0 .. N)
      OBVIOUS
    <3> HIDE DEF S
    <3>. QED
      BY <1>1, <2>1, <2>2, <3>1, CountUp
  <2>4. \A n \in 0 .. N : J[n] \in V
    BY <2>3
  <2>5. J = [n \in 0 .. N |-> J[n]]
    BY <1>7
  <2> HIDE DEF V
  <2>. QED
    BY <2>4, <2>5
<1>. QED
  BY <1>8, <1>9, <1>10

\* What stands where in two parts.
Twofold(s, a, b) ==
  /\ Len(s) = Len(a) + Len(b) /\ Len(a) \in Nat /\ Len(b) \in Nat
  /\ \A i \in 1 .. Len(a) : s[i] = a[i]
  /\ \A i \in 1 .. Len(b) : s[Len(a) + i] = b[i]

LEMMA InTwo ==
  ASSUME NEW L, NEW a \in Seq(L), NEW b \in Seq(L)
  PROVE  a \o b \in Seq(L) /\ Twofold(a \o b, a, b)
<1>1. a \o b \in Seq(L) /\ Len(a \o b) = Len(a) + Len(b) /\ Len(a) \in Nat /\ Len(b) \in Nat
  OBVIOUS
<1>2. \A i \in 1 .. Len(a) + Len(b) :
        (a \o b)[i] = IF i <= Len(a) THEN a[i] ELSE b[i - Len(a)]
  OBVIOUS
<1>3. ASSUME NEW i \in 1 .. Len(a) PROVE (a \o b)[i] = a[i]
  BY <1>1, <1>2
<1>4. ASSUME NEW i \in 1 .. Len(b) PROVE (a \o b)[Len(a) + i] = b[i]
  <2>1. PICK u : u = Len(a) + i
    OBVIOUS
  <2>2. u \in 1 .. Len(a) + Len(b) /\ ~(u <= Len(a)) /\ u - Len(a) = i
    BY <1>1, <2>1
  <2>. QED
    BY <1>2, <2>1, <2>2
<1>. QED
  BY <1>1, <1>3, <1>4 DEF Twofold

\* What stands where in three parts, of which the second is a single lexeme.
Threefold(s, a, b, c) ==
  /\ Len(s) = Len(a) + Len(c) + 1
  /\ \A i \in 1 .. Len(a) : s[i] = a[i]
  /\ s[Len(a) + 1] = b[1]
  /\ \A i \in 1 .. Len(c) : s[Len(a) + 1 + i] = c[i]

LEMMA InThree ==
  ASSUME NEW L, NEW a \in Seq(L), NEW b \in Seq(L), Len(b) = 1, NEW c \in Seq(L)
  PROVE  a \o b \o c \in Seq(L) /\ Threefold(a \o b \o c, a, b, c)
<1> DEFINE w == a \o b
           s == w \o c
<1>1. /\ w \in Seq(L) /\ Len(w) = Len(a) + 1 /\ Len(a) \in Nat
      /\ \A i \in 1 .. Len(a) : w[i] = a[i]
      /\ w[Len(a) + 1] = b[1]
  <2>1. /\ w \in Seq(L) /\ Len(w) = Len(a) + Len(b) /\ Len(a) \in Nat
        /\ \A i \in 1 .. Len(a) : w[i] = a[i]
        /\ \A i \in 1 .. Len(b) : w[Len(a) + i] = b[i]
    <3>1. w \in Seq(L) /\ Twofold(w, a, b)
      BY InTwo
    <3> HIDE DEF w
    <3>. QED
      BY <3>1 DEF Twofold
  <2> HIDE DEF w
  <2>2. 1 \in 1 .. Len(b)
    OBVIOUS
  <2>3. w[Len(a) + 1] = b[1]
    BY <2>1, <2>2
  <2>. QED
    BY <2>1, <2>3
<1> HIDE DEF w
<1>2. /\ s \in Seq(L) /\ Len(s) = Len(w) + Len(c) /\ Len(c) \in Nat
      /\ \A i \in 1 .. Len(w) : s[i] = w[i]
      /\ \A i \in 1 .. Len(c) : s[Len(w) + i] = c[i]
  <2>1. w \in Seq(L)
    BY <1>1
  <2>2. s \in Seq(L) /\ Twofold(s, w, c)
    BY <2>1, InTwo
  <2> HIDE DEF s
  <2>. QED
    BY <2>2 DEF Twofold
<1> HIDE DEF s
<1>3. /\ Len(s) = Len(a) + Len(c) + 1
      /\ \A i \in 1 .. Len(a) : s[i] = a[i]
      /\ s[Len(a) + 1] = b[1]
  BY <1>1, <1>2
<1>4. ASSUME NEW i \in 1 .. Len(c) PROVE s[Len(a) + 1 + i] = c[i]
  BY <1>1, <1>2
<1>5. s \in Seq(L) /\ Threefold(s, a, b, c)
  BY <1>2, <1>3, <1>4 DEF Threefold
<1>. QED
  BY <1>5 DEF s, w

Member == Texts \X Seq(Lexeme)

\* Member k of m stands in the text from place at[k] on, up to the comma or the
\* end of the object.
Laid(text, m, at) ==
  /\ text \in Seq(Lexeme) /\ Len(text) = at[Len(m) + 1] - 1 /\ text[1] = Mark("object")
  /\ at \in [1 .. Len(m) + 1 -> Nat] /\ at[1] = 2
  /\ \A k \in 1 .. Len(m) :
       /\ at[k + 1] = at[k] + Len(m[k][2]) + 3
       /\ text[at[k]] = Str(m[k][1]) /\ text[at[k] + 1] = Mark("colon")
       /\ \A i \in 1 .. Len(m[k][2]) : text[at[k] + 1 + i] = m[k][2][i]
       /\ text[at[k + 1] - 1] = IF k = Len(m) THEN Mark("endobject") ELSE Mark("comma")

LEMMA PairOf ==
  ASSUME NEW e \in Member
  PROVE  LET p == <<Str(e[1]), Mark("colon")>> \o e[2]
         IN  /\ p \in Seq(Lexeme) /\ Len(p) = Len(e[2]) + 2 /\ Len(e[2]) \in Nat
             /\ p[1] = Str(e[1]) /\ p[2] = Mark("colon")
             /\ \A i \in 1 .. Len(e[2]) : p[2 + i] = e[2][i]
<1>1. e[1] \in Texts /\ e[2] \in Seq(Lexeme)
  BY DEF Member
<1>2. Str(e[1]) \in Lexeme /\ Mark("colon") \in Lexeme
  BY <1>1, MarksAreLexemes
<1> DEFINE h == <<Str(e[1]), Mark("colon")>>
<1>3. h \in Seq(Lexeme) /\ Len(h) = 2 /\ h[1] = Str(e[1]) /\ h[2] = Mark("colon")
  BY <1>2
<1> HIDE DEF h
<1>4. \A v \in Seq(Lexeme) :
        /\ h \o v \in Seq(Lexeme) /\ Len(h \o v) = Len(v) + 2 /\ Len(v) \in Nat
        /\ (h \o v)[1] = h[1] /\ (h \o v)[2] = h[2]
        /\ \A i \in 1 .. Len(v) : (h \o v)[2 + i] = v[i]
  <2> TAKE v \in Seq(Lexeme)
  <2>1. /\ h \o v \in Seq(Lexeme) /\ Len(h \o v) = Len(h) + Len(v) /\ Len(v) \in Nat
        /\ \A i \in 1 .. Len(h) : (h \o v)[i] = h[i]
        /\ \A i \in 1 .. Len(v) : (h \o v)[Len(h) + i] = v[i]
    <3>1. h \in Seq(Lexeme)
      BY <1>3
    <3>. QED
      BY <3>1, InTwo DEF Twofold
  <2>2. 1 \in 1 .. Len(h) /\ 2 \in 1 .. Len(h) /\ Len(h) = 2
    BY <1>3
  <2>. QED
    BY <2>1, <2>2
<1>. QED
  BY <1>1, <1>3, <1>4 DEF h

\* J[n] is the first n of the parts with commas between them; len and size are
\* the lengths.
Grown(J, parts, len, size, N) ==
  /\ J[1] = parts[1] /\ len[1] = size[1]
  /\ \A n \in 1 .. N - 1 :
       /\ len[n + 1] = len[n] + size[n + 1] + 1
       /\ \A i \in 1 .. len[n] : J[n + 1][i] = J[n][i]
       /\ J[n + 1][len[n] + 1] = Mark("comma")
       /\ \A i \in 1 .. size[n + 1] : J[n + 1][len[n] + 1 + i] = parts[n + 1][i]

\* T is the last of them in brackets.
Bracketed(T, J, len, N) ==
  /\ \A i \in 1 .. len[N] : T[1 + i] = J[N][i]
  /\ T[len[N] + 2] = Mark("endobject")

\* Where the parts are in T.
PartsAt(T, parts, at, size, N) ==
  \A k \in 1 .. N :
    /\ at[k + 1] = at[k] + size[k] + 1
    /\ \A i \in 1 .. size[k] : T[at[k] - 1 + i] = parts[k][i]
    /\ T[at[k + 1] - 1] = IF k = N THEN Mark("endobject") ELSE Mark("comma")

LEMMA PartsInPlace ==
  ASSUME NEW N \in Nat, N >= 1, NEW J, NEW parts, NEW T,
         NEW len \in [1 .. N -> Nat], NEW size \in [1 .. N -> Nat],
         Grown(J, parts, len, size, N), Bracketed(T, J, len, N)
  PROVE  \E at \in [1 .. N + 1 -> Nat] :
           at[1] = 2 /\ at[N + 1] = len[N] + 3 /\ PartsAt(T, parts, at, size, N)
<1>1. ASSUME NEW n \in 1 .. N - 1
      PROVE  /\ n \in 1 .. N /\ n + 1 \in 1 .. N /\ len[n] \in Nat /\ len[n + 1] \in Nat
             /\ size[n + 1] \in Nat /\ len[n + 1] = len[n] + size[n + 1] + 1
  BY DEF Grown
<1>2. \A n \in 1 .. N : /\ len[n] <= len[N]
                        /\ \A i \in 1 .. len[n] : J[N][i] = J[n][i]
  <2> DEFINE Inside(n) == /\ len[n] <= len[N]
                          /\ \A i \in 1 .. len[n] : J[N][i] = J[n][i]
             S == {d \in 0 .. N - 1 : Inside(N - d)}
  <2>1. 0 \in S
    OBVIOUS
  <2>2. ASSUME NEW d \in 0 .. (N - 1) - 1, d \in S PROVE d + 1 \in S
    <3>1. PICK n \in Int : n = N - (d + 1)
      OBVIOUS
    <3>2. n \in 1 .. N - 1 /\ n + 1 = N - d /\ d + 1 \in 0 .. N - 1
      BY <3>1
    <3>3. Inside(n + 1)
      BY <2>2, <3>2
    <3>4. Inside(n)
      <4>1. len[n] <= len[n + 1] /\ len[n] \in Nat /\ len[n + 1] \in Nat
        BY <1>1, <3>2
      <4>2. \A i \in 1 .. len[n] : i \in 1 .. len[n + 1] /\ J[n + 1][i] = J[n][i]
        BY <3>2, <4>1 DEF Grown
      <4>. QED
        BY <3>3, <4>1, <4>2
    <3>. QED
      BY <3>1, <3>2, <3>4
  <2>3. S = 0 .. N - 1
    <3>1. S \in SUBSET (0 .. N - 1) /\ N - 1 \in Nat
      OBVIOUS
    <3> HIDE DEF S
    <3>. QED
      BY <2>1, <2>2, <3>1, CountUp
  <2>4. ASSUME NEW n \in 1 .. N PROVE Inside(n)
    <3>1. N - n \in 0 .. N - 1 /\ N - (N - n) = n
      OBVIOUS
    <3>. QED
      BY <2>3, <3>1
  <2>. QED
    BY <2>4
<1>3. PICK at : at = [k \in 1 .. N + 1 |-> IF k = 1 THEN 2 ELSE len[k - 1] + 3]
  OBVIOUS
<1>4. /\ at \in [1 .. N + 1 -> Nat] /\ at[1] = 2
      /\ \A k \in 1 .. N : at[k + 1] = len[k] + 3
  <2>1. ASSUME NEW k \in 1 .. N + 1
        PROVE  (IF k = 1 THEN 2 ELSE len[k - 1] + 3) \in Nat
    <3>1. k = 1 \/ k - 1 \in 1 .. N
      OBVIOUS
    <3>. QED
      BY <3>1
  <2>2. at \in [1 .. N + 1 -> Nat]
    BY <1>3, <2>1
  <2>3. ASSUME NEW k \in 1 .. N PROVE at[k + 1] = len[k] + 3
    <3>1. k + 1 \in 1 .. N + 1 /\ k + 1 # 1 /\ (k + 1) - 1 = k
      OBVIOUS
    <3>. QED
      BY <1>3, <3>1
  <2>4. at[1] = 2
    BY <1>3
  <2>. QED
    BY <2>2, <2>3, <2>4
<1>5. ASSUME NEW k \in 1 .. N
      PROVE  /\ at[k + 1] = at[k] + size[k] + 1
             /\ \A i \in 1 .. size[k] : T[at[k] - 1 + i] = parts[k][i]
  <2>1. size[k] \in Nat /\ at[k + 1] = len[k] + 3 /\ len[k] \in Nat /\ len[N] \in Nat
        /\ len[k] <= len[N]
    BY <1>2, <1>4
  <2>2. CASE k = 1
    <3>1. J[1] = parts[1] /\ at[1] = 2 /\ len[1] = size[1]
      BY <1>4 DEF Grown
    <3>2. ASSUME NEW i \in 1 .. size[k] PROVE T[at[k] - 1 + i] = parts[k][i]
      <4>1. i \in 1 .. len[1] /\ i \in 1 .. len[N] /\ at[k] - 1 + i = 1 + i
        BY <2>1, <2>2, <3>1
      <4>2. T[1 + i] = J[N][i]
        BY <4>1 DEF Bracketed
      <4>3. J[N][i] = J[1][i]
        BY <1>2, <4>1
      <4>. QED
        BY <2>2, <3>1, <4>1, <4>2, <4>3
    <3>3. at[k + 1] = at[k] + size[k] + 1
      BY <2>1, <2>2, <3>1
    <3>. QED
      BY <3>2, <3>3
  <2>3. CASE k # 1
    <3>1. PICK n \in Int : n = k - 1
      OBVIOUS
    <3>2. n \in 1 .. N - 1 /\ n \in 1 .. N /\ n + 1 = k
      BY <2>3, <3>1
    <3>3. at[k] = len[n] + 3 /\ len[n] \in Nat /\ len[k] = len[n] + size[k] + 1
      BY <1>1, <1>4, <3>2
    <3>4. \A i \in 1 .. size[k] : J[k][len[n] + 1 + i] = parts[k][i]
      BY <3>2 DEF Grown
    <3>5. ASSUME NEW i \in 1 .. size[k] PROVE T[at[k] - 1 + i] = parts[k][i]
      <4>1. PICK e \in Nat, l \in Nat, lk \in Nat, lN \in Nat :
              e = size[k] /\ l = len[n] /\ lk = len[k] /\ lN = len[N]
        BY <2>1, <3>3
      <4>2. PICK u \in Int : u = l + 1 + i
        BY <4>1, SMTT(30)
      <4>3. u \in 1 .. len[k] /\ u \in 1 .. len[N] /\ at[k] - 1 + i = 1 + u
        <5>1. i \in 1 .. e /\ at[k] = l + 3 /\ lk = l + e + 1 /\ lk <= lN
          BY <2>1, <3>3, <4>1
        <5>2. u \in 1 .. lk /\ u \in 1 .. lN /\ (l + 3) - 1 + i = 1 + u
          BY <4>2, <5>1
        <5>. QED
          BY <4>1, <5>1, <5>2
      <4>4. T[1 + u] = J[N][u]
        BY <4>3 DEF Bracketed
      <4>5. J[N][u] = J[k][u]
        BY <1>2, <4>3
      <4>6. J[k][u] = parts[k][i]
        BY <3>4, <4>1, <4>2
      <4>. QED
        BY <4>3, <4>4, <4>5, <4>6
    <3>6. at[k + 1] = at[k] + size[k] + 1
      <4>1. PICK e \in Nat, l \in Nat : e = size[k] /\ l = len[n]
        BY <2>1, <3>3
      <4>2. at[k] = l + 3 /\ at[k + 1] = (l + e + 1) + 3
        BY <2>1, <3>3, <4>1
      <4>. QED
        BY <4>1, <4>2, SMTT(30)
    <3>. QED
      BY <3>5, <3>6
  <2>. QED
    BY <2>2, <2>3
<1>6. ASSUME NEW k \in 1 .. N
      PROVE  T[at[k + 1] - 1] = IF k = N THEN Mark("endobject") ELSE Mark("comma")
  <2>1. at[k + 1] = len[k] + 3 /\ len[k] \in Nat
    BY <1>4
  <2>2. CASE k = N
    <3>1. at[k + 1] - 1 = len[N] + 2
      BY <2>1, <2>2
    <3>. QED
      BY <2>2, <3>1 DEF Bracketed
  <2>3. CASE k # N
    <3>1. k \in 1 .. N - 1 /\ k + 1 \in 1 .. N
      BY <2>3
    <3>2. PICK u \in Int : u = len[k] + 1
      BY <2>1
    <3>3. J[k + 1][u] = Mark("comma")
      BY <3>1, <3>2 DEF Grown
    <3>4. len[k + 1] >= u /\ len[k + 1] \in Nat /\ len[k + 1] <= len[N] /\ len[N] \in Nat
      BY <1>1, <1>2, <3>1, <3>2, SMTT(30)
    <3>5. u \in 1 .. len[k + 1] /\ u \in 1 .. len[N] /\ at[k + 1] - 1 = 1 + u
      BY <2>1, <3>2, <3>4, SMTT(30)
    <3>6. T[1 + u] = J[N][u]
      BY <3>5 DEF Bracketed
    <3>7. J[N][u] = J[k + 1][u]
      BY <1>2, <3>1, <3>5
    <3>. QED
      BY <2>3, <3>3, <3>5, <3>6, <3>7
  <2>. QED
    BY <2>2, <2>3
<1>7. at[N + 1] = len[N] + 3
  BY <1>4
<1>8. PartsAt(T, parts, at, size, N)
  BY <1>5, <1>6 DEF PartsAt
<1>. QED
  BY <1>4, <1>7, <1>8

LEMMA ObjectIsLaid ==
  ASSUME NEW m \in Seq(Member), m # <<>>
  PROVE  \E at : Laid(ObjectText(m), m, at)
<1>1. PICK N \in Nat : N = Len(m)
  OBVIOUS
<1>2. PICK parts : parts = [k \in 1 .. N |-> <<Str(m[k][1]), Mark("colon")>> \o m[k][2]]
  OBVIOUS
<1>3. N \in Nat /\ N >= 1 /\ \A k \in 1 .. N : m[k] \in Member
  BY <1>1
<1>4. \A k \in 1 .. N :
        /\ parts[k] \in Seq(Lexeme) /\ Len(parts[k]) = Len(m[k][2]) + 2
        /\ Len(m[k][2]) \in Nat /\ Len(parts[k]) \in Nat
        /\ parts[k][1] = Str(m[k][1]) /\ parts[k][2] = Mark("colon")
        /\ \A i \in 1 .. Len(m[k][2]) : parts[k][2 + i] = m[k][2][i]
  <2> SUFFICES ASSUME NEW k \in 1 .. N
               PROVE  /\ parts[k] \in Seq(Lexeme) /\ Len(parts[k]) = Len(m[k][2]) + 2
                      /\ Len(m[k][2]) \in Nat /\ Len(parts[k]) \in Nat
                      /\ parts[k][1] = Str(m[k][1]) /\ parts[k][2] = Mark("colon")
                      /\ \A i \in 1 .. Len(m[k][2]) : parts[k][2 + i] = m[k][2][i]
    OBVIOUS
  <2>1. PICK e \in Member : e = m[k]
    BY <1>3
  <2>2. PICK p : p = <<Str(e[1]), Mark("colon")>> \o e[2]
    OBVIOUS
  <2>3. /\ p \in Seq(Lexeme) /\ Len(p) = Len(e[2]) + 2 /\ Len(e[2]) \in Nat
        /\ p[1] = Str(e[1]) /\ p[2] = Mark("colon")
        /\ \A i \in 1 .. Len(e[2]) : p[2 + i] = e[2][i]
    BY <2>2, PairOf
  <2>4. parts[k] = p
    BY <1>2, <2>1, <2>2
  <2>. QED
    BY <2>1, <2>3, <2>4, SMTT(30)
<1>5. parts \in Seq(Seq(Lexeme)) /\ Len(parts) = N
  <2> DEFINE Q == Seq(Lexeme)
  <2>1. \A k \in 1 .. N : parts[k] \in Q
    BY <1>4
  <2>2. parts = [k \in 1 .. N |-> parts[k]]
    BY <1>2
  <2> HIDE DEF Q
  <2>3. parts \in [1 .. N -> Q]
    BY <2>1, <2>2
  <2>4. parts \in Seq(Q) /\ Len(parts) = N
    BY <1>3, <2>3
  <2>. QED
    BY <2>4 DEF Q
<1>6. PICK J :
        /\ J \in [0 .. N -> Seq(Lexeme)] /\ Joined(parts) = J[N] /\ J[1] = parts[1]
        /\ \A n \in 2 .. N : J[n] = J[n - 1] \o Comma \o parts[n]
  <2>. QED
    BY <1>3, <1>5, JoinedSteps
<1>7. /\ ObjectText(m) = <<Mark("object")>> \o J[N] \o <<Mark("endobject")>>
      /\ J[N] \in Seq(Lexeme)
  <2>1. ObjectText(m) = <<Mark("object")>> \o Joined(parts) \o <<Mark("endobject")>>
    BY <1>1, <1>2 DEF ObjectText
  <2>. QED
    BY <1>3, <1>6, <2>1
<1>8. PICK T : T = <<Mark("object")>> \o J[N] \o <<Mark("endobject")>>
  OBVIOUS
<1>9. /\ T \in Seq(Lexeme) /\ Len(T) = Len(J[N]) + 2 /\ T[1] = Mark("object")
      /\ T[Len(J[N]) + 2] = Mark("endobject") /\ Len(J[N]) \in Nat
      /\ \A i \in 1 .. Len(J[N]) : T[1 + i] = J[N][i]
  <2>1. Mark("object") \in Lexeme /\ Mark("endobject") \in Lexeme
    BY MarksAreLexemes DEF Opening, Closing
  <2> DEFINE one == <<Mark("object")>>
             two == <<Mark("endobject")>>
  <2>2. /\ one \in Seq(Lexeme) /\ Len(one) = 1 /\ one[1] = Mark("object")
        /\ two \in Seq(Lexeme) /\ Len(two) = 1 /\ two[1] = Mark("endobject")
    BY <2>1
  <2> HIDE DEF one, two
  <2>3. \A j \in Seq(Lexeme) :
          LET t == one \o j \o two
          IN  /\ t \in Seq(Lexeme) /\ Len(t) = Len(j) + 2 /\ t[1] = one[1]
              /\ t[Len(j) + 2] = two[1] /\ Len(j) \in Nat
              /\ \A i \in 1 .. Len(j) : t[1 + i] = j[i]
    <3> TAKE j \in Seq(Lexeme)
    <3> DEFINE w == one \o j
               t == w \o two
    <3>1. /\ w \in Seq(Lexeme) /\ Len(w) = Len(one) + Len(j) /\ Len(j) \in Nat
          /\ \A i \in 1 .. Len(one) : w[i] = one[i]
          /\ \A i \in 1 .. Len(j) : w[Len(one) + i] = j[i]
      <4>1. one \in Seq(Lexeme)
        BY <2>2
      <4>. QED
        BY <4>1, InTwo DEF Twofold
    <3> HIDE DEF w
    <3>2. /\ w \in Seq(Lexeme) /\ Len(w) = 1 + Len(j) /\ w[1] = one[1]
          /\ \A i \in 1 .. Len(j) : w[1 + i] = j[i]
      <4>1. 1 \in 1 .. Len(one) /\ Len(one) = 1
        BY <2>2
      <4>. QED
        BY <3>1, <4>1
    <3>3. /\ t \in Seq(Lexeme) /\ Len(t) = Len(w) + Len(two)
          /\ \A i \in 1 .. Len(w) : t[i] = w[i]
          /\ \A i \in 1 .. Len(two) : t[Len(w) + i] = two[i]
      <4>1. two \in Seq(Lexeme) /\ w \in Seq(Lexeme)
        BY <2>2, <3>1
      <4>. QED
        BY <4>1, InTwo DEF Twofold
    <3> HIDE DEF t
    <3>4. /\ t \in Seq(Lexeme) /\ Len(t) = Len(j) + 2 /\ t[1] = one[1]
          /\ t[Len(j) + 2] = two[1] /\ Len(j) \in Nat
          /\ \A i \in 1 .. Len(j) : t[1 + i] = j[i]
      <4>1. /\ t \in Seq(Lexeme) /\ Len(t) = Len(w) + 1 /\ t[Len(w) + 1] = two[1]
            /\ \A i \in 1 .. Len(w) : t[i] = w[i]
        <5>1. 1 \in 1 .. Len(two) /\ Len(two) = 1
          BY <2>2
        <5>. QED
          BY <3>3, <5>1
      <4>2. \A i \in 1 .. Len(j) : 1 + i \in 1 .. Len(w)
        BY <3>1, <3>2
      <4>3. 1 \in 1 .. Len(w)
        BY <3>1, <3>2
      <4>. QED
        BY <3>1, <3>2, <4>1, <4>2, <4>3
    <3>. QED
      BY <3>4 DEF t, w
  <2>4. LET t == one \o J[N] \o two
        IN  /\ t \in Seq(Lexeme) /\ Len(t) = Len(J[N]) + 2 /\ t[1] = one[1]
              /\ t[Len(J[N]) + 2] = two[1] /\ Len(J[N]) \in Nat
              /\ \A i \in 1 .. Len(J[N]) : t[1 + i] = J[N][i]
    BY <1>7, <2>3
  <2>. QED
    BY <1>8, <2>2, <2>4 DEF one, two
<1>10. \A n \in 1 .. N : J[n] \in Seq(Lexeme) /\ Len(J[n]) \in Nat
  <2>. QED
    BY <1>3, <1>6
<1>11. PICK len \in [1 .. N -> Nat] : \A n \in 1 .. N : len[n] = Len(J[n])
  <2> DEFINE f == [n \in 1 .. N |-> Len(J[n])]
  <2>1. f \in [1 .. N -> Nat] /\ \A n \in 1 .. N : f[n] = Len(J[n])
    BY <1>10
  <2>. QED
    BY <2>1
<1>12. PICK size \in [1 .. N -> Nat] : \A n \in 1 .. N : size[n] = Len(parts[n])
  <2> DEFINE f == [n \in 1 .. N |-> Len(parts[n])]
  <2>1. f \in [1 .. N -> Nat] /\ \A n \in 1 .. N : f[n] = Len(parts[n])
    BY <1>4
  <2>. QED
    BY <2>1
<1>13. ASSUME NEW n \in 1 .. N - 1
       PROVE  /\ len[n + 1] = len[n] + size[n + 1] + 1
              /\ \A i \in 1 .. len[n] : J[n + 1][i] = J[n][i]
              /\ J[n + 1][len[n] + 1] = Mark("comma")
              /\ \A i \in 1 .. size[n + 1] : J[n + 1][len[n] + 1 + i] = parts[n + 1][i]
  <2>1. n + 1 \in 2 .. N /\ n \in 1 .. N /\ n + 1 \in 1 .. N /\ (n + 1) - 1 = n
    OBVIOUS
  <2>2. J[n + 1] = J[n] \o Comma \o parts[n + 1]
    BY <1>6, <2>1
  <2>3. J[n] \in Seq(Lexeme) /\ parts[n + 1] \in Seq(Lexeme)
    BY <1>4, <1>10, <2>1
  <2>4. Threefold(J[n + 1], J[n], Comma, parts[n + 1])
    BY <2>2, <2>3, MarksAreLexemes, InThree
  <2>5. /\ len[n] = Len(J[n]) /\ len[n + 1] = Len(J[n + 1])
        /\ size[n + 1] = Len(parts[n + 1])
    BY <1>11, <1>12, <2>1
  <2>. QED
    BY <2>4, <2>5, MarksAreLexemes DEF Threefold
<1>14. Grown(J, parts, len, size, N)
  <2>1. J[1] = parts[1] /\ 1 \in 1 .. N
    BY <1>3, <1>6
  <2>2. len[1] = size[1]
    BY <1>11, <1>12, <2>1
  <2>. QED
    BY <1>13, <2>1, <2>2 DEF Grown
<1>15. Bracketed(T, J, len, N)
  <2>1. len[N] = Len(J[N])
    BY <1>3, <1>11
  <2>. QED
    BY <1>9, <2>1 DEF Bracketed
<1>16. PICK at \in [1 .. N + 1 -> Nat] :
         at[1] = 2 /\ at[N + 1] = len[N] + 3 /\ PartsAt(T, parts, at, size, N)
  BY <1>3, <1>14, <1>15, PartsInPlace
<1>17. \A k \in 1 .. N : /\ size[k] = Len(m[k][2]) + 2 /\ Len(m[k][2]) \in Nat
                         /\ at[k] \in Nat
  <2>1. \A k \in 1 .. N : at[k] \in Nat
    OBVIOUS
  <2>2. \A k \in 1 .. N : Len(m[k][2]) \in Nat /\ Len(parts[k]) = Len(m[k][2]) + 2
    BY <1>4
  <2>. QED
    BY <1>12, <2>1, <2>2
<1>18. ASSUME NEW k \in 1 .. N
       PROVE  /\ at[k + 1] = at[k] + Len(m[k][2]) + 3
              /\ T[at[k]] = Str(m[k][1]) /\ T[at[k] + 1] = Mark("colon")
              /\ \A i \in 1 .. Len(m[k][2]) : T[at[k] + 1 + i] = m[k][2][i]
              /\ T[at[k + 1] - 1] = IF k = N THEN Mark("endobject") ELSE Mark("comma")
  <2>1. PICK s \in Nat, a \in Nat : s = Len(m[k][2]) /\ a = at[k]
    BY <1>17
  <2>2. /\ at[k + 1] = at[k] + size[k] + 1
        /\ \A i \in 1 .. size[k] : T[at[k] - 1 + i] = parts[k][i]
        /\ T[at[k + 1] - 1] = IF k = N THEN Mark("endobject") ELSE Mark("comma")
    BY <1>16 DEF PartsAt
  <2>3. size[k] = s + 2
    BY <1>17, <2>1
  <2>4. /\ at[k + 1] = a + (s + 2) + 1
        /\ \A i \in 1 .. s + 2 : T[a - 1 + i] = parts[k][i]
    BY <2>1, <2>2, <2>3
  <2>5. /\ parts[k][1] = Str(m[k][1]) /\ parts[k][2] = Mark("colon")
        /\ \A i \in 1 .. s : parts[k][2 + i] = m[k][2][i]
    BY <1>4, <2>1
  <2>6. T[a] = parts[k][1] /\ T[a + 1] = parts[k][2]
    <3>1. 1 \in 1 .. s + 2 /\ 2 \in 1 .. s + 2 /\ a - 1 + 1 = a /\ a - 1 + 2 = a + 1
      OBVIOUS
    <3>2. T[a - 1 + 1] = parts[k][1] /\ T[a - 1 + 2] = parts[k][2]
      BY <2>4, <3>1
    <3>. QED
      BY <3>1, <3>2
  <2>7. ASSUME NEW i \in 1 .. s PROVE T[a + 1 + i] = m[k][2][i]
    <3>1. PICK u \in Int : u = 2 + i
      OBVIOUS
    <3>2. u \in 1 .. s + 2 /\ a - 1 + u = a + 1 + i
      BY <3>1
    <3>3. T[a - 1 + u] = parts[k][u]
      BY <2>4, <3>2
    <3>. QED
      BY <2>5, <3>1, <3>2, <3>3
  <2>8. at[k + 1] = a + s + 3
    BY <2>4
  <2>. QED
    BY <2>1, <2>2, <2>5, <2>6, <2>7, <2>8
<1>19. ObjectText(m) = T
  BY <1>7, <1>8
<1>20. Len(T) = at[N + 1] - 1
  <2>1. len[N] = Len(J[N]) /\ Len(J[N]) \in Nat
    BY <1>3, <1>9, <1>11
  <2>2. Len(T) = Len(J[N]) + 2 /\ at[N + 1] = len[N] + 3
    BY <1>9, <1>16
  <2>. QED
    BY <2>1, <2>2
<1>21. Laid(T, m, at)
  <2>1. T \in Seq(Lexeme) /\ T[1] = Mark("object")
    BY <1>9
  <2>. QED
    BY <1>1, <1>16, <1>18, <1>20, <2>1 DEF Laid
<1>. QED
  BY <1>19, <1>21

-------------------------------------------------------------------------------
\* Containers.

Weight(kind) == IF kind \in Opening THEN 1 ELSE IF kind \in Closing THEN -1 ELSE 0

LEMMA WeightIsInt == \A kind : Weight(kind) \in Int
  BY DEF Weight

LEMMA DepthSteps ==
  ASSUME NEW text, NEW n \in Nat, n = Len(text)
  PROVE  /\ Depth(text)[0] = 0
         /\ \A p \in 0 .. n : Depth(text)[p] \in Int
         /\ \A p \in 1 .. n : Depth(text)[p] = Depth(text)[p - 1] + Weight(text[p][1])
<1> DEFINE step == [x \in (1 .. n) \X Int |-> x[2] + Weight(text[x[1]][1])]
           R(h) == h = [p \in 0 .. n |-> IF p = 0 THEN 0
                          ELSE IF text[p][1] \in Opening THEN h[p - 1] + 1
                          ELSE IF text[p][1] \in Closing THEN h[p - 1] - 1
                          ELSE h[p - 1]]
<1>1. step \in [(1 .. n) \X Int -> Int]
  <2> SUFFICES ASSUME NEW x \in (1 .. n) \X Int
               PROVE  x[2] + Weight(text[x[1]][1]) \in Int
    OBVIOUS
  <2>1. x[2] \in Int
    OBVIOUS
  <2>2. Weight(text[x[1]][1]) \in Int
    BY WeightIsInt
  <2>. QED
    BY <2>1, <2>2
<1>2. PICK f \in [0 .. n -> Int] : Follows(f, n, 0, step)
  <2>1. PICK V, a, g : V = Int /\ a = 0 /\ g = step
    OBVIOUS
  <2> HIDE DEF step
  <2>2. a \in V /\ g \in [(1 .. n) \X V -> V]
    BY <1>1, <2>1
  <2>3. \E f \in [0 .. n -> V] : Follows(f, n, a, g)
    BY <2>2, Stepwise
  <2>. QED
    BY <2>1, <2>3
<1>3. \A p \in 1 .. n : f[p] = f[p - 1] + Weight(text[p][1])
  <2> TAKE p \in 1 .. n
  <2>1. f[p] = step[<<p, f[p - 1]>>]
    BY <1>2 DEF Follows
  <2>2. p - 1 \in 0 .. n
    OBVIOUS
  <2>3. f[p - 1] \in Int
    BY <2>2
  <2>4. <<p, f[p - 1]>> \in (1 .. n) \X Int
    BY <2>3
  <2>. QED
    BY <2>1, <2>4
<1>4. R(f)
  <2> DEFINE g == [p \in 0 .. n |-> IF p = 0 THEN 0
                     ELSE IF text[p][1] \in Opening THEN f[p - 1] + 1
                     ELSE IF text[p][1] \in Closing THEN f[p - 1] - 1
                     ELSE f[p - 1]]
  <2>1. ASSUME NEW p \in 0 .. n PROVE f[p] = g[p]
    <3>1. CASE p = 0
      BY <1>2, <3>1 DEF Follows
    <3>2. CASE p # 0
      <4>1. p \in 1 .. n /\ p - 1 \in 0 .. n
        BY <3>2
      <4>2. f[p] = f[p - 1] + Weight(text[p][1]) /\ f[p - 1] \in Int
        BY <1>3, <4>1
      <4>. QED
        BY <3>2, <4>2 DEF Weight
    <3>. QED
      BY <3>1, <3>2
  <2>2. f = [p \in 0 .. n |-> f[p]]
    OBVIOUS
  <2>. QED
    BY <2>1, <2>2
<1>5. \E h : R(h)
  <2> HIDE DEF R
  <2>. QED
    BY <1>4
<1>6. PICK D : D = (CHOOSE h : R(h)) /\ R(D)
  <2> HIDE DEF R
  <2>. QED
    BY <1>5
<1>7. Depth(text) = D
  BY <1>6 DEF Depth
<1>8. \A p \in 0 .. n : D[p] = f[p]
  <2> DEFINE S == {p \in 0 .. n : D[p] = f[p]}
  <2>1. \A p \in 0 .. n : D[p] = IF p = 0 THEN 0
                             ELSE IF text[p][1] \in Opening THEN D[p - 1] + 1
                             ELSE IF text[p][1] \in Closing THEN D[p - 1] - 1
                             ELSE D[p - 1]
    BY <1>6
  <2>2. 0 \in S
    <3>1. f[0] = 0
      BY <1>2 DEF Follows
    <3>. QED
      BY <2>1, <3>1
  <2>3. ASSUME NEW p \in 0 .. n - 1, p \in S PROVE p + 1 \in S
    <3>1. p + 1 \in 1 .. n /\ p + 1 \in 0 .. n /\ (p + 1) - 1 = p /\ p + 1 # 0
          /\ p \in 0 .. n
      OBVIOUS
    <3>2. D[p] = f[p] /\ f[p] \in Int
      BY <2>3, <3>1
    <3>3. D[p + 1] = IF text[p + 1][1] \in Opening THEN D[p] + 1
                     ELSE IF text[p + 1][1] \in Closing THEN D[p] - 1 ELSE D[p]
      BY <2>1, <3>1
    <3>4. f[p + 1] = f[p] + Weight(text[p + 1][1])
      BY <1>3, <3>1
    <3>5. D[p + 1] = f[p + 1]
      BY <3>2, <3>3, <3>4 DEF Weight
    <3>. QED
      BY <3>1, <3>5
  <2>4. S = 0 .. n
    <3>1. S \in SUBSET (0 .. n)
      OBVIOUS
    <3> HIDE DEF S
    <3>. QED
      BY <2>2, <2>3, <3>1, CountUp
  <2>. QED
    BY <2>4
<1>9. \A p \in 1 .. n : p - 1 \in 0 .. n /\ p \in 0 .. n
  OBVIOUS
<1>10. f[0] = 0 /\ 0 \in 0 .. n
  BY <1>2 DEF Follows
<1>. QED
  BY <1>3, <1>7, <1>8, <1>9, <1>10

\* The lexemes of v stand in the text behind place d.
Stands(text, d, v) ==
  /\ d \in Nat /\ d + Len(v) <= Len(text)
  /\ \A i \in 1 .. Len(v) : text[d + i] = v[i]

LEMMA DepthWithin ==
  ASSUME NEW text, NEW v, NEW d \in Nat, NEW n \in Nat, NEW l \in Nat,
         n = Len(text), l = Len(v), Stands(text, d, v)
  PROVE  \A i \in 0 .. l : Depth(text)[d + i] = Depth(text)[d] + Depth(v)[i]
<1>1. d + l <= n
  BY DEF Stands
<1>2. PICK D, E : D = Depth(text) /\ E = Depth(v)
  OBVIOUS
<1>3. /\ \A p \in 0 .. n : D[p] \in Int
      /\ \A p \in 1 .. n : D[p] = D[p - 1] + Weight(text[p][1])
  BY <1>2, DepthSteps
<1>4. /\ E[0] = 0 /\ \A p \in 0 .. l : E[p] \in Int
      /\ \A p \in 1 .. l : E[p] = E[p - 1] + Weight(v[p][1])
  BY <1>2, DepthSteps
<1> DEFINE S == {i \in 0 .. l : D[d + i] = D[d] + E[i]}
<1>5. 0 \in S
  <2>1. d + 0 = d /\ D[d] \in Int
    BY <1>1, <1>3
  <2>. QED
    BY <1>4, <2>1
<1>6. ASSUME NEW i \in 0 .. l - 1, i \in S PROVE i + 1 \in S
  <2>1. /\ i + 1 \in 1 .. l /\ i + 1 \in 0 .. l /\ (i + 1) - 1 = i
        /\ d + (i + 1) \in 1 .. n /\ (d + (i + 1)) - 1 = d + i
    BY <1>1
  <2>2. D[d + (i + 1)] = D[d + i] + Weight(text[d + (i + 1)][1])
    BY <1>3, <2>1
  <2>3. E[i + 1] = E[i] + Weight(v[i + 1][1])
    BY <1>4, <2>1
  <2>4. text[d + (i + 1)] = v[i + 1]
    BY <2>1 DEF Stands
  <2>5. D[d] \in Int /\ E[i] \in Int /\ Weight(v[i + 1][1]) \in Int
    BY <1>1, <1>3, <1>4, WeightIsInt
  <2>6. D[d + i] = D[d] + E[i]
    BY <1>6
  <2>7. D[d + (i + 1)] = D[d] + E[i + 1]
    BY <2>2, <2>3, <2>4, <2>5, <2>6
  <2>. QED
    BY <2>1, <2>7
<1>7. S = 0 .. l
  <2>1. S \in SUBSET (0 .. l)
    OBVIOUS
  <2> HIDE DEF S
  <2>. QED
    BY <1>5, <1>6, <2>1, CountUp
<1>. QED
  BY <1>2, <1>7

\* Where a value ends.
LEMMA ValueEnds ==
  ASSUME NEW text, NEW v, NEW d \in Nat, NEW n \in Nat, NEW l \in Nat,
         n = Len(text), l = Len(v), Stands(text, d, v), Balanced(v), l >= 1
  PROVE  TokenEnd(text, d + 1) = d + l + 1
<1>1. d + l <= n /\ text[d + 1] = v[1]
  BY DEF Stands
<1>2. PICK D, E : D = Depth(text) /\ E = Depth(v)
  OBVIOUS
<1>3. \A i \in 0 .. l : D[d + i] = D[d] + E[i]
  BY <1>2, DepthWithin
<1>4. /\ \A i \in 1 .. l - 1 : E[i] > 0
      /\ E[l] = 0 /\ v[1][1] \in TokenKinds
  BY <1>2 DEF Balanced
<1>5. E[1] = Weight(v[1][1]) /\ \A i \in 0 .. l : E[i] \in Int
  <2>1. /\ E[0] = 0 /\ \A p \in 0 .. l : E[p] \in Int
        /\ \A p \in 1 .. l : E[p] = E[p - 1] + Weight(v[p][1])
    BY <1>2, DepthSteps
  <2>2. E[1] = E[0] + Weight(v[1][1]) /\ Weight(v[1][1]) \in Int
    <3>1. 1 \in 1 .. l /\ 1 - 1 = 0
      OBVIOUS
    <3>. QED
      BY <2>1, <3>1, WeightIsInt
  <2>. QED
    BY <2>1, <2>2
<1>6. \A p \in 0 .. n : D[p] \in Int
  BY <1>2, DepthSteps
<1>7. CASE v[1][1] \in Opening
  <2>1. E[1] = 1 /\ l # 1
    BY <1>4, <1>5, <1>7 DEF Weight
  <2>2. PICK b \in Int : b = D[d]
    BY <1>1, <1>6
  <2>3. D[d + 1] = b + 1 /\ D[d + l] = b
    <3>1. 1 \in 0 .. l /\ l \in 0 .. l
      OBVIOUS
    <3>. QED
      BY <1>3, <1>4, <2>1, <2>2, <3>1, SMTT(30)
  <2>4. ASSUME NEW r \in d + 1 .. d + l - 1 PROVE D[r] >= b + 1 /\ D[r] \in Int
    <3>1. PICK i \in Int : i = r - d
      OBVIOUS
    <3>2. i \in 1 .. l - 1 /\ i \in 0 .. l /\ d + i = r
      BY <3>1
    <3>3. D[r] = b + E[i]
      BY <1>3, <2>2, <3>2
    <3>. QED
      BY <1>4, <1>5, <3>2, <3>3, SMTT(30)
  <2> DEFINE Ends(q) == /\ q \in (d + 1) + 1 .. n
                        /\ D[q] < D[d + 1]
                        /\ \A r \in (d + 1) + 1 .. q - 1 : D[r] >= D[d + 1]
  <2>5. Ends(d + l)
    <3>1. d + l \in (d + 1) + 1 .. n
      BY <1>1, <2>1
    <3>2. D[d + l] < D[d + 1]
      BY <2>3
    <3>3. ASSUME NEW r \in (d + 1) + 1 .. (d + l) - 1 PROVE D[r] >= D[d + 1]
      BY <2>3, <2>4
    <3>. QED
      BY <3>1, <3>2, <3>3
  <2>6. ASSUME NEW q, Ends(q) PROVE q = d + l
    <3>1. q \in Int /\ q >= d + 2 /\ D[q] < b + 1 /\ D[q] \in Int
      BY <1>6, <2>3, <2>6
    <3>2. ~(q < d + l)
      BY <2>4, <3>1
    <3>3. ~(d + l < q)
      <4>1. ASSUME d + l < q PROVE D[d + l] >= D[d + 1]
        <5>1. d + l \in (d + 1) + 1 .. q - 1
          BY <2>1, <3>1, <4>1
        <5>. QED
          BY <2>6, <5>1
      <4>. QED
        BY <2>3, <4>1
    <3>. QED
      BY <3>1, <3>2, <3>3
  <2>7. MatchingEnd(text, d + 1) = d + l
    <3>1. MatchingEnd(text, d + 1) = CHOOSE q : Ends(q)
      BY <1>2 DEF MatchingEnd
    <3> HIDE DEF Ends
    <3>. QED
      BY <2>5, <2>6, <3>1
  <2>. QED
    BY <1>1, <1>7, <2>7 DEF TokenEnd
<1>8. CASE v[1][1] \notin Opening
  <2>1. Weight(v[1][1]) = 0
    BY <1>4, <1>8 DEF Weight, TokenKinds, Opening, Closing
  <2>2. l = 1
    BY <1>4, <1>5, <2>1
  <2>. QED
    BY <1>1, <1>8, <2>2 DEF TokenEnd
<1>. QED
  BY <1>7, <1>8

-------------------------------------------------------------------------------
\* The members of a message.

\* The places of the members, one behind the other.
Climbs(at, size, N) ==
  /\ at \in [1 .. N + 1 -> Nat] /\ size \in [1 .. N -> Nat] /\ at[1] = 2
  /\ \A k \in 1 .. N : at[k + 1] = at[k] + size[k] + 3

LEMMA LaidClimbs ==
  ASSUME NEW m \in Seq(Member), NEW text, NEW at, Laid(text, m, at),
         NEW N \in Nat, N = Len(m)
  PROVE  \E size : Climbs(at, size, N) /\ \A k \in 1 .. N : size[k] = Len(m[k][2])
<1>1. \A k \in 1 .. N : Len(m[k][2]) \in Nat
  <2> TAKE k \in 1 .. N
  <2>1. m[k] \in Member
    OBVIOUS
  <2>2. m[k][2] \in Seq(Lexeme)
    BY <2>1 DEF Member
  <2>. QED
    BY <2>2
<1>2. PICK size : size = [k \in 1 .. N |-> Len(m[k][2])]
  OBVIOUS
<1>3. size \in [1 .. N -> Nat] /\ \A k \in 1 .. N : size[k] = Len(m[k][2])
  BY <1>1, <1>2
<1>4. \A k \in 1 .. N : at[k + 1] = at[k] + Len(m[k][2]) + 3
  BY DEF Laid
<1>5. at \in [1 .. N + 1 -> Nat] /\ at[1] = 2
  BY DEF Laid
<1>6. \A k \in 1 .. N : at[k + 1] = at[k] + size[k] + 3
  BY <1>3, <1>4
<1>7. Climbs(at, size, N)
  BY <1>3, <1>5, <1>6 DEF Climbs
<1>. QED
  BY <1>3, <1>7

LEMMA ClimbsUp ==
  ASSUME NEW N \in Nat, NEW at, NEW size, Climbs(at, size, N),
         NEW k \in 1 .. N + 1, NEW l \in 1 .. N + 1, k < l
  PROVE  at[k] + 3 <= at[l]
<1>1. /\ at \in [1 .. N + 1 -> Nat] /\ size \in [1 .. N -> Nat]
      /\ \A j \in 1 .. N : at[j + 1] = at[j] + size[j] + 3
  BY DEF Climbs
<1> DEFINE S == {d \in 0 .. l - k - 1 : at[k] + 3 <= at[k + 1 + d]}
<1>2. 0 \in S
  <2>1. k \in 1 .. N /\ k + 1 + 0 = k + 1
    OBVIOUS
  <2>2. at[k + 1] = at[k] + size[k] + 3 /\ size[k] \in Nat /\ at[k] \in Nat
    BY <1>1, <2>1
  <2>. QED
    BY <2>1, <2>2
<1>3. ASSUME NEW d \in 0 .. (l - k - 1) - 1, d \in S PROVE d + 1 \in S
  <2>1. PICK j \in Int : j = k + 1 + d
    OBVIOUS
  <2>2. j \in 1 .. N /\ k + 1 + (d + 1) = j + 1 /\ j \in 1 .. N + 1 /\ j + 1 \in 1 .. N + 1
        /\ d + 1 \in 0 .. l - k - 1
    BY <2>1
  <2>3. at[j + 1] = at[j] + size[j] + 3 /\ size[j] \in Nat /\ at[j] \in Nat /\ at[k] \in Nat
    BY <1>1, <2>2
  <2>4. at[k] + 3 <= at[j]
    BY <1>3, <2>1
  <2>5. at[k] + 3 <= at[j + 1]
    BY <2>3, <2>4
  <2>. QED
    BY <2>2, <2>5
<1>4. S = 0 .. l - k - 1
  <2>1. S \in SUBSET (0 .. l - k - 1) /\ l - k - 1 \in Nat
    OBVIOUS
  <2> HIDE DEF S
  <2>. QED
    BY <1>2, <1>3, <2>1, CountUp
<1>5. l - k - 1 \in 0 .. l - k - 1 /\ k + 1 + (l - k - 1) = l
  OBVIOUS
<1>. QED
  BY <1>4, <1>5

\* Every place behind the first is in one of the members.
LEMMA ClimbsOver ==
  ASSUME NEW N \in Nat, NEW at, NEW size, Climbs(at, size, N),
         NEW p \in Nat, 2 <= p, p < at[N + 1]
  PROVE  \E k \in 1 .. N : at[k] <= p /\ p < at[k + 1]
<1>1. \A k \in 1 .. N + 1 : at[k] \in Nat
  BY DEF Climbs
<1> DEFINE S == {k \in 1 .. N + 1 : p < at[k]}
<1>2. N + 1 \in S /\ S \in SUBSET Nat /\ S # {}
  OBVIOUS
<1>3. PICK l \in S : \A k \in S : l <= k
  <2> HIDE DEF S
  <2>. QED
    BY <1>2, Least
<1>4. l # 1
  <2>1. at[1] = 2
    BY DEF Climbs
  <2>. QED
    BY <2>1
<1>5. l \in 1 .. N + 1 /\ p < at[l]
  OBVIOUS
<1>6. PICK k \in Int : k = l - 1
  BY <1>5
<1>7. k \in 1 .. N /\ k \in 1 .. N + 1 /\ k + 1 = l /\ ~(l <= k)
  BY <1>4, <1>5, <1>6
<1>8. ~(p < at[k])
  BY <1>3, <1>7
<1>9. at[k] <= p
  BY <1>1, <1>7, <1>8
<1>. QED
  BY <1>5, <1>7, <1>9

LEMMA MemberStands ==
  ASSUME NEW m \in Seq(Member), NEW text, NEW at, Laid(text, m, at),
         NEW k \in 1 .. Len(m)
  PROVE  Stands(text, at[k] + 1, m[k][2])
<1>1. PICK N \in Nat : N = Len(m)
  OBVIOUS
<1>2. PICK size : Climbs(at, size, N) /\ size[k] = Len(m[k][2])
  BY <1>1, LaidClimbs
<1>3. PICK a \in Nat, s \in Nat, z \in Nat : a = at[k] /\ s = size[k] /\ z = at[N + 1]
  <2>1. k \in 1 .. N /\ k \in 1 .. N + 1 /\ N + 1 \in 1 .. N + 1
    BY <1>1
  <2>2. at \in [1 .. N + 1 -> Nat] /\ size \in [1 .. N -> Nat]
    BY <1>2 DEF Climbs
  <2>3. at[k] \in Nat /\ size[k] \in Nat /\ at[N + 1] \in Nat
    BY <2>1, <2>2
  <2>. QED
    BY <2>3
<1>4. at[k + 1] = a + s + 3
  BY <1>1, <1>2, <1>3 DEF Climbs
<1>5. at[k + 1] <= z
  <2>1. CASE k = N
    BY <1>3, <1>4, <2>1
  <2>2. CASE k # N
    <3>1. PICK l \in Int : l = k + 1
      OBVIOUS
    <3>2. l \in 1 .. N + 1 /\ N + 1 \in 1 .. N + 1 /\ l < N + 1
      BY <1>1, <2>2, <3>1
    <3>3. at[l] + 3 <= at[N + 1]
      BY <1>2, <3>2, ClimbsUp
    <3>4. at[l] = a + s + 3
      BY <1>4, <3>1
    <3>. QED
      BY <1>3, <3>1, <3>3, <3>4, SMTT(30)
  <2>. QED
    BY <2>1, <2>2
<1>6. Len(text) = z - 1
  BY <1>1, <1>3 DEF Laid
<1>7. \A i \in 1 .. s : text[a + 1 + i] = m[k][2][i]
  BY <1>2, <1>3 DEF Laid
<1>8. a + 1 + s <= z - 1 /\ a + 1 \in Nat
  BY <1>4, <1>5
<1>9. s = Len(m[k][2])
  BY <1>2, <1>3
<1>. QED
  BY <1>3, <1>6, <1>7, <1>8, <1>9 DEF Stands

LEMMA ObjectBalanced ==
  ASSUME NEW m \in Seq(Member), m # <<>>, NEW text, NEW at, Laid(text, m, at),
         \A k \in 1 .. Len(m) : Balanced(m[k][2])
  PROVE  Balanced(text)
<1>1. PICK N \in Nat : N = Len(m) /\ N >= 1
  OBVIOUS
<1>2. PICK size : Climbs(at, size, N) /\ \A k \in 1 .. N : size[k] = Len(m[k][2])
  BY <1>1, LaidClimbs
<1>3. PICK n \in Nat : n = Len(text) /\ n = at[N + 1] - 1
  <2>1. Len(text) = at[N + 1] - 1
    BY <1>1 DEF Laid
  <2>2. Len(text) \in Nat
    BY DEF Laid
  <2>. QED
    BY <2>1, <2>2
<1>4. PICK D : D = Depth(text)
  OBVIOUS
<1>5. /\ D[0] = 0 /\ \A p \in 0 .. n : D[p] \in Int
      /\ \A p \in 1 .. n : D[p] = D[p - 1] + Weight(text[p][1])
  BY <1>3, <1>4, DepthSteps
<1>6. /\ Weight("object") = 1 /\ Weight("endobject") = -1
      /\ Weight("string") = 0 /\ Weight("colon") = 0 /\ Weight("comma") = 0
  BY DEF Weight, Opening, Closing
<1>7. \A kind : Mark(kind)[1] = kind /\ Str(kind)[1] = "string"
  BY DEF Mark, Str
\* What one member does to the depth.
<1>8. ASSUME NEW k \in 1 .. N, D[at[k] - 1] = 1
      PROVE  /\ \A p \in at[k] - 1 .. at[k + 1] - 2 : D[p] >= 1
             /\ D[at[k + 1] - 1] = IF k = N THEN 0 ELSE 1
  <2>1. PICK a \in Nat, s \in Nat, z \in Nat : a = at[k] /\ s = size[k] /\ z = at[k + 1]
    BY <1>1, <1>2 DEF Climbs
  <2>2. z = a + s + 3 /\ a >= 2
    <3>1. z = a + s + 3
      BY <1>2, <2>1 DEF Climbs
    <3>2. at[1] = 2
      BY <1>2 DEF Climbs
    <3>3. k = 1 \/ at[1] + 3 <= at[k]
      BY <1>1, <1>2, ClimbsUp
    <3>. QED
      BY <2>1, <3>1, <3>2, <3>3
  <2>3. Stands(text, a + 1, m[k][2])
    BY <1>1, <2>1, MemberStands
  <2>4. s = Len(m[k][2])
    BY <1>2, <2>1
  <2>5. a + 1 + s <= n
    BY <1>3, <2>3, <2>4 DEF Stands
  <2>6. PICK E : E = Depth(m[k][2])
    OBVIOUS
  <2>7. \A i \in 0 .. s : D[a + 1 + i] = D[a + 1] + E[i]
    <3>1. PICK d \in Nat : d = a + 1
      OBVIOUS
    <3>2. Stands(text, d, m[k][2])
      BY <2>3, <3>1
    <3>3. PICK v : v = m[k][2]
      OBVIOUS
    <3>4. \A i \in 0 .. s : Depth(text)[d + i] = Depth(text)[d] + Depth(v)[i]
      <4>1. s = Len(v) /\ n = Len(text) /\ Stands(text, d, v)
        BY <1>3, <2>4, <3>2, <3>3
      <4>. QED
        BY <4>1, DepthWithin
    <3>. QED
      BY <1>4, <2>6, <3>1, <3>3, <3>4
  <2>8. /\ \A i \in 1 .. s - 1 : E[i] > 0
        /\ E[s] = 0 /\ s >= 1
    <3>1. Balanced(m[k][2])
      BY <1>1
    <3>2. m[k] \in Member
      BY <1>1
    <3>3. m[k][2] \in Seq(Lexeme)
      BY <3>2 DEF Member
    <3>4. m[k][2] # <<>>
      BY <3>1 DEF Balanced
    <3>5. s >= 1
      BY <2>4, <3>3, <3>4
    <3>. QED
      BY <2>4, <2>6, <3>1, <3>5 DEF Balanced
  <2>9. /\ text[a][1] = "string" /\ text[a + 1][1] = "colon"
        /\ text[z - 1][1] = IF k = N THEN "endobject" ELSE "comma"
    <3>1. /\ text[at[k]] = Str(m[k][1]) /\ text[at[k] + 1] = Mark("colon")
          /\ text[at[k + 1] - 1] = IF k = N THEN Mark("endobject") ELSE Mark("comma")
      BY <1>1 DEF Laid
    <3>2. /\ text[a] = Str(m[k][1]) /\ text[a + 1] = Mark("colon")
          /\ text[z - 1] = IF k = N THEN Mark("endobject") ELSE Mark("comma")
      BY <2>1, <3>1
    <3>. QED
      BY <1>7, <3>2
  <2>10. D[a] = 1 /\ D[a + 1] = 1
    <3>1. a \in 1 .. n /\ a + 1 \in 1 .. n /\ (a + 1) - 1 = a
      BY <2>2, <2>5
    <3>2. D[a - 1] = 1
      BY <1>8, <2>1
    <3>3. D[a] = D[a - 1] + Weight(text[a][1])
      BY <1>5, <3>1
    <3>4. D[a + 1] = D[a] + Weight(text[a + 1][1])
      BY <1>5, <3>1
    <3>. QED
      BY <1>6, <2>9, <3>2, <3>3, <3>4
  <2>11. ASSUME NEW p \in a - 1 .. z - 2 PROVE D[p] >= 1
    <3>1. CASE p = a - 1
      BY <1>8, <2>1, <3>1
    <3>2. CASE p = a \/ p = a + 1
      BY <2>10, <3>2
    <3>3. CASE p > a + 1
      <4>1. PICK i \in Int : i = p - (a + 1)
        OBVIOUS
      <4>2. i \in 0 .. s /\ i \in 1 .. s /\ a + 1 + i = p
        BY <2>2, <3>3, <4>1
      <4>3. D[p] = 1 + E[i]
        BY <2>7, <2>10, <4>2
      <4>4. E[i] \in Int
        <5>1. \A q \in 0 .. s : E[q] \in Int
          BY <2>4, <2>6, DepthSteps
        <5>. QED
          BY <4>2, <5>1
      <4>5. E[i] > 0 \/ E[i] = 0
        BY <2>8, <4>2
      <4>. QED
        BY <4>3, <4>4, <4>5
    <3>. QED
      BY <3>1, <3>2, <3>3
  <2>12. D[z - 2] = 1
    <3>1. s \in 0 .. s /\ a + 1 + s = z - 2
      BY <2>2
    <3>2. D[a + 1 + s] = D[a + 1] + E[s]
      BY <2>7, <3>1
    <3>. QED
      BY <2>8, <2>10, <3>1, <3>2
  <2>13. z - 1 \in 1 .. n /\ (z - 1) - 1 = z - 2
    <3>1. z <= at[N + 1]
      <4>1. CASE k = N
        BY <2>1, <4>1
      <4>2. CASE k # N
        <5>1. PICK l \in Int : l = k + 1
          OBVIOUS
        <5>2. l \in 1 .. N + 1 /\ N + 1 \in 1 .. N + 1 /\ l < N + 1
          BY <4>2, <5>1
        <5>3. at[l] + 3 <= at[N + 1] /\ at[l] = z
          BY <1>2, <2>1, <5>1, <5>2, ClimbsUp
        <5>4. at[N + 1] \in Int
          BY <1>2 DEF Climbs
        <5>. QED
          BY <5>3, <5>4
      <4>. QED
        BY <4>1, <4>2
    <3>2. at[N + 1] \in Int
      BY <1>2 DEF Climbs
    <3>. QED
      BY <1>3, <2>2, <3>1, <3>2
  <2>14. D[z - 1] = D[z - 2] + Weight(text[z - 1][1])
    BY <1>5, <2>13
  <2>15. D[z - 1] = IF k = N THEN 0 ELSE 1
    BY <1>6, <2>9, <2>12, <2>14
  <2>. QED
    BY <2>1, <2>11, <2>15
<1>9. \A k \in 1 .. N : D[at[k] - 1] = 1
  <2> DEFINE S == {j \in 0 .. N - 1 : D[at[j + 1] - 1] = 1}
  <2>1. 0 \in S
    <3>1. at[1] = 2 /\ 1 \in 1 .. n /\ text[1][1] = "object"
      <4>1. text[1][1] = "object" /\ at[1] = 2
        BY <1>7 DEF Laid
      <4>2. n >= 1
        <5>1. at[1] + 3 <= at[N + 1]
          <6>1. 1 \in 1 .. N + 1 /\ N + 1 \in 1 .. N + 1 /\ 1 < N + 1
            BY <1>1
          <6>. QED
            BY <1>2, <6>1, ClimbsUp
        <5>2. at[N + 1] \in Int
          BY <1>2 DEF Climbs
        <5>. QED
          BY <1>3, <4>1, <5>1, <5>2
      <4>3. 1 \in 1 .. n
        BY <4>2
      <4>. QED
        BY <4>1, <4>3
    <3>2. D[1] = D[1 - 1] + Weight(text[1][1])
      BY <1>5, <3>1
    <3>3. D[1] = 1
      BY <1>5, <1>6, <3>1, <3>2
    <3>4. 0 \in 0 .. N - 1 /\ 0 + 1 = 1 /\ 2 - 1 = 1
      BY <1>1
    <3>. QED
      BY <3>1, <3>3, <3>4
  <2>2. ASSUME NEW j \in 0 .. (N - 1) - 1, j \in S PROVE j + 1 \in S
    <3>1. PICK k \in Int : k = j + 1
      OBVIOUS
    <3>2. k \in 1 .. N /\ k # N /\ k \in 0 .. N - 1
      BY <3>1
    <3>3. D[at[k] - 1] = 1
      BY <2>2, <3>1
    <3>4. D[at[k + 1] - 1] = 1
      BY <1>8, <3>2, <3>3
    <3>. QED
      BY <3>1, <3>2, <3>4
  <2>3. S = 0 .. N - 1
    <3>1. S \in SUBSET (0 .. N - 1) /\ N - 1 \in Nat
      BY <1>1
    <3> HIDE DEF S
    <3>. QED
      BY <2>1, <2>2, <3>1, CountUp
  <2>4. ASSUME NEW k \in 1 .. N PROVE D[at[k] - 1] = 1
    <3>1. PICK j \in Int : j = k - 1
      OBVIOUS
    <3>2. j \in 0 .. N - 1 /\ j + 1 = k
      BY <3>1
    <3>3. D[at[j + 1] - 1] = 1
      BY <2>3, <3>2
    <3>. QED
      BY <3>2, <3>3
  <2>. QED
    BY <2>4
<1>10. D[n] = 0
  <2>1. N \in 1 .. N
    BY <1>1
  <2>2. D[at[N + 1] - 1] = 0
    BY <1>8, <1>9, <2>1
  <2>. QED
    BY <1>3, <2>2
<1>11. ASSUME NEW p \in 1 .. n - 1 PROVE D[p] > 0
  <2>1. PICK q \in Nat : q = p + 1
    OBVIOUS
  <2>2. at[N + 1] \in Nat
    BY <1>2 DEF Climbs
  <2>3. 2 <= q /\ q < at[N + 1]
    BY <1>3, <2>1, <2>2
  <2>4. PICK k \in 1 .. N : at[k] <= q /\ q < at[k + 1]
    BY <1>2, <2>3, ClimbsOver
  <2>5. at[k] \in Nat /\ at[k + 1] \in Nat
    BY <1>2, SMTT(30) DEF Climbs
  <2>6. p \in at[k] - 1 .. at[k + 1] - 2
    BY <2>1, <2>4, <2>5
  <2>7. D[p] >= 1 /\ D[p] \in Int
    BY <1>5, <1>8, <1>9, <2>6
  <2>. QED
    BY <2>7
<1>12. text[1][1] = "object" /\ text # <<>>
  <2>1. text[1][1] = "object"
    BY <1>7 DEF Laid
  <2>2. at[1] + 3 <= at[N + 1] /\ at[1] = 2 /\ at[N + 1] \in Int
    <3>1. 1 \in 1 .. N + 1 /\ N + 1 \in 1 .. N + 1 /\ 1 < N + 1
      BY <1>1
    <3>2. at[1] + 3 <= at[N + 1]
      BY <1>2, <3>1, ClimbsUp
    <3>. QED
      BY <1>2, <3>2 DEF Climbs
  <2>3. n # 0
    BY <1>3, <2>2
  <2>. QED
    BY <1>3, <2>1, <2>3
<1>. QED
  BY <1>3, <1>4, <1>10, <1>11, <1>12 DEF Balanced, TokenKinds, Opening

-------------------------------------------------------------------------------
\* Tokens.

\* q holds, in order, the places up to p where a token begins.
Lists(q, p, text) ==
  /\ q \in Seq(Nat)
  /\ \A i \in 1 .. Len(q) : q[i] \in 1 .. p /\ text[q[i]][1] \in TokenKinds
  /\ \A i, j \in 1 .. Len(q) : i < j => q[i] < q[j]
  /\ \A r \in 1 .. p : text[r][1] \in TokenKinds => \E i \in 1 .. Len(q) : q[i] = r

LEMMA ListsNext ==
  ASSUME NEW q, NEW p \in Nat, NEW text, Lists(q, p, text)
  PROVE  Lists(IF text[p + 1][1] \in TokenKinds THEN Append(q, p + 1) ELSE q, p + 1, text)
<1>1. /\ q \in Seq(Nat)
      /\ \A i \in 1 .. Len(q) : q[i] \in 1 .. p /\ text[q[i]][1] \in TokenKinds
      /\ \A i, j \in 1 .. Len(q) : i < j => q[i] < q[j]
      /\ \A r \in 1 .. p : text[r][1] \in TokenKinds => \E i \in 1 .. Len(q) : q[i] = r
  BY DEF Lists
<1>2. CASE text[p + 1][1] \in TokenKinds
  <2>1. PICK l \in Nat : l = Len(q)
    BY <1>1
  <2>2. PICK w : w = Append(q, p + 1)
    OBVIOUS
  <2>3. /\ w \in Seq(Nat) /\ Len(w) = l + 1 /\ w[l + 1] = p + 1
        /\ \A i \in 1 .. l : w[i] = q[i]
    BY <1>1, <2>1, <2>2
  <2>4. ASSUME NEW i \in 1 .. l + 1 PROVE w[i] \in 1 .. p + 1 /\ text[w[i]][1] \in TokenKinds
    <3>1. CASE i = l + 1
      BY <1>2, <2>3, <3>1
    <3>2. CASE i # l + 1
      <4>1. i \in 1 .. l
        BY <3>2
      <4>2. w[i] = q[i] /\ q[i] \in 1 .. p /\ text[q[i]][1] \in TokenKinds
        BY <1>1, <2>1, <2>3, <4>1
      <4>. QED
        BY <4>2
    <3>. QED
      BY <3>1, <3>2
  <2>5. ASSUME NEW i \in 1 .. l + 1, NEW j \in 1 .. l + 1, i < j PROVE w[i] < w[j]
    <3>1. i \in 1 .. l /\ w[i] = q[i] /\ q[i] \in 1 .. p
      BY <1>1, <2>1, <2>3, <2>5
    <3>2. CASE j = l + 1
      BY <2>3, <3>1, <3>2
    <3>3. CASE j # l + 1
      <4>1. j \in 1 .. l
        BY <3>3
      <4>. QED
        BY <1>1, <2>1, <2>3, <2>5, <3>1, <4>1
    <3>. QED
      BY <3>2, <3>3
  <2>6. ASSUME NEW r \in 1 .. p + 1, text[r][1] \in TokenKinds
        PROVE  \E i \in 1 .. l + 1 : w[i] = r
    <3>1. CASE r = p + 1
      <4>1. l + 1 \in 1 .. l + 1
        OBVIOUS
      <4>. QED
        BY <2>3, <3>1, <4>1
    <3>2. CASE r # p + 1
      <4>1. r \in 1 .. p
        BY <3>2
      <4>2. PICK i \in 1 .. l : q[i] = r
        BY <1>1, <2>1, <2>6, <4>1
      <4>3. i \in 1 .. l + 1 /\ w[i] = r
        BY <2>3, <4>2
      <4>. QED
        BY <4>3
    <3>. QED
      BY <3>1, <3>2
  <2>7. Lists(w, p + 1, text)
    BY <2>3, <2>4, <2>5, <2>6 DEF Lists
  <2>. QED
    BY <1>2, <2>2, <2>7
<1>3. CASE text[p + 1][1] \notin TokenKinds
  <2>1. \A i \in 1 .. Len(q) : q[i] \in 1 .. p + 1
    BY <1>1
  <2>2. ASSUME NEW r \in 1 .. p + 1, text[r][1] \in TokenKinds
        PROVE  \E i \in 1 .. Len(q) : q[i] = r
    <3>1. r \in 1 .. p
      BY <1>3, <2>2
    <3>. QED
      BY <1>1, <2>2, <3>1
  <2>3. Lists(q, p + 1, text)
    BY <1>1, <2>1, <2>2 DEF Lists
  <2>. QED
    BY <1>3, <2>3
<1>. QED
  BY <1>2, <1>3

LEMMA PlacesListed ==
  ASSUME NEW text, NEW n \in Nat, n = Len(text)
  PROVE  Lists(Places(text), n, text)
<1> DEFINE V == Seq(Nat)
           step == [x \in (1 .. n) \X V |->
                      IF text[x[1]][1] \in TokenKinds THEN Append(x[2], x[1]) ELSE x[2]]
           R(h) == h = [p \in 0 .. n |-> IF p = 0 THEN <<>>
                          ELSE IF text[p][1] \in TokenKinds THEN Append(h[p - 1], p)
                          ELSE h[p - 1]]
<1>1. step \in [(1 .. n) \X V -> V]
  <2> SUFFICES ASSUME NEW x \in (1 .. n) \X V
               PROVE  (IF text[x[1]][1] \in TokenKinds THEN Append(x[2], x[1]) ELSE x[2]) \in V
    OBVIOUS
  <2>1. x[2] \in V /\ x[1] \in Nat
    OBVIOUS
  <2>2. Append(x[2], x[1]) \in V
    BY <2>1
  <2>. QED
    BY <2>1, <2>2
<1>2. PICK f \in [0 .. n -> V] : Follows(f, n, <<>>, step)
  <2>1. PICK a, g : a = <<>> /\ g = step
    OBVIOUS
  <2>2. a \in V
    BY <2>1
  <2> HIDE DEF step, V
  <2>3. g \in [(1 .. n) \X V -> V]
    BY <1>1, <2>1
  <2>4. \E f \in [0 .. n -> V] : Follows(f, n, a, g)
    BY <2>2, <2>3, Stepwise
  <2>. QED
    BY <2>1, <2>4
<1>3. R(f)
  <2> DEFINE g == [p \in 0 .. n |-> IF p = 0 THEN <<>>
                     ELSE IF text[p][1] \in TokenKinds THEN Append(f[p - 1], p)
                     ELSE f[p - 1]]
  <2>1. ASSUME NEW p \in 0 .. n PROVE f[p] = g[p]
    <3>1. CASE p = 0
      BY <1>2, <3>1 DEF Follows
    <3>2. CASE p # 0
      <4>1. p \in 1 .. n /\ p - 1 \in 0 .. n
        BY <3>2
      <4>2. f[p] = step[<<p, f[p - 1]>>]
        BY <1>2, <4>1 DEF Follows
      <4>3. <<p, f[p - 1]>> \in (1 .. n) \X V
        BY <4>1
      <4>4. f[p] = IF text[p][1] \in TokenKinds THEN Append(f[p - 1], p) ELSE f[p - 1]
        <5> HIDE DEF V
        <5>. QED
          BY <4>2, <4>3
      <4>. QED
        BY <3>2, <4>4
    <3>. QED
      BY <3>1, <3>2
  <2>2. f = [p \in 0 .. n |-> f[p]]
    OBVIOUS
  <2>. QED
    BY <2>1, <2>2
<1>4. \E h : R(h)
  <2> HIDE DEF R
  <2>. QED
    BY <1>3
<1>5. PICK U : U = (CHOOSE h : R(h)) /\ R(U)
  <2> HIDE DEF R
  <2>. QED
    BY <1>4
<1>6. Places(text) = U[n]
  BY <1>5 DEF Places
<1>7. \A p \in 0 .. n : U[p] = IF p = 0 THEN <<>>
                          ELSE IF text[p][1] \in TokenKinds THEN Append(U[p - 1], p)
                          ELSE U[p - 1]
  BY <1>5
<1> DEFINE S == {p \in 0 .. n : Lists(U[p], p, text)}
<1>8. 0 \in S
  <2>1. U[0] = <<>>
    BY <1>7
  <2>2. Lists(<<>>, 0, text)
    BY DEF Lists
  <2>. QED
    BY <2>1, <2>2
<1>9. ASSUME NEW p \in 0 .. n - 1, p \in S PROVE p + 1 \in S
  <2>1. p + 1 \in 0 .. n /\ (p + 1) - 1 = p /\ p + 1 # 0 /\ p \in Nat
    OBVIOUS
  <2>2. U[p + 1] = IF text[p + 1][1] \in TokenKinds THEN Append(U[p], p + 1) ELSE U[p]
    BY <1>7, <2>1
  <2>3. Lists(U[p], p, text)
    BY <1>9
  <2>4. Lists(U[p + 1], p + 1, text)
    <3>1. PICK q : q = U[p]
      OBVIOUS
    <3>2. Lists(IF text[p + 1][1] \in TokenKinds THEN Append(q, p + 1) ELSE q, p + 1, text)
      BY <2>1, <2>3, <3>1, ListsNext
    <3>. QED
      BY <2>2, <3>1, <3>2
  <2>. QED
    BY <2>1, <2>4
<1>10. S = 0 .. n
  <2>1. S \in SUBSET (0 .. n)
    OBVIOUS
  <2> HIDE DEF S
  <2>. QED
    BY <1>8, <1>9, <2>1, CountUp
<1>11. n \in S
  BY <1>10
<1>. QED
  BY <1>6, <1>11

\* The c tokens t of a text begin at the places P, in order, and at no other.
Lexed(t, P, c, text) ==
  /\ c \in Nat /\ Len(t) = c
  /\ \A i \in 1 .. c :
       /\ P[i] \in 1 .. Len(text) /\ text[P[i]][1] \in TokenKinds
       /\ t[i].start = P[i] /\ t[i].end = TokenEnd(text, P[i])
       /\ t[i].type = text[P[i]][1] /\ t[i].text = text[P[i]][2]
  /\ \A i, j \in 1 .. c : i < j => P[i] < P[j]
  /\ \A p \in 1 .. Len(text) : text[p][1] \in TokenKinds => \E i \in 1 .. c : P[i] = p

LEMMA TokensLexed ==
  ASSUME NEW text, Len(text) \in Nat, Tokens(text) # <<>>
  PROVE  \E P, c : Lexed(Tokens(text), P, c, text)
<1>1. PICK P : P = Places(text)
  OBVIOUS
<1>2. PICK n \in Nat : n = Len(text)
  OBVIOUS
<1>3. Lists(P, n, text)
  BY <1>1, <1>2, PlacesListed
<1>4. PICK c \in Nat : c = Len(P)
  BY <1>3 DEF Lists
<1>5. Tokens(text) = [i \in 1 .. c |-> Token(text, P[i])]
  BY <1>1, <1>2, <1>4 DEF Tokens
<1>6. PICK t : t = Tokens(text)
  OBVIOUS
<1>7. Len(t) = c /\ \A i \in 1 .. c : t[i] = Token(text, P[i])
  BY <1>5, <1>6
<1>8. \A i \in 1 .. c :
       /\ t[i].start = P[i] /\ t[i].end = TokenEnd(text, P[i])
       /\ t[i].type = text[P[i]][1] /\ t[i].text = text[P[i]][2]
  BY <1>7 DEF Token
<1>9. /\ \A i \in 1 .. c : P[i] \in 1 .. n /\ text[P[i]][1] \in TokenKinds
      /\ \A i, j \in 1 .. c : i < j => P[i] < P[j]
      /\ \A r \in 1 .. n : text[r][1] \in TokenKinds => \E i \in 1 .. c : P[i] = r
  BY <1>3, <1>4 DEF Lists
<1>10. Lexed(t, P, c, text)
  BY <1>2, <1>7, <1>8, <1>9 DEF Lexed
<1>. QED
  BY <1>6, <1>10

LEMMA InOrder ==
  ASSUME NEW t, NEW P, NEW c, NEW text, Lexed(t, P, c, text), NEW n \in Nat, n = Len(text)
  PROVE  /\ c \in Nat
         /\ \A i \in 1 .. c : P[i] \in 1 .. n /\ P[i] \in Nat
         /\ \A i, j \in 1 .. c : (P[i] < P[j] => i < j) /\ (P[i] = P[j] => i = j)
<1>1. /\ c \in Nat
      /\ \A i \in 1 .. c : P[i] \in 1 .. n
      /\ \A i, j \in 1 .. c : i < j => P[i] < P[j]
  BY DEF Lexed
<1>2. \A i \in 1 .. c : P[i] \in Nat
  BY <1>1
<1>3. ASSUME NEW i \in 1 .. c, NEW j \in 1 .. c
      PROVE  (P[i] < P[j] => i < j) /\ (P[i] = P[j] => i = j)
  <2>1. P[i] \in Nat /\ P[j] \in Nat
    BY <1>2
  <2>2. (i < j => P[i] < P[j]) /\ (j < i => P[j] < P[i])
    BY <1>1
  <2>3. i \in Int /\ j \in Int
    BY <1>1
  <2>. QED
    BY <2>1, <2>2, <2>3
<1>. QED
  BY <1>1, <1>2, <1>3

\* The token behind a token.
LEMMA NextToken ==
  ASSUME NEW t, NEW P, NEW c, NEW text, Lexed(t, P, c, text), NEW n \in Nat, n = Len(text),
         NEW i \in 1 .. c, NEW p \in 1 .. n, P[i] < p, text[p][1] \in TokenKinds,
         \A r \in P[i] + 1 .. p - 1 : text[r][1] \notin TokenKinds
  PROVE  i + 1 \in 1 .. c /\ P[i + 1] = p
<1>1. c \in Nat /\ \A k \in 1 .. c : P[k] \in Nat
  BY InOrder
<1>2. PICK j \in 1 .. c : P[j] = p
  BY DEF Lexed
<1>3. i < j
  BY <1>2, InOrder
<1>4. i + 1 \in 1 .. c
  BY <1>1, <1>3
<1>5. PICK k \in Int : k = i + 1
  BY <1>1
<1>6. k \in 1 .. c /\ i < k /\ P[i] < P[k] /\ text[P[k]][1] \in TokenKinds
  BY <1>1, <1>4, <1>5 DEF Lexed
<1>7. ~(k < j)
  <2>1. SUFFICES ASSUME k < j PROVE FALSE
    OBVIOUS
  <2>2. P[k] < p
    BY <1>2, <1>6, <2>1 DEF Lexed
  <2>3. P[k] \in P[i] + 1 .. p - 1
    BY <1>1, <1>6, <2>2
  <2>. QED
    BY <1>6, <2>3
<1>8. k = j
  BY <1>1, <1>3, <1>5, <1>7
<1>. QED
  BY <1>2, <1>4, <1>5, <1>8

\* skip_token.
LEMMA Skipped ==
  ASSUME NEW t, NEW P, NEW c, NEW text, Lexed(t, P, c, text), NEW n \in Nat, n = Len(text),
         NEW i \in 1 .. c, NEW e \in Nat, e = TokenEnd(text, P[i])
  PROVE  LET j == SkipToken(t, i)
         IN  /\ j \in i + 1 .. c + 1
             /\ j = c + 1 \/ P[j] >= e
             /\ \A k \in i + 1 .. j - 1 : P[k] < e
<1>1. c \in Nat /\ Len(t) = c /\ \A k \in 1 .. c : P[k] \in Nat /\ t[k].start = P[k]
  BY InOrder DEF Lexed
<1>2. t[i].end = e
  BY DEF Lexed
<1> DEFINE S == {j \in i + 1 .. c + 1 : j = c + 1 \/ P[j] >= e}
           Goal(j) == /\ j \in i + 1 .. c + 1
                      /\ j = c + 1 \/ P[j] >= e
                      /\ \A k \in i + 1 .. j - 1 : P[k] < e
<1>3. S \in SUBSET Nat /\ S # {}
  <2>1. c + 1 \in S
    BY <1>1
  <2>2. S \in SUBSET Nat
    BY <1>1
  <2> HIDE DEF S
  <2>. QED
    BY <2>1, <2>2
<1>4. PICK j \in S : \A k \in S : j <= k
  <2> HIDE DEF S
  <2>. QED
    BY <1>3, Least
<1>5. Goal(j)
  <2>1. j \in i + 1 .. c + 1 /\ (j = c + 1 \/ P[j] >= e)
    OBVIOUS
  <2>2. ASSUME NEW k \in i + 1 .. j - 1 PROVE P[k] < e
    <3>1. k \in 1 .. c /\ k \in i + 1 .. c + 1 /\ ~(j <= k) /\ k # c + 1
      BY <1>1, <2>1
    <3>2. k \notin S
      BY <1>4, <3>1
    <3>3. ~(P[k] >= e)
      BY <3>1, <3>2
    <3>. QED
      BY <1>1, <3>1, <3>3
  <2>. QED
    BY <2>1, <2>2
<1>6. SkipToken(t, i) = CHOOSE j2 : Goal(j2)
  <2>1. SkipToken(t, i) = CHOOSE j2 : /\ j2 \in i + 1 .. c + 1
                                      /\ j2 = c + 1 \/ t[j2].start >= e
                                      /\ \A k \in i + 1 .. j2 - 1 : t[k].start < e
    BY <1>1, <1>2 DEF SkipToken
  <2>2. ASSUME NEW j2
        PROVE  (/\ j2 \in i + 1 .. c + 1
                /\ j2 = c + 1 \/ t[j2].start >= e
                /\ \A k \in i + 1 .. j2 - 1 : t[k].start < e) <=> Goal(j2)
    <3>1. CASE j2 \in i + 1 .. c + 1
      <4>1. j2 = c + 1 \/ j2 \in 1 .. c
        BY <1>1, <3>1
      <4>2. \A k \in i + 1 .. j2 - 1 : k \in 1 .. c
        BY <1>1, <3>1
      <4>3. \A k \in i + 1 .. j2 - 1 : t[k].start = P[k]
        BY <1>1, <4>2
      <4>4. j2 = c + 1 \/ t[j2].start = P[j2]
        BY <1>1, <4>1
      <4>. QED
        BY <3>1, <4>3, <4>4
    <3>2. CASE j2 \notin i + 1 .. c + 1
      BY <3>2
    <3>. QED
      BY <3>1, <3>2
  <2>. QED
    BY <2>1, <2>2
<1>7. Goal(SkipToken(t, i))
  <2> HIDE DEF Goal
  <2>. QED
    BY <1>5, <1>6
<1>. QED
  BY <1>7

LEMMA SkippedTo ==
  ASSUME NEW t, NEW P, NEW c, NEW text, Lexed(t, P, c, text), NEW n \in Nat, n = Len(text),
         NEW i \in 1 .. c, NEW e \in Nat, e = TokenEnd(text, P[i]), P[i] < e,
         NEW p \in 1 .. n, e <= p, text[p][1] \in TokenKinds,
         \A r \in e .. p - 1 : text[r][1] \notin TokenKinds
  PROVE  SkipToken(t, i) \in 1 .. c /\ P[SkipToken(t, i)] = p
<1>1. c \in Nat /\ \A k \in 1 .. c : P[k] \in Nat
  BY InOrder
<1>2. PICK j : j = SkipToken(t, i)
  OBVIOUS
<1>3. /\ j \in i + 1 .. c + 1
      /\ j = c + 1 \/ P[j] >= e
      /\ \A k \in i + 1 .. j - 1 : P[k] < e
  BY <1>2, Skipped
<1>4. PICK l \in 1 .. c : P[l] = p
  BY DEF Lexed
<1>5. i < l
  <2>1. P[i] < P[l]
    BY <1>1, <1>4
  <2>. QED
    BY <2>1, InOrder
<1>6. ~(l < j)
  <2>1. SUFFICES ASSUME l < j PROVE FALSE
    OBVIOUS
  <2>2. l \in i + 1 .. j - 1
    BY <1>1, <1>3, <1>5, <2>1
  <2>3. P[l] < e
    BY <1>3, <2>2
  <2>. QED
    BY <1>4, <2>3
<1>7. j \in 1 .. c /\ j <= l
  BY <1>1, <1>3, <1>6
<1>8. P[j] >= e /\ text[P[j]][1] \in TokenKinds
  BY <1>1, <1>3, <1>7 DEF Lexed
<1>9. P[j] <= p
  <2>1. j = l \/ j < l
    BY <1>1, <1>7
  <2>2. j < l => P[j] < P[l]
    BY <1>7 DEF Lexed
  <2>. QED
    BY <1>1, <1>4, <1>7, <2>1, <2>2
<1>10. P[j] = p
  <2>1. P[j] \notin e .. p - 1
    BY <1>8
  <2>. QED
    BY <1>1, <1>7, <1>8, <1>9, <2>1
<1>. QED
  BY <1>2, <1>7, <1>10


\* A function exists whose value is given, or that at a later place.
Falls(f, L, stop, val, next) ==
  \A i \in 1 .. L : f[i] = IF i \in stop THEN val[i] ELSE f[next[i]]

LEMMA Descend ==
  ASSUME NEW L \in Nat, NEW V, NEW stop, NEW val \in [1 .. L -> V],
         NEW next, \A i \in 1 .. L : i \notin stop => next[i] \in i + 1 .. L
  PROVE  \E f \in [1 .. L -> V] : Falls(f, L, stop, val, next)
<1> DEFINE R(f, m) == \A i \in m + 1 .. L : f[i] = IF i \in stop THEN val[i] ELSE f[next[i]]
           S == {m \in 0 .. L : \E f \in [1 .. L -> V] : R(f, L - m)}
<1>1. 0 \in S
  <2>1. R(val, L - 0)
    OBVIOUS
  <2>2. \E f \in [1 .. L -> V] : R(f, L - 0)
    <3> HIDE DEF R
    <3>. QED
      BY <2>1
  <2>. QED
    BY <2>2
<1>2. ASSUME NEW m \in 0 .. L - 1, m \in S PROVE m + 1 \in S
  <2>1. PICK f \in [1 .. L -> V] : R(f, L - m)
    BY <1>2
  <2>2. PICK x \in 1 .. L : x = L - m
    OBVIOUS
  <2>3. x \notin stop => next[x] \in 1 .. L
    OBVIOUS
  <2> DEFINE y == IF x \in stop THEN val[x] ELSE f[next[x]]
             g == [i \in 1 .. L |-> IF i = x THEN y ELSE f[i]]
  <2>4. y \in V
    BY <2>3
  <2>5. g \in [1 .. L -> V]
    BY <2>4
  <2>6. ASSUME NEW i \in x .. L PROVE g[i] = IF i \in stop THEN val[i] ELSE g[next[i]]
    <3>1. i \in 1 .. L
      OBVIOUS
    <3>2. CASE i = x
      <4>1. x \notin stop => next[x] \in 1 .. L /\ next[x] # x
        BY <2>3
      <4>2. x \notin stop => g[next[x]] = f[next[x]]
        BY <4>1
      <4>. QED
        BY <3>2, <4>2
    <3>3. CASE i # x
      <4>1. i \in (L - m) + 1 .. L
        BY <2>2, <3>3
      <4>2. f[i] = IF i \in stop THEN val[i] ELSE f[next[i]]
        BY <2>1, <4>1
      <4>3. i \notin stop => next[i] \in 1 .. L /\ next[i] # x
        BY <2>2, <3>1, <4>1
      <4>4. i \notin stop => g[next[i]] = f[next[i]]
        BY <4>3
      <4>5. g[i] = f[i]
        BY <3>1, <3>3
      <4> HIDE DEF g
      <4>. QED
        BY <4>2, <4>4, <4>5
    <3>. QED
      BY <3>2, <3>3
  <2>7. (L - (m + 1)) + 1 = x
    BY <2>2
  <2>8. \E h \in [1 .. L -> V] : R(h, L - (m + 1))
    <3> HIDE DEF g
    <3>1. R(g, L - (m + 1))
      BY <2>6, <2>7
    <3> HIDE DEF R
    <3>. QED
      BY <2>5, <3>1
  <2>9. m + 1 \in 0 .. L
    OBVIOUS
  <2>. QED
    BY <2>8, <2>9
<1>3. S \in SUBSET (0 .. L)
  OBVIOUS
<1>4. S = 0 .. L
  <2> HIDE DEF S
  <2>1. \A i \in 0 .. L - 1 : i \in S => i + 1 \in S
    BY <1>2
  <2>. QED
    BY <1>1, <1>3, <2>1, CountUp, ZenonT(60)
<1>5. L \in S
  <2>1. L \in 0 .. L
    OBVIOUS
  <2> HIDE DEF S
  <2>. QED
    BY <1>4, <2>1
<1>6. PICK f \in [1 .. L -> V] : R(f, L - L)
  BY <1>5
<1>7. Falls(f, L, stop, val, next)
  <2>1. (L - L) + 1 = 1
    OBVIOUS
  <2>. QED
    BY <1>6, <2>1 DEF Falls
<1>. QED
  BY <1>7

-------------------------------------------------------------------------------
\* find_key.

\* An object of n members is at o; each member k begins with its key at at[k].
ObjectAt(text, o, n, at) ==
  /\ text[o][1] = "object" /\ at \in [1 .. n + 1 -> Nat] /\ at[1] = o + 1
  /\ TokenEnd(text, o) = at[n + 1] /\ at[n + 1] - 1 <= Len(text)
  /\ \A k \in 1 .. n :
       /\ at[k] + 3 <= at[k + 1] /\ at[k] + 3 <= at[n + 1]
       /\ text[at[k]][1] = "string" /\ text[at[k] + 1][1] \notin TokenKinds
       /\ text[at[k] + 2][1] \in TokenKinds
       /\ TokenEnd(text, at[k] + 2) = at[k + 1] - 1
       /\ text[at[k + 1] - 1][1] \notin TokenKinds

\* find_key as a function of the token it looks at.
Seeks(f, t, P, c, text, stop, key) ==
  \A i \in 1 .. c + 1 :
    f[i] = IF i + 1 > c \/ P[i] >= stop THEN NoToken
           ELSE IF text[P[i]][1] = "string" /\ text[P[i]][2] = key THEN i + 1
           ELSE f[SkipToken(t, i + 1)]

LEMMA FindKeySeeks ==
  ASSUME NEW t, NEW P, NEW c, NEW text, Lexed(t, P, c, text), NEW n \in Nat, n = Len(text),
         NEW x \in 1 .. c, text[P[x]][1] = "object", TokenEnd(text, P[x]) \in Nat, NEW key,
         \A i \in 1 .. c : TokenEnd(text, P[i]) \in Nat
  PROVE  \E f : Seeks(f, t, P, c, text, TokenEnd(text, P[x]), key) /\ FindKey(t, x, key) = f[x + 1]
<1> DEFINE stop == TokenEnd(text, P[x])
           Stop == {i \in 1 .. c + 1 : i + 1 > c \/ P[i] >= stop
                        \/ (text[P[i]][1] = "string" /\ text[P[i]][2] = key)}
           val == [i \in 1 .. c + 1 |-> IF i + 1 > c \/ P[i] >= stop THEN NoToken ELSE i + 1]
           next == [i \in 1 .. c + 1 |-> SkipToken(t, i + 1)]
           R(h) == h = [i \in 1 .. Len(t) + 1 |->
                          IF i + 1 > Len(t) \/ t[i].start >= t[x].end THEN NoToken
                          ELSE IF TokenEquals(t, i, key) THEN i + 1
                          ELSE h[SkipToken(t, i + 1)]]
<1>1. c \in Nat /\ Len(t) = c
  BY DEF Lexed
<1>2. \A i \in 1 .. c : i + 1 \in 1 .. c => SkipToken(t, i + 1) \in i + 2 .. c + 1
  <2> TAKE i \in 1 .. c
  <2> HAVE i + 1 \in 1 .. c
  <2>1. PICK k \in 1 .. c : k = i + 1
    OBVIOUS
  <2>2. PICK e \in Nat : e = TokenEnd(text, P[k])
    OBVIOUS
  <2>3. SkipToken(t, k) \in k + 1 .. c + 1
    BY <2>2, Skipped
  <2>. QED
    BY <1>1, <2>1, <2>3
<1>3. val \in [1 .. c + 1 -> Int]
  BY <1>1 DEF NoToken
<1>4. \A i \in 1 .. c + 1 : i \notin Stop => next[i] \in i + 1 .. c + 1
  <2> TAKE i \in 1 .. c + 1
  <2> HAVE i \notin Stop
  <2>1. i \in 1 .. c /\ i + 1 \in 1 .. c
    BY <1>1
  <2>2. SkipToken(t, i + 1) \in i + 2 .. c + 1
    BY <1>2, <2>1
  <2>. QED
    BY <1>1, <2>1, <2>2
<1>5. \E f \in [1 .. c + 1 -> Int] : Falls(f, c + 1, Stop, val, next)
  <2>1. PICK L \in Nat : L = c + 1
    BY <1>1
  <2> HIDE DEF Stop, val, next
  <2>2. val \in [1 .. L -> Int] /\ \A i \in 1 .. L : i \notin Stop => next[i] \in i + 1 .. L
    BY <1>3, <1>4, <2>1
  <2>3. \E f \in [1 .. L -> Int] : Falls(f, L, Stop, val, next)
    BY <2>2, Descend
  <2>. QED
    BY <2>1, <2>3
<1>6. PICK f \in [1 .. c + 1 -> Int] : Falls(f, c + 1, Stop, val, next)
  BY <1>5
<1>7. ASSUME NEW i \in 1 .. c + 1
      PROVE  f[i] = IF i + 1 > c \/ P[i] >= stop THEN NoToken
                    ELSE IF text[P[i]][1] = "string" /\ text[P[i]][2] = key THEN i + 1
                    ELSE f[SkipToken(t, i + 1)]
  <2>1. f[i] = IF i \in Stop THEN val[i] ELSE f[next[i]]
    <3> HIDE DEF Stop, val, next
    <3>. QED
      BY <1>6 DEF Falls
  <2> HIDE DEF stop
  <2>. QED
    BY <2>1
<1>8. ASSUME NEW i \in 1 .. c
      PROVE  /\ t[i].start = P[i] /\ t[x].end = stop
             /\ TokenEquals(t, i, key) <=> text[P[i]][1] = "string" /\ text[P[i]][2] = key
  BY DEF Lexed, TokenEquals
<1>9. R(f)
  <2> DEFINE g == [i \in 1 .. Len(t) + 1 |->
                     IF i + 1 > Len(t) \/ t[i].start >= t[x].end THEN NoToken
                     ELSE IF TokenEquals(t, i, key) THEN i + 1
                     ELSE f[SkipToken(t, i + 1)]]
  <2>1. ASSUME NEW i \in 1 .. c + 1 PROVE f[i] = g[i]
    <3>1. g[i] = IF i + 1 > c \/ t[i].start >= t[x].end THEN NoToken
                 ELSE IF TokenEquals(t, i, key) THEN i + 1
                 ELSE f[SkipToken(t, i + 1)]
      BY <1>1
    <3>2. CASE i + 1 > c
      <4> HIDE DEF g
      <4>. QED
        BY <1>7, <3>1, <3>2
    <3>3. CASE ~(i + 1 > c)
      <4>1. i \in 1 .. c
        BY <1>1, <3>3
      <4>2. /\ t[i].start = P[i] /\ t[x].end = stop
            /\ TokenEquals(t, i, key) <=> text[P[i]][1] = "string" /\ text[P[i]][2] = key
        BY <1>8, <4>1
      <4> HIDE DEF g, stop
      <4>. QED
        BY <1>7, <3>1, <3>3, <4>2
    <3>. QED
      BY <3>2, <3>3
  <2>2. f = [i \in 1 .. c + 1 |-> f[i]]
    OBVIOUS
  <2>3. g = [i \in 1 .. c + 1 |-> g[i]]
    BY <1>1
  <2> HIDE DEF g
  <2>4. f = g
    BY <2>1, <2>2, <2>3
  <2>. QED
    BY <2>4 DEF g
<1>10. \E h : R(h)
  <2> HIDE DEF R
  <2>. QED
    BY <1>9
<1>11. PICK U : U = (CHOOSE h : R(h)) /\ R(U)
  <2> HIDE DEF R
  <2>. QED
    BY <1>10
<1>12. ASSUME NEW i \in 1 .. c + 1
       PROVE  U[i] = IF i + 1 > c \/ P[i] >= stop THEN NoToken
                     ELSE IF text[P[i]][1] = "string" /\ text[P[i]][2] = key THEN i + 1
                     ELSE U[SkipToken(t, i + 1)]
  <2>1. U[i] = IF i + 1 > c \/ t[i].start >= t[x].end THEN NoToken
               ELSE IF TokenEquals(t, i, key) THEN i + 1
               ELSE U[SkipToken(t, i + 1)]
    <3>1. U = [j \in 1 .. Len(t) + 1 |->
                 IF j + 1 > Len(t) \/ t[j].start >= t[x].end THEN NoToken
                 ELSE IF TokenEquals(t, j, key) THEN j + 1
                 ELSE U[SkipToken(t, j + 1)]]
      BY <1>11
    <3>2. U = [j \in 1 .. c + 1 |->
                 IF j + 1 > c \/ t[j].start >= t[x].end THEN NoToken
                 ELSE IF TokenEquals(t, j, key) THEN j + 1
                 ELSE U[SkipToken(t, j + 1)]]
      BY <1>1, <3>1
    <3> HIDE DEF R
    <3>. QED
      BY <3>2
  <2>2. CASE i + 1 > c
    BY <2>1, <2>2
  <2>3. CASE ~(i + 1 > c)
    <3>1. i \in 1 .. c
      BY <1>1, <2>3
    <3>2. /\ t[i].start = P[i] /\ t[x].end = stop
          /\ TokenEquals(t, i, key) <=> text[P[i]][1] = "string" /\ text[P[i]][2] = key
      BY <1>8, <3>1
    <3> HIDE DEF stop
    <3>. QED
      BY <2>1, <2>3, <3>2
  <2>. QED
    BY <2>2, <2>3
<1>13. Seeks(U, t, P, c, text, TokenEnd(text, P[x]), key)
  BY <1>12 DEF Seeks
<1>14. FindKey(t, x, key) = U[x + 1]
  <2>1. x # 0 /\ ~(x > Len(t)) /\ t[x].type = "object"
    BY <1>1 DEF Lexed
  <2>2. FindKey(t, x, key) = (CHOOSE h : R(h))[x + 1]
    BY <2>1 DEF FindKey, NoToken
  <2> HIDE DEF R
  <2>. QED
    BY <1>11, <2>2
<1>. QED
  BY <1>13, <1>14

\* What find_key finds in an object: the value of a member with that key.
Finds(v, text, at, n, P, c, key) ==
  \/ v = NoToken /\ \A k \in 1 .. n : text[at[k]][2] # key
  \/ v \in 1 .. c /\ \E k \in 1 .. n : text[at[k]][2] = key /\ P[v] = at[k] + 2

LEMMA FindKeyFinds ==
  ASSUME NEW t, NEW P, NEW c, NEW text, Lexed(t, P, c, text), NEW x \in 1 .. c,
         NEW N \in Nat, N = Len(text), NEW n \in Nat, n >= 1, NEW at,
         ObjectAt(text, P[x], n, at), \A i \in 1 .. c : TokenEnd(text, P[i]) \in Nat,
         NEW key
  PROVE  Finds(FindKey(t, x, key), text, at, n, P, c, key)
<1>1. /\ text[P[x]][1] = "object" /\ at \in [1 .. n + 1 -> Nat] /\ at[1] = P[x] + 1
      /\ TokenEnd(text, P[x]) = at[n + 1] /\ at[n + 1] - 1 <= N
      /\ \A k \in 1 .. n :
           /\ at[k] + 3 <= at[k + 1] /\ at[k] + 3 <= at[n + 1]
           /\ text[at[k]][1] = "string" /\ text[at[k] + 1][1] \notin TokenKinds
           /\ text[at[k] + 2][1] \in TokenKinds
           /\ TokenEnd(text, at[k] + 2) = at[k + 1] - 1
           /\ text[at[k + 1] - 1][1] \notin TokenKinds
  BY DEF ObjectAt
<1>2. /\ c \in Nat
      /\ \A i \in 1 .. c : P[i] \in 1 .. N /\ P[i] \in Nat
      /\ \A i, j \in 1 .. c : (P[i] < P[j] => i < j) /\ (P[i] = P[j] => i = j)
  BY InOrder
<1>3. at \in [1 .. n + 1 -> Nat]
  BY DEF ObjectAt
<1>4. n + 1 \in 1 .. n + 1 /\ 1 \in 1 .. n + 1 /\ 1 \in 1 .. n
  <2>1. n + 1 \in 1 .. n + 1
    OBVIOUS
  <2>2. 1 \in 1 .. n + 1
    OBVIOUS
  <2>3. 1 \in 1 .. n
    OBVIOUS
  <2>. QED
    BY <2>1, <2>2, <2>3
<1>5. PICK stop \in Nat : stop = at[n + 1]
  BY <1>3, <1>4
<1>6. PICK f : Seeks(f, t, P, c, text, stop, key) /\ FindKey(t, x, key) = f[x + 1]
  <2>1. text[P[x]][1] = "object" /\ TokenEnd(text, P[x]) = stop
    BY <1>1, <1>5
  <2>2. \E f : /\ Seeks(f, t, P, c, text, TokenEnd(text, P[x]), key)
               /\ FindKey(t, x, key) = f[x + 1]
    BY <2>1, FindKeySeeks
  <2>. QED
    BY <2>1, <2>2
<1>7. \A i \in 1 .. c + 1 :
        f[i] = IF i + 1 > c \/ P[i] >= stop THEN NoToken
               ELSE IF text[P[i]][1] = "string" /\ text[P[i]][2] = key THEN i + 1
               ELSE f[SkipToken(t, i + 1)]
  BY <1>6 DEF Seeks
<1> DEFINE From(v, j) ==
             \/ v = NoToken /\ \A k \in j .. n : text[at[k]][2] # key
             \/ v \in 1 .. c /\ \E k \in j .. n : text[at[k]][2] = key /\ P[v] = at[k] + 2
           Begins(i, j) == IF j = n + 1 THEN i \in 1 .. c + 1 /\ (i = c + 1 \/ P[i] >= stop)
                           ELSE i \in 1 .. c /\ P[i] = at[j]
           S == {m \in 0 .. n : \A i : Begins(i, n + 1 - m) => From(f[i], n + 1 - m)}
<1>8. 0 \in S
  <2>1. ASSUME NEW i, Begins(i, n + 1) PROVE From(f[i], n + 1)
    <3>1. i \in 1 .. c + 1 /\ (i = c + 1 \/ P[i] >= stop)
      BY <2>1
    <3>2. f[i] = NoToken
      BY <1>2, <1>7, <3>1
    <3>. QED
      BY <3>2
  <2>2. n + 1 - 0 = n + 1
    OBVIOUS
  <2> HIDE DEF Begins, From
  <2>. QED
    BY <2>1, <2>2
<1>9. ASSUME NEW m \in 0 .. n - 1, m \in S PROVE m + 1 \in S
  <2>1. PICK j \in 1 .. n : j = n - m
    OBVIOUS
  <2>2. n + 1 - m = j + 1 /\ n + 1 - (m + 1) = j
    BY <2>1
  <2>3. \A i : Begins(i, j + 1) => From(f[i], j + 1)
    <3> HIDE DEF Begins, From
    <3>. QED
      BY <1>9, <2>2
  <2>4. ASSUME NEW i, Begins(i, j) PROVE From(f[i], j)
    <3>1. i \in 1 .. c /\ P[i] = at[j]
      BY <2>4
    <3>2. j \in 1 .. n + 1 /\ j + 1 \in 1 .. n + 1
      OBVIOUS
    <3>3. PICK a \in Nat, b \in Nat : a = at[j] /\ b = at[j + 1]
      BY <1>3, <3>2
    <3>4. /\ a + 3 <= b /\ a + 3 <= stop
          /\ text[a][1] = "string" /\ text[a + 1][1] \notin TokenKinds
          /\ text[a + 2][1] \in TokenKinds
          /\ TokenEnd(text, a + 2) = b - 1 /\ text[b - 1][1] \notin TokenKinds
      BY <1>1, <1>5, <3>3
    <3>5. stop - 1 <= N
      BY <1>1, <1>5
    <3>6. PICK p \in Nat : p = a + 2
      OBVIOUS
    <3>7. P[i] = a /\ a + 3 <= b /\ a + 3 <= stop
      BY <3>1, <3>3, <3>4
    <3>8. i + 1 \in 1 .. c /\ P[i + 1] = p
      <4>1. p \in 1 .. N /\ a < p
        BY <3>5, <3>6, <3>7
      <4>2. text[p][1] \in TokenKinds
        BY <3>4, <3>6
      <4>3. \A r \in a + 1 .. p - 1 : text[r][1] \notin TokenKinds
        <5>1. ASSUME NEW r \in a + 1 .. p - 1 PROVE r = a + 1
          BY <3>6
        <5>. QED
          BY <3>4, <5>1
      <4>. QED
        BY <3>1, <3>7, <4>1, <4>2, <4>3, NextToken, SMTT(30)
    <3>9. ~(i + 1 > c \/ P[i] >= stop) /\ i \in 1 .. c + 1
      <4>1. ~(a >= stop)
        BY <3>7
      <4>2. ~(i + 1 > c) /\ i \in 1 .. c + 1
        BY <1>2, <3>1, <3>8
      <4>. QED
        BY <3>7, <4>1, <4>2
    <3>10. CASE text[a][2] = key
      <4>1. f[i] = i + 1
        BY <1>7, <3>1, <3>3, <3>4, <3>9, <3>10
      <4>2. j \in j .. n /\ text[at[j]][2] = key /\ P[f[i]] = at[j] + 2
        BY <3>3, <3>6, <3>8, <3>10, <4>1
      <4>. QED
        BY <3>8, <4>1, <4>2
    <3>11. CASE text[a][2] # key
      <4>1. PICK s : s = SkipToken(t, i + 1)
        OBVIOUS
      <4>2. f[i] = f[s]
        BY <1>7, <3>1, <3>3, <3>9, <3>11, <4>1
      <4>3. PICK y \in 1 .. c : y = i + 1
        BY <3>8
      <4>4. PICK e \in Nat : e = b - 1
        BY <3>4
      <4>5. e = TokenEnd(text, P[y]) /\ P[y] < e
        BY <3>4, <3>6, <3>8, <4>3, <4>4
      <4>6. Begins(s, j + 1)
        <5>1. CASE j = n
          <6>1. b = stop
            BY <1>5, <3>3, <5>1
          <6>2. s \in y + 1 .. c + 1 /\ (s = c + 1 \/ P[s] >= e)
            BY <4>1, <4>3, <4>5, Skipped
          <6>3. s \in 1 .. c + 1
            BY <1>2, <6>2
          <6>4. ASSUME s # c + 1 PROVE P[s] >= stop
            <7>1. s \in 1 .. c
              BY <1>2, <6>3, <6>4
            <7>2. P[s] \in Nat /\ text[P[s]][1] \in TokenKinds
              BY <1>2, <7>1 DEF Lexed
            <7>3. P[s] # e
              BY <3>4, <4>4, <7>2
            <7>. QED
              BY <4>4, <6>1, <6>2, <6>4, <7>2, <7>3, SMTT(30)
          <6>. QED
            BY <5>1, <6>3, <6>4
        <5>2. CASE j # n
          <6>1. j + 1 \in 1 .. n
            BY <5>2
          <6>2. PICK l \in 1 .. n : l = j + 1
            BY <6>1
          <6>3. at[l] + 3 <= at[n + 1] /\ text[at[l]][1] = "string"
            BY <1>1
          <6>4. text[b][1] \in TokenKinds /\ b + 3 <= stop
            BY <1>5, <3>3, <6>2, <6>3 DEF TokenKinds
          <6>5. b \in 1 .. N /\ e <= b
            BY <3>4, <3>5, <4>4, <6>4
          <6>6. \A r \in e .. b - 1 : text[r][1] \notin TokenKinds
            <7>1. ASSUME NEW r \in e .. b - 1 PROVE r = b - 1
              BY <4>4
            <7>. QED
              BY <3>4, <7>1
          <6>7. SkipToken(t, y) \in 1 .. c /\ P[SkipToken(t, y)] = b
            BY <4>5, <6>4, <6>5, <6>6, SkippedTo
          <6>8. j + 1 # n + 1
            BY <5>2
          <6>. QED
            BY <3>3, <4>1, <4>3, <6>7, <6>8
        <5>. QED
          BY <5>1, <5>2
      <4>7. From(f[s], j + 1)
        <5> HIDE DEF Begins, From
        <5>. QED
          BY <2>3, <4>6
      <4>8. \A k \in j .. n : k = j \/ k \in j + 1 .. n
        OBVIOUS
      <4>9. \A k \in j + 1 .. n : k \in j .. n
        OBVIOUS
      <4>10. CASE f[s] = NoToken /\ \A k \in j + 1 .. n : text[at[k]][2] # key
        BY <3>3, <3>11, <4>2, <4>8, <4>10
      <4>11. CASE f[s] \in 1 .. c
                  /\ \E k \in j + 1 .. n : text[at[k]][2] = key /\ P[f[s]] = at[k] + 2
        BY <4>2, <4>9, <4>11
      <4>. QED
        BY <4>7, <4>10, <4>11
    <3>. QED
      BY <3>10, <3>11
  <2>5. m + 1 \in 0 .. n
    OBVIOUS
  <2> HIDE DEF Begins, From
  <2>. QED
    BY <2>2, <2>4, <2>5
<1>10. S = 0 .. n
  <2>1. S \in SUBSET (0 .. n)
    OBVIOUS
  <2>2. \A m \in 0 .. n - 1 : m \in S => m + 1 \in S
    <3> HIDE DEF S
    <3>. QED
      BY <1>9
  <2> HIDE DEF S
  <2>. QED
    BY <1>8, <2>1, <2>2, CountUp, ZenonT(60)
<1>11. n \in S /\ n + 1 - n = 1
  <2>1. n \in 0 .. n /\ n + 1 - n = 1
    OBVIOUS
  <2> HIDE DEF S
  <2>. QED
    BY <1>10, <2>1
<1>12. x + 1 \in 1 .. c /\ P[x + 1] = at[1]
  <2>1. PICK p \in Nat : p = at[1]
    BY <1>3, <1>4
  <2>2. at[1] + 3 <= at[n + 1] /\ text[at[1]][1] = "string"
    BY <1>1, <1>4
  <2>3. text[p][1] \in TokenKinds /\ p + 3 <= stop
    BY <1>5, <2>1, <2>2 DEF TokenKinds
  <2>4. PICK o \in Nat : P[x] = o
    BY <1>2
  <2>5. p = o + 1 /\ stop - 1 <= N
    BY <1>1, <1>5, <2>1, <2>4
  <2>6. p \in 1 .. N /\ o < p
    BY <2>3, <2>5
  <2>7. \A r \in o + 1 .. p - 1 : text[r][1] \notin TokenKinds
    BY <2>5
  <2>8. text[p][1] \in TokenKinds
    BY <2>3
  <2>9. x + 1 \in 1 .. c /\ P[x + 1] = p
    <3>1. P[x] < p /\ \A r \in P[x] + 1 .. p - 1 : text[r][1] \notin TokenKinds
      BY <2>6, <2>7, <2>4
    <3>2. p \in 1 .. N
      BY <2>6
    <3>. QED
      BY <2>8, <3>1, <3>2, NextToken
  <2>. QED
    BY <2>1, <2>9
<1>13. From(f[x + 1], 1)
  <2>1. Begins(x + 1, 1)
    BY <1>12
  <2>2. \A i : Begins(i, 1) => From(f[i], 1)
    <3> HIDE DEF Begins, From
    <3>. QED
      BY <1>11
  <2> HIDE DEF Begins, From
  <2>. QED
    BY <2>1, <2>2
<1>. QED
  BY <1>6, <1>13 DEF Finds

-------------------------------------------------------------------------------
\* A message.

LEMMA EndsInText ==
  ASSUME NEW text, NEW n \in Nat, n = Len(text), Balanced(text), NEW p \in 1 .. n
  PROVE  TokenEnd(text, p) \in Nat
<1>1. CASE text[p][1] \notin Opening
  BY <1>1 DEF TokenEnd
<1>2. CASE text[p][1] \in Opening
  <2>1. PICK D : D = Depth(text)
    OBVIOUS
  <2>2. /\ \A q \in 0 .. n : D[q] \in Int
        /\ \A q \in 1 .. n : D[q] = D[q - 1] + Weight(text[q][1])
        /\ D[0] = 0
    BY <2>1, DepthSteps
  <2>3. D[n] = 0 /\ \A i \in 1 .. n - 1 : D[i] > 0
    BY <2>1 DEF Balanced
  <2>4. Weight(text[p][1]) = 1
    BY <1>2 DEF Weight
  <2>5. PICK a \in Int, b \in Int : a = D[p] /\ b = D[p - 1]
    BY <2>2
  <2>6. a = b + 1
    BY <2>2, <2>4, <2>5
  <2>7. b >= 0
    <3>1. CASE p = 1
      BY <2>2, <2>5, <3>1
    <3>2. CASE p # 1
      <4>1. p - 1 \in 1 .. n - 1
        BY <3>2
      <4>. QED
        BY <2>3, <2>5, <4>1
    <3>. QED
      BY <3>1, <3>2
  <2>8. a > 0 /\ p # n
    <3>1. a > 0
      BY <2>6, <2>7
    <3>2. D[n] = 0
      BY <2>3
    <3>. QED
      BY <2>5, <3>1, <3>2
  <2> DEFINE S == {q \in p + 1 .. n : D[q] < a}
  <2>9. n \in S
    BY <2>3, <2>8
  <2>10. S \in SUBSET Nat
    OBVIOUS
  <2>11. PICK q \in S : \A r \in S : q <= r
    <3> HIDE DEF S
    <3>. QED
      BY <2>9, <2>10, Least
  <2>12. \A r \in p + 1 .. q - 1 : D[r] >= a
    <3> TAKE r \in p + 1 .. q - 1
    <3>1. r \in p + 1 .. n /\ ~(q <= r)
      OBVIOUS
    <3>2. r \notin S
      BY <2>11, <3>1
    <3>3. ~(D[r] < a) /\ r \in 0 .. n
      BY <3>1, <3>2
    <3>4. D[r] \in Int
      BY <2>2, <3>3
    <3>. QED
      BY <3>3, <3>4
  <2> DEFINE M(e) == e \in p + 1 .. n /\ D[e] < D[p] /\ \A r \in p + 1 .. e - 1 : D[r] >= D[p]
  <2>13. M(q)
    BY <2>5, <2>12
  <2>14. MatchingEnd(text, p) = CHOOSE e : M(e)
    BY <2>1 DEF MatchingEnd
  <2>15. M(MatchingEnd(text, p))
    <3> HIDE DEF M
    <3>. QED
      BY <2>13, <2>14
  <2>16. MatchingEnd(text, p) \in Nat
    BY <2>15
  <2>. QED
    BY <1>2, <2>16 DEF TokenEnd
<1>. QED
  BY <1>1, <1>2

\* What the assumptions say of a message.
Sent(m) ==
  /\ m \in Seq(Member) /\ m # <<>> /\ Distinct(m) /\ Has(m, "responsetype")
  /\ \A k \in 1 .. Len(m) : WellFormed(m[k])

LEMMA SentBalanced ==
  ASSUME NEW m, Sent(m), NEW k \in 1 .. Len(m)
  PROVE  /\ m[k] \in Member /\ m[k][2] \in Seq(Lexeme) /\ Balanced(m[k][2])
         /\ Len(m[k][2]) \in Nat /\ Len(m[k][2]) >= 1 /\ m[k][2][1][1] \in TokenKinds
<1>1. m[k] \in Member /\ WellFormed(m[k])
  BY DEF Sent
<1>2. m[k][2] \in Seq(Lexeme)
  BY <1>1 DEF Member
<1>3. Balanced(m[k][2])
  BY <1>1 DEF WellFormed
<1>4. m[k][2] # <<>> /\ m[k][2][1][1] \in TokenKinds
  BY <1>3 DEF Balanced
<1>5. Len(m[k][2]) \in Nat /\ Len(m[k][2]) >= 1
  <2>1. PICK v \in Seq(Lexeme) : v = m[k][2]
    BY <1>2
  <2>2. v # <<>>
    BY <1>4, <2>1
  <2>3. Len(v) \in Nat /\ Len(v) >= 1
    BY <2>2
  <2>. QED
    BY <2>1, <2>3
<1>. QED
  BY <1>1, <1>2, <1>3, <1>4, <1>5

LEMMA MarksNoTokens ==
  /\ Mark("colon")[1] \notin TokenKinds /\ Mark("comma")[1] \notin TokenKinds
  /\ Mark("endobject")[1] \notin TokenKinds /\ Mark("endarray")[1] \notin TokenKinds
  /\ Mark("object")[1] = "object" /\ Mark("array")[1] = "array"
  /\ \A key : Str(key)[1] = "string" /\ Str(key)[2] = key
BY DEF Mark, Str, TokenKinds, Opening

LEMMA MessageObject ==
  ASSUME NEW m, Sent(m), NEW text, NEW at, Laid(text, m, at), NEW N \in Nat, N = Len(m)
  PROVE  ObjectAt(text, 1, N, at) /\ Balanced(text)
<1>1. m \in Seq(Member) /\ m # <<>>
  BY DEF Sent
<1>2. /\ text \in Seq(Lexeme) /\ Len(text) = at[N + 1] - 1 /\ text[1] = Mark("object")
      /\ at \in [1 .. N + 1 -> Nat] /\ at[1] = 2
      /\ \A k \in 1 .. N :
           /\ at[k + 1] = at[k] + Len(m[k][2]) + 3
           /\ text[at[k]] = Str(m[k][1]) /\ text[at[k] + 1] = Mark("colon")
           /\ \A i \in 1 .. Len(m[k][2]) : text[at[k] + 1 + i] = m[k][2][i]
           /\ text[at[k + 1] - 1] = IF k = N THEN Mark("endobject") ELSE Mark("comma")
  BY DEF Laid
<1>3. Balanced(text)
  BY <1>1, SentBalanced, ObjectBalanced
<1>4. PICK n \in Nat : n = Len(text)
  BY <1>2
<1>5. PICK z \in Nat : z = at[N + 1]
  <2>1. N + 1 \in 1 .. N + 1
    OBVIOUS
  <2>. QED
    BY <1>2, <2>1
<1>6. TokenEnd(text, 1) = z
  <2>1. n >= 1 /\ n = z - 1
    <3>1. text # <<>>
      BY <1>3 DEF Balanced
    <3>. QED
      BY <1>2, <1>4, <1>5, <3>1
  <2>2. PICK d \in Nat : d = 0
    OBVIOUS
  <2>3. Stands(text, d, text)
    BY <1>4, <2>2 DEF Stands
  <2>4. TokenEnd(text, d + 1) = d + n + 1
    BY <1>3, <1>4, <2>1, <2>3, ValueEnds, SMTT(30), ZenonT(30)
  <2>. QED
    BY <2>1, <2>2, <2>4
<1>7. ASSUME NEW k \in 1 .. N
      PROVE  /\ at[k] + 3 <= at[k + 1] /\ at[k] + 3 <= at[N + 1]
             /\ text[at[k]][1] = "string" /\ text[at[k] + 1][1] \notin TokenKinds
             /\ text[at[k] + 2][1] \in TokenKinds
             /\ TokenEnd(text, at[k] + 2) = at[k + 1] - 1
             /\ text[at[k + 1] - 1][1] \notin TokenKinds
  <2>1. PICK v : v = m[k][2]
    OBVIOUS
  <2>2. PICK l \in Nat : l = Len(v)
    BY <2>1, SentBalanced
  <2>3. Balanced(v) /\ l >= 1 /\ v[1][1] \in TokenKinds
    BY <2>1, <2>2, SentBalanced
  <2>4. k \in 1 .. N + 1 /\ k + 1 \in 1 .. N + 1
    OBVIOUS
  <2>5. PICK a \in Nat, b \in Nat : a = at[k] /\ b = at[k + 1]
    BY <1>2, <2>4
  <2>6. /\ b = a + l + 3 /\ text[a] = Str(m[k][1]) /\ text[a + 1] = Mark("colon")
        /\ \A i \in 1 .. l : text[a + 1 + i] = v[i]
        /\ text[b - 1] = IF k = N THEN Mark("endobject") ELSE Mark("comma")
    BY <1>2, <2>1, <2>2, <2>5
  <2>7. text[a + 2] = v[1]
    <3>1. 1 \in 1 .. l /\ a + 1 + 1 = a + 2
      BY <2>3
    <3>. QED
      BY <2>6, <3>1
  <2>8. TokenEnd(text, a + 2) = b - 1
    <3>1. PICK d \in Nat : d = a + 1
      OBVIOUS
    <3>2. Stands(text, d, v)
      BY <1>1, <2>1, <2>5, <3>1, MemberStands
    <3>3. TokenEnd(text, d + 1) = d + l + 1
      BY <1>4, <2>2, <2>3, <3>2, ValueEnds
    <3>4. d + 1 = a + 2 /\ d + l + 1 = b - 1
      BY <2>6, <3>1
    <3>. QED
      BY <3>3, <3>4
  <2>9. a + 3 <= z
    <3>1. PICK size : Climbs(at, size, N)
      BY <1>1, LaidClimbs
    <3>2. N + 1 \in 1 .. N + 1 /\ k < N + 1
      OBVIOUS
    <3>3. at[k] + 3 <= at[N + 1]
      BY <2>4, <3>1, <3>2, ClimbsUp
    <3>. QED
      BY <1>5, <2>5, <3>3
  <2>10. /\ text[a][1] = "string" /\ text[a + 1][1] \notin TokenKinds
         /\ text[b - 1][1] \notin TokenKinds
    BY <2>6, MarksNoTokens
  <2>11. a + 3 <= b
    BY <2>3, <2>6
  <2>. QED
    BY <1>5, <2>3, <2>5, <2>7, <2>8, <2>9, <2>10, <2>11
<1>8. text[1][1] = "object" /\ at[1] = 1 + 1 /\ at[N + 1] - 1 <= Len(text)
  BY <1>2, <1>4, MarksNoTokens
<1>9. ObjectAt(text, 1, N, at)
  BY <1>2, <1>5, <1>6, <1>7, <1>8 DEF ObjectAt
<1>. QED
  BY <1>3, <1>9

LEMMA GetIs ==
  ASSUME NEW m, Sent(m), NEW k \in 1 .. Len(m)
  PROVE  Has(m, m[k][1]) /\ Get(m, m[k][1]) = m[k][2]
<1>1. m \in Seq(Member) /\ DOMAIN m = 1 .. Len(m) /\ Distinct(m)
  BY DEF Sent
<1>2. Has(m, m[k][1])
  BY <1>1 DEF Has
<1> DEFINE Is(i) == i \in DOMAIN m /\ m[i][1] = m[k][1]
<1>3. Is(k)
  BY <1>1
<1>4. PICK i : i = (CHOOSE j : Is(j)) /\ Is(i)
  <2> HIDE DEF Is
  <2>. QED
    BY <1>3
<1>5. i = k
  BY <1>1, <1>4 DEF Distinct
<1>6. Get(m, m[k][1]) = m[i][2]
  BY <1>4 DEF Get
<1>. QED
  BY <1>2, <1>5, <1>6

LEMMA HasSome ==
  ASSUME NEW m, Sent(m), NEW key, Has(m, key)
  PROVE  \E k \in 1 .. Len(m) : m[k][1] = key /\ Get(m, key) = m[k][2]
<1>1. m \in Seq(Member) /\ DOMAIN m = 1 .. Len(m)
  BY DEF Sent
<1>2. PICK k \in 1 .. Len(m) : m[k][1] = key
  BY <1>1 DEF Has
<1>. QED
  BY <1>2, GetIs

\* The message m, its text, and the c tokens t of it, which begin at the places P.
Reading(m, text, at, t, P, c) ==
  /\ Sent(m) /\ text = ObjectText(m) /\ Laid(text, m, at) /\ t = Tokens(text)
  /\ Lexed(t, P, c, text) /\ ObjectAt(text, 1, Len(m), at)
  /\ 1 \in 1 .. c /\ P[1] = 1
  /\ \A i \in 1 .. c : TokenEnd(text, P[i]) \in Nat
  /\ Len(text) \in Nat /\ Len(m) \in Nat /\ Len(m) >= 1

LEMMA SentIsRead ==
  ASSUME NEW m, Sent(m), Tokens(ObjectText(m)) # <<>>
  PROVE  \E at, P, c : Reading(m, ObjectText(m), at, Tokens(ObjectText(m)), P, c)
<1>1. PICK text : text = ObjectText(m)
  OBVIOUS
<1>2. PICK t : t = Tokens(text)
  OBVIOUS
<1>3. PICK at : Laid(text, m, at)
  BY <1>1, ObjectIsLaid DEF Sent
<1>4. PICK n \in Nat : n = Len(text)
  BY <1>3 DEF Laid
<1>5. PICK N \in Nat : N = Len(m)
  BY DEF Sent
<1>6. N >= 1
  BY <1>5 DEF Sent
<1>7. ObjectAt(text, 1, N, at) /\ Balanced(text)
  BY <1>3, <1>5, MessageObject
<1>8. PICK P, c : Lexed(t, P, c, text)
  BY <1>1, <1>2, <1>4, TokensLexed
<1>9. /\ c \in Nat
      /\ \A i \in 1 .. c : P[i] \in 1 .. n /\ P[i] \in Nat
      /\ \A i, j \in 1 .. c : (P[i] < P[j] => i < j) /\ (P[i] = P[j] => i = j)
  BY <1>4, <1>8, InOrder
<1>10. \A i \in 1 .. c : TokenEnd(text, P[i]) \in Nat
  BY <1>4, <1>7, <1>9, EndsInText
<1>11. PICK x \in 1 .. c : P[x] = 1
  <2>1. text[1][1] \in TokenKinds
    BY <1>7 DEF ObjectAt, TokenKinds, Opening
  <2>2. 1 \in 1 .. n
    <3>1. text # <<>> /\ text \in Seq(Lexeme)
      BY <1>3, <1>7 DEF Balanced, Laid
    <3>. QED
      BY <1>4, <3>1
  <2>. QED
    BY <1>4, <1>8, <2>1, <2>2 DEF Lexed
<1>12. x = 1
  <2>1. SUFFICES ASSUME x # 1 PROVE FALSE
    OBVIOUS
  <2>2. PICK y \in 1 .. c : y = 1
    BY <1>9, <1>11
  <2>3. y < x
    BY <1>9, <1>11, <2>1, <2>2
  <2>4. P[y] < P[x]
    BY <1>8, <1>11, <2>2, <2>3 DEF Lexed
  <2>5. P[y] \in 1 .. n
    BY <1>9, <2>2
  <2>. QED
    BY <1>11, <2>4, <2>5
<1>13. 1 \in 1 .. c /\ P[1] = 1
  BY <1>11, <1>12
<1>14. Reading(m, text, at, t, P, c)
  BY <1>1, <1>2, <1>3, <1>4, <1>5, <1>6, <1>7, <1>8, <1>10, <1>13 DEF Reading
<1>. QED
  BY <1>1, <1>2, <1>14

\* find_key on the whole message.
LEMMA RootFinds ==
  ASSUME NEW m, NEW text, NEW at, NEW t, NEW P, NEW c, Reading(m, text, at, t, P, c), NEW key,
         NEW v, v = FindKey(t, Root, key)
  PROVE  \/ v = NoToken /\ ~Has(m, key)
         \/ /\ v \in 1 .. c /\ v # NoToken /\ Has(m, key)
            /\ \E k \in 1 .. Len(m) :
                 m[k][1] = key /\ Get(m, key) = m[k][2] /\ P[v] = at[k] + 2
            /\ t[v].type = Get(m, key)[1][1] /\ t[v].text = Get(m, key)[1][2]
<1>1. /\ Sent(m) /\ Laid(text, m, at) /\ Lexed(t, P, c, text) /\ 1 \in 1 .. c /\ P[1] = 1
      /\ ObjectAt(text, 1, Len(m), at) /\ \A i \in 1 .. c : TokenEnd(text, P[i]) \in Nat
  BY DEF Reading
<1>2. PICK n \in Nat, N \in Nat : n = Len(text) /\ N = Len(m) /\ N >= 1
  BY DEF Reading
<1>3. Finds(v, text, at, N, P, c, key)
  <2>1. PICK x \in 1 .. c : x = 1
    BY <1>1
  <2>2. ObjectAt(text, P[x], N, at)
    BY <1>1, <1>2, <2>1
  <2>3. Finds(FindKey(t, x, key), text, at, N, P, c, key)
    BY <1>1, <1>2, <2>2, FindKeyFinds
  <2>. QED
    BY <2>1, <2>3 DEF Root
<1>4. \A k \in 1 .. N : text[at[k]] = Str(m[k][1])
  BY <1>1, <1>2 DEF Laid
<1>5. \A k \in 1 .. N : text[at[k]][2] = m[k][1]
  BY <1>4, MarksNoTokens
<1>6. CASE v = NoToken /\ \A k \in 1 .. N : text[at[k]][2] # key
  <2>1. ~Has(m, key)
    <3>1. SUFFICES ASSUME Has(m, key) PROVE FALSE
      OBVIOUS
    <3>2. PICK k \in 1 .. N : m[k][1] = key
      BY <1>1, <1>2, <3>1, HasSome
    <3>. QED
      BY <1>5, <1>6, <3>2
  <2>. QED
    BY <1>6, <2>1
<1>7. CASE v \in 1 .. c /\ \E k \in 1 .. N : text[at[k]][2] = key /\ P[v] = at[k] + 2
  <2>1. PICK k \in 1 .. N : text[at[k]][2] = key /\ P[v] = at[k] + 2
    BY <1>7
  <2>2. m[k][1] = key
    BY <1>5, <2>1
  <2>3. Has(m, key) /\ Get(m, key) = m[k][2]
    BY <1>1, <1>2, <2>2, GetIs
  <2>4. text[P[v]] = m[k][2][1]
    <3>1. PICK l \in Nat : l = Len(m[k][2]) /\ l >= 1
      BY <1>1, <1>2, SentBalanced
    <3>2. PICK a \in Nat : a = at[k]
      <4>1. k \in 1 .. N + 1
        OBVIOUS
      <4>. QED
        BY <1>1, <1>2, <4>1 DEF Laid
    <3>3. \A i \in 1 .. l : text[a + 1 + i] = m[k][2][i]
      BY <1>1, <1>2, <3>1, <3>2 DEF Laid
    <3>4. 1 \in 1 .. l /\ a + 1 + 1 = a + 2
      BY <3>1
    <3>5. text[a + 2] = m[k][2][1]
      BY <3>3, <3>4
    <3>. QED
      BY <2>1, <3>2, <3>5
  <2>5. t[v].type = text[P[v]][1] /\ t[v].text = text[P[v]][2]
    BY <1>1, <1>7 DEF Lexed
  <2>6. v # NoToken
    <3>1. c \in Nat
      BY <1>1 DEF Lexed
    <3>. QED
      BY <1>7, <3>1 DEF NoToken
  <2>. QED
    BY <1>2, <1>7, <2>1, <2>2, <2>3, <2>4, <2>5, <2>6
<1>. QED
  BY <1>3, <1>6, <1>7 DEF Finds

\* copy_key, copy_string_key, bool_key and token_equals on the whole message.
LEMMA MarksDiffer ==
  /\ \A a, b : Str(a) = Str(b) => a = b
  /\ \A a, b : Prim(a) = Prim(b) => a = b
  /\ \A a : Str(a)[1] = "string" /\ Str(a)[2] = a /\ Prim(a)[1] = "primitive" /\ Prim(a)[2] = a
BY DEF Str, Prim

LEMMA SingleValue ==
  ASSUME NEW v \in Seq(Lexeme), Balanced(v), Single(v[1])
  PROVE  /\ Len(v) = 1 /\ v = <<v[1]>>
         /\ v[1][1] = "string" => v[1] = Str(v[1][2])
         /\ v[1][1] = "primitive" => v[1] = Prim(v[1][2])
<1>1. PICK n \in Nat : n = Len(v)
  OBVIOUS
<1>2. n >= 1
  BY <1>1 DEF Balanced
<1>3. n = 1
  <2>1. SUFFICES ASSUME n # 1 PROVE FALSE
    OBVIOUS
  <2>2. 1 \in 1 .. n - 1 /\ 1 \in 1 .. n
    BY <1>2, <2>1
  <2>3. Depth(v)[1] > 0
    BY <1>1, <2>2 DEF Balanced
  <2>4. Depth(v)[1] = Depth(v)[1 - 1] + Weight(v[1][1]) /\ Depth(v)[0] = 0
    BY <1>1, <2>2, DepthSteps
  <2>5. Weight(v[1][1]) = 0
    BY DEF Single, Weight, Opening, Closing
  <2>6. 1 - 1 = 0
    OBVIOUS
  <2>. QED
    BY <2>3, <2>4, <2>5, <2>6
<1>4. v[1] \in Lexeme
  BY <1>1, <1>2
<1>5. v[1] = <<v[1][1], v[1][2]>>
  BY <1>4 DEF Lexeme
<1>6. v = <<v[1]>>
  <2>1. PICK e \in Lexeme : e = v[1]
    BY <1>4
  <2>2. PICK w : w = <<e>>
    OBVIOUS
  <2>3. w \in Seq(Lexeme) /\ Len(w) = 1 /\ w[1] = e
    BY <2>2
  <2>4. Len(v) = Len(w) /\ \A i \in 1 .. Len(v) : v[i] = w[i]
    BY <1>1, <1>3, <2>1, <2>3
  <2>5. v = w
    BY <2>3, <2>4, SeqEqual
  <2>. QED
    BY <2>1, <2>2, <2>5
<1>. QED
  BY <1>1, <1>3, <1>5, <1>6 DEF Str, Prim

\* A value that is a single lexeme is told by it.
LEMMA ValueIs ==
  ASSUME NEW v \in Seq(Lexeme), Balanced(v), NEW x
  PROVE  /\ v = <<Str(x)>> <=> v[1] = Str(x)
         /\ v = <<Prim(x)>> <=> v[1] = Prim(x)
<1>1. v = <<Str(x)>> => v[1] = Str(x)
  OBVIOUS
<1>2. v = <<Prim(x)>> => v[1] = Prim(x)
  OBVIOUS
<1>3. ASSUME v[1] = Str(x) PROVE v = <<Str(x)>>
  <2>1. Single(v[1])
    BY <1>3, MarksDiffer DEF Single
  <2>. QED
    BY <1>3, <2>1, SingleValue
<1>4. ASSUME v[1] = Prim(x) PROVE v = <<Prim(x)>>
  <2>1. Single(v[1])
    BY <1>4, MarksDiffer DEF Single
  <2>. QED
    BY <1>4, <2>1, SingleValue
<1>. QED
  BY <1>1, <1>2, <1>3, <1>4

LEMMA GetIsValue ==
  ASSUME NEW m, Sent(m), NEW key, Has(m, key)
  PROVE  /\ Get(m, key) \in Seq(Lexeme) /\ Balanced(Get(m, key)) /\ Get(m, key) # <<>>
         /\ WellFormed(<<key, Get(m, key)>>)
<1>1. PICK k \in 1 .. Len(m) : m[k][1] = key /\ Get(m, key) = m[k][2]
  BY HasSome
<1>2. m[k] \in Member /\ WellFormed(m[k])
  BY DEF Sent
<1>3. m[k] = <<key, Get(m, key)>>
  BY <1>1, <1>2 DEF Member
<1>4. Get(m, key) \in Seq(Lexeme) /\ Balanced(Get(m, key))
  BY <1>1, SentBalanced
<1>. QED
  BY <1>2, <1>3, <1>4 DEF Balanced

LEMMA RootText ==
  ASSUME NEW m, NEW text, NEW at, NEW t, NEW P, NEW c, Reading(m, text, at, t, P, c), NEW key,
         NEW old
  PROVE  /\ CopyKey(t, Root, key, old) = IF Has(m, key) THEN Get(m, key)[1][2] ELSE old
         /\ BoolKey(t, Root, key, old) =
              IF Has(m, key) THEN Get(m, key)[1][2] \in {"true", "1"} ELSE old
         /\ CopyStringKey(t, Root, key, old) =
              IF Has(m, key) /\ Get(m, key)[1][1] = "string" THEN Get(m, key)[1][2] ELSE old
<1>1. PICK v : v = FindKey(t, Root, key)
  OBVIOUS
<1>2. \/ v = NoToken /\ ~Has(m, key)
      \/ /\ v # NoToken /\ Has(m, key)
         /\ t[v].type = Get(m, key)[1][1] /\ t[v].text = Get(m, key)[1][2]
  BY <1>1, RootFinds
<1>. QED
  BY <1>1, <1>2 DEF CopyKey, BoolKey, CopyStringKey

LEMMA RootBool ==
  ASSUME NEW m, NEW text, NEW at, NEW t, NEW P, NEW c, Reading(m, text, at, t, P, c),
         NEW key \in BoolKeys, NEW old
  PROVE  BoolKey(t, Root, key, old) = IF Has(m, key) THEN True(m, key) ELSE old
<1>1. Sent(m)
  BY DEF Reading
<1>2. CASE ~Has(m, key)
  BY <1>2, RootText
<1>3. CASE Has(m, key)
  <2>1. PICK v : v = Get(m, key)
    OBVIOUS
  <2>2. v \in Seq(Lexeme) /\ Balanced(v) /\ WellFormed(<<key, v>>)
    BY <1>1, <1>3, <2>1, GetIsValue
  <2>3. v[1][1] = "primitive"
    BY <2>2 DEF WellFormed
  <2>4. Single(v[1])
    BY <2>3 DEF Single
  <2>5. v[1] = Prim(v[1][2])
    BY <2>2, <2>3, <2>4, SingleValue
  <2>6. \A x : v[1] = Prim(x) <=> v[1][2] = x
    BY <2>5, MarksDiffer
  <2>7. \A x : v = <<Prim(x)>> <=> v[1] = Prim(x)
    BY <2>2, ValueIs
  <2>8. BoolKey(t, Root, key, old) = (v[1][2] \in {"true", "1"})
    BY <1>3, <2>1, RootText
  <2>9. True(m, key) <=> v = <<Prim("true")>> \/ v = <<Prim("1")>>
    BY <1>3, <2>1 DEF True
  <2>10. True(m, key) <=> v[1][2] = "true" \/ v[1][2] = "1"
    BY <2>6, <2>7, <2>9
  <2>11. True(m, key) \in BOOLEAN
    BY DEF True, Has
  <2>12. BoolKey(t, Root, key, old) = True(m, key)
    BY <2>8, <2>10, <2>11
  <2>. QED
    BY <1>3, <2>12
<1>. QED
  BY <1>2, <1>3

LEMMA ResponseIs ==
  ASSUME NEW m, NEW text, NEW at, NEW t, NEW P, NEW c, Reading(m, text, at, t, P, c),
         NEW v, v = FindKey(t, Root, "responsetype"), NEW name
  PROVE  v # NoToken /\ (TokenEquals(t, v, name) <=> Response(m) = name)
<1>1. Sent(m) /\ Has(m, "responsetype")
  BY DEF Reading, Sent
<1>2. /\ v # NoToken
      /\ t[v].type = Get(m, "responsetype")[1][1] /\ t[v].text = Get(m, "responsetype")[1][2]
  BY <1>1, RootFinds
<1>3. Get(m, "responsetype")[1][1] = "string"
  <2>1. PICK w : w = Get(m, "responsetype")
    OBVIOUS
  <2>2. WellFormed(<<"responsetype", w>>)
    BY <1>1, <2>1, GetIsValue
  <2>3. w[1][1] = "string"
    BY <2>2 DEF WellFormed
  <2>. QED
    BY <2>1, <2>3
<1>. QED
  BY <1>2, <1>3 DEF TokenEquals, Response

-------------------------------------------------------------------------------
\* An object in a message.

\* Where key j of a flat object is.
Fourth(i, n) == \E j \in 1 .. n : i \in {4 * j - 2, 4 * j - 1, 4 * j, 4 * j + 1}

LEMMA FourAtATime ==
  ASSUME NEW n \in Nat, NEW i \in 1 .. 4 * n + 1, i # 1
  PROVE  Fourth(i, n)
<1>1. PICK j \in Int : j = (i + 2) \div 4
  OBVIOUS
<1>2. 4 * j <= i + 2 /\ i + 2 < 4 * j + 4
  BY <1>1
<1>3. j \in 1 .. n
  BY <1>2
<1>4. i \in {4 * j - 2, 4 * j - 1, 4 * j, 4 * j + 1}
  BY <1>2
<1>. QED
  BY <1>3, <1>4 DEF Fourth

LEMMA MarksApart ==
  /\ \A a : Mark(a)[1] = a
  /\ \A a, b : Mark(a) = Mark(b) => a = b
  /\ \A a, b : a # "string" => Mark(a) # Str(b)
<1>1. \A a : Mark(a)[1] = a /\ Str(a)[1] = "string"
  BY DEF Mark, Str
<1>2. ASSUME NEW a, NEW b, Mark(a) = Mark(b) PROVE a = b
  BY <1>1, <1>2
<1>3. ASSUME NEW a, NEW b, a # "string" PROVE Mark(a) # Str(b)
  BY <1>1, <1>3
<1>. QED
  BY <1>1, <1>2, <1>3

LEMMA NestedIs ==
  ASSUME NEW v \in Seq(Lexeme), NEW n \in Nat, n >= 1, FlatObject(v, n), NEW key
  PROVE  /\ \A j \in 1 .. n : v[4 * j - 2][2] = key => NestedValue(v, key) = <<v[4 * j]>>
         /\ (\A j \in 1 .. n : v[4 * j - 2][2] # key) => NestedValue(v, key) = <<>>
<1>1. /\ Len(v) = 4 * n + 1 /\ v[1] = Mark("object")
      /\ \A k \in 1 .. n :
           /\ v[4 * k - 2] = Str(v[4 * k - 2][2]) /\ v[4 * k - 1] = Mark("colon")
           /\ Single(v[4 * k])
           /\ v[4 * k + 1] = IF k = n THEN Mark("endobject") ELSE Mark("comma")
      /\ \A k, l \in 1 .. n : v[4 * k - 2] = v[4 * l - 2] => k = l
  <2>1. /\ Len(v) = 4 * n + 1 /\ v[1] = Mark("object")
        /\ \A k, l \in 1 .. n : v[4 * k - 2] = v[4 * l - 2] => k = l
    BY DEF FlatObject
  <2>2. ASSUME NEW k \in 1 .. n
        PROVE  /\ v[4 * k - 2] = Str(v[4 * k - 2][2]) /\ v[4 * k - 1] = Mark("colon")
               /\ Single(v[4 * k])
               /\ v[4 * k + 1] = IF k = n THEN Mark("endobject") ELSE Mark("comma")
    <3>1. /\ v[4 * k - 2][1] = "string" /\ v[4 * k - 1] = Mark("colon") /\ Single(v[4 * k])
          /\ v[4 * k + 1] = IF k = n THEN Mark("endobject") ELSE Mark("comma")
      BY DEF FlatObject
    <3>2. PICK y \in 1 .. Len(v) : y = 4 * k - 2
      BY <2>1
    <3>3. v[y] \in Lexeme
      OBVIOUS
    <3>4. v[y] = <<v[y][1], v[y][2]>>
      BY <3>3 DEF Lexeme
    <3>. QED
      BY <3>1, <3>2, <3>4 DEF Str
  <2>. QED
    BY <2>1, <2>2
<1>2. \A k \in 1 .. n :
        /\ v[4 * k - 1] # Str(key)
        /\ v[4 * k + 1] # Str(key) /\ v[4 * k + 1] # Mark("colon")
  <2> TAKE k \in 1 .. n
  <2>1. /\ v[4 * k - 1] = Mark("colon")
        /\ v[4 * k + 1] = IF k = n THEN Mark("endobject") ELSE Mark("comma")
    BY <1>1
  <2>. QED
    BY <2>1, MarksApart
<1>3. v[1] # Str(key)
  <2>1. v[1] = Mark("object")
    BY <1>1
  <2>. QED
    BY <2>1, MarksApart
<1> DEFINE found == {i \in 1 .. Len(v) - 2 :
                       v[1] = Mark("object") /\ v[i] = Str(key) /\ v[i + 1] = Mark("colon")}
<1>4. ASSUME NEW i \in found PROVE \E j \in 1 .. n : i = 4 * j - 2 /\ v[4 * j - 2][2] = key
  <2>1. i \in 1 .. 4 * n + 1 /\ v[i] = Str(key) /\ v[i + 1] = Mark("colon")
    BY <1>1
  <2>2. i # 1
    BY <1>3, <2>1
  <2>3. PICK j \in 1 .. n : i \in {4 * j - 2, 4 * j - 1, 4 * j, 4 * j + 1}
    BY <2>1, <2>2, FourAtATime DEF Fourth
  <2>4. i # 4 * j - 1
    BY <1>2, <2>1
  <2>5. i # 4 * j
    BY <1>2, <2>1
  <2>6. i # 4 * j + 1
    BY <1>2, <2>1
  <2>7. i = 4 * j - 2
    BY <2>3, <2>4, <2>5, <2>6
  <2>. QED
    BY <2>1, <2>7, MarksDiffer
<1>5. ASSUME NEW j \in 1 .. n, v[4 * j - 2][2] = key PROVE NestedValue(v, key) = <<v[4 * j]>>
  <2>1. PICK y \in Int : y = 4 * j - 2
    OBVIOUS
  <2>2. y \in 1 .. Len(v) - 2 /\ y + 2 = 4 * j
    BY <1>1, <2>1
  <2>3. v[y] = Str(key) /\ v[y + 1] = Mark("colon")
    <3>1. y + 1 = 4 * j - 1
      BY <2>1
    <3>2. v[4 * j - 2] = Str(v[4 * j - 2][2]) /\ v[4 * j - 1] = Mark("colon")
      BY <1>1
    <3>. QED
      BY <1>5, <2>1, <3>1, <3>2
  <2>4. y \in found
    BY <1>1, <2>2, <2>3
  <2>5. \A i \in found : i = y
    <3> TAKE i \in found
    <3>1. PICK l \in 1 .. n : i = 4 * l - 2 /\ v[4 * l - 2][2] = key
      BY <1>4
    <3>2. v[i] = Str(key)
      OBVIOUS
    <3>3. v[4 * l - 2] = v[4 * j - 2]
      BY <2>1, <2>3, <3>1, <3>2
    <3>4. l = j
      BY <1>1, <3>3
    <3>. QED
      BY <2>1, <3>1, <3>4
  <2>6. (CHOOSE i \in found : TRUE) = y
    <3> HIDE DEF found
    <3>. QED
      BY <2>4, <2>5
  <2>7. NestedValue(v, key) = IF found = {} THEN <<>> ELSE <<v[(CHOOSE i \in found : TRUE) + 2]>>
    BY DEF NestedValue
  <2>8. NestedValue(v, key) = <<v[y + 2]>>
    <3> HIDE DEF found
    <3>. QED
      BY <2>4, <2>6, <2>7
  <2>. QED
    BY <2>2, <2>8
<1>6. ASSUME \A j \in 1 .. n : v[4 * j - 2][2] # key PROVE NestedValue(v, key) = <<>>
  <2>1. found = {}
    <3> HIDE DEF found
    <3>. QED
      BY <1>4, <1>6
  <2>. QED
    BY <2>1 DEF NestedValue
<1>. QED
  BY <1>5, <1>6

LEMMA ObjectStands ==
  ASSUME NEW text, NEW N \in Nat, N = Len(text), NEW d \in Nat, NEW v, NEW n \in Nat, n >= 1,
         Stands(text, d, v), Balanced(v), FlatObject(v, n)
  PROVE  ObjectAt(text, d + 1, n, [j \in 1 .. n + 1 |-> d + 4 * j - 2])
<1>1. PICK l \in Nat : l = 4 * n + 1
  OBVIOUS
<1>2. /\ Len(v) = l /\ v[1] = Mark("object")
      /\ \A k \in 1 .. n :
           /\ v[4 * k - 2][1] = "string" /\ v[4 * k - 1] = Mark("colon")
           /\ Single(v[4 * k])
           /\ v[4 * k + 1] = IF k = n THEN Mark("endobject") ELSE Mark("comma")
  BY <1>1 DEF FlatObject
<1>3. d + l <= N /\ \A i \in 1 .. l : text[d + i] = v[i]
  BY <1>2 DEF Stands
<1> DEFINE at == [j \in 1 .. n + 1 |-> d + 4 * j - 2]
<1>4. at \in [1 .. n + 1 -> Nat]
  <2> SUFFICES ASSUME NEW j \in 1 .. n + 1 PROVE d + 4 * j - 2 \in Nat
    OBVIOUS
  <2>. QED
    OBVIOUS
<1>5. at[1] = d + 1 + 1 /\ at[n + 1] = d + l + 1
  <2>1. 1 \in 1 .. n + 1 /\ n + 1 \in 1 .. n + 1
    OBVIOUS
  <2>2. at[1] = d + 4 * 1 - 2 /\ at[n + 1] = d + 4 * (n + 1) - 2
    BY <2>1
  <2> HIDE DEF at
  <2>. QED
    BY <1>1, <2>2
<1>6. TokenEnd(text, d + 1) = d + l + 1
  <2>1. l >= 1
    BY <1>1
  <2>. QED
    BY <1>2, <2>1, ValueEnds
<1>7. text[d + 1][1] = "object"
  <2>1. 1 \in 1 .. l
    BY <1>1
  <2>2. text[d + 1] = v[1]
    BY <1>3, <2>1
  <2>. QED
    BY <1>2, <2>2, MarksNoTokens
<1>8. ASSUME NEW k \in 1 .. n
      PROVE  /\ at[k] + 3 <= at[k + 1] /\ at[k] + 3 <= at[n + 1]
             /\ text[at[k]][1] = "string" /\ text[at[k] + 1][1] \notin TokenKinds
             /\ text[at[k] + 2][1] \in TokenKinds
             /\ TokenEnd(text, at[k] + 2) = at[k + 1] - 1
             /\ text[at[k + 1] - 1][1] \notin TokenKinds
  <2>1. k \in 1 .. n + 1 /\ k + 1 \in 1 .. n + 1
    OBVIOUS
  <2>2. at[k] = d + 4 * k - 2 /\ at[k + 1] = d + 4 * (k + 1) - 2
    BY <2>1
  <2>3. PICK q \in Nat : q = 4 * k
    OBVIOUS
  <2>4. PICK a \in Nat, b \in Nat : a = d + q - 2 /\ b = d + q + 2
    BY <2>3
  <2>5. at[k] = a /\ at[k + 1] = b
    <3> HIDE DEF at
    <3>. QED
      BY <2>2, <2>3, <2>4
  <2>6. q - 2 \in 1 .. l /\ q - 1 \in 1 .. l /\ q \in 1 .. l /\ q + 1 \in 1 .. l
    <3>1. q >= 4 /\ q <= 4 * n
      BY <2>3
    <3>. QED
      BY <1>1, <3>1
  <2>7. /\ text[d + (q - 2)] = v[q - 2] /\ text[d + (q - 1)] = v[q - 1]
        /\ text[d + q] = v[q] /\ text[d + (q + 1)] = v[q + 1]
    BY <1>3, <2>6
  <2>8. /\ d + (q - 2) = a /\ d + (q - 1) = a + 1 /\ d + q = a + 2 /\ d + (q + 1) = b - 1
        /\ a + 3 <= b /\ b - 1 = a + 2 + 1
    BY <2>4
  <2>9. a + 3 <= d + l + 1
    BY <2>4, <2>6
  <2>10. /\ v[q - 2][1] = "string" /\ v[q - 1] = Mark("colon") /\ Single(v[q])
         /\ v[q + 1] = Mark("endobject") \/ v[q + 1] = Mark("comma")
    BY <1>2, <2>3
  <2>11. /\ text[a][1] = "string" /\ text[a + 1] = Mark("colon") /\ Single(text[a + 2])
         /\ text[b - 1] = Mark("endobject") \/ text[b - 1] = Mark("comma")
    BY <2>7, <2>8, <2>10
  <2>12. text[a + 1][1] \notin TokenKinds /\ text[b - 1][1] \notin TokenKinds
    BY <2>11, MarksNoTokens
  <2>13. text[a + 2][1] \in TokenKinds /\ text[a + 2][1] \notin Opening
    BY <2>11 DEF Single, TokenKinds, Opening
  <2>14. TokenEnd(text, a + 2) = b - 1
    BY <2>8, <2>13 DEF TokenEnd
  <2> HIDE DEF at
  <2>. QED
    BY <1>5, <2>5, <2>8, <2>9, <2>11, <2>12, <2>13, <2>14
<1>9. at[n + 1] - 1 <= Len(text)
  <2> HIDE DEF at
  <2>. QED
    BY <1>3, <1>5
<1>. QED
  <2> HIDE DEF at
  <2>1. ObjectAt(text, d + 1, n, at)
    BY <1>4, <1>5, <1>6, <1>7, <1>8, <1>9 DEF ObjectAt
  <2>. QED
    BY <2>1 DEF at

\* Where the value of a key of the message stands.
LEMMA ValueStands ==
  ASSUME NEW m, NEW text, NEW at, NEW t, NEW P, NEW c, Reading(m, text, at, t, P, c), NEW key,
         NEW x, x = FindKey(t, Root, key), Has(m, key)
  PROVE  /\ x \in 1 .. c /\ x # NoToken
         /\ \E d \in Nat : P[x] = d + 1 /\ Stands(text, d, Get(m, key))
         /\ t[x].type = Get(m, key)[1][1]
<1>1. Sent(m) /\ Laid(text, m, at)
  BY DEF Reading
<1>2. /\ x \in 1 .. c /\ x # NoToken /\ t[x].type = Get(m, key)[1][1]
      /\ \E k \in 1 .. Len(m) : m[k][1] = key /\ Get(m, key) = m[k][2] /\ P[x] = at[k] + 2
  BY RootFinds
<1>3. PICK k \in 1 .. Len(m) : Get(m, key) = m[k][2] /\ P[x] = at[k] + 2
  BY <1>2
<1>4. Stands(text, at[k] + 1, m[k][2])
  BY <1>1, MemberStands DEF Sent
<1>5. PICK a \in Nat : a = at[k]
  <2>1. PICK N \in Nat : N = Len(m)
    BY DEF Reading
  <2>2. k \in 1 .. N + 1
    BY <2>1
  <2>. QED
    BY <1>1, <2>1, <2>2 DEF Laid
<1>6. a + 1 \in Nat /\ P[x] = (a + 1) + 1 /\ Stands(text, a + 1, Get(m, key))
  BY <1>3, <1>4, <1>5
<1>. QED
  BY <1>2, <1>6

LEMMA NoObject ==
  ASSUME NEW t, NEW x, NEW key, x = NoToken \/ t[x].type # "object"
  PROVE  FindKey(t, x, key) = NoToken
BY DEF FindKey

\* copy_key on an object of the message.
LEMMA NestedText ==
  ASSUME NEW m, NEW text, NEW at, NEW t, NEW P, NEW c, Reading(m, text, at, t, P, c),
         NEW outer \in ObjectKeys, NEW key, NEW old, NEW x, x = FindKey(t, Root, outer),
         NEW own, own = IF Has(m, outer) THEN NestedValue(Get(m, outer), key) ELSE <<>>
  PROVE  CopyKey(t, x, key, old) = IF own = <<>> THEN old ELSE own[1][2]
<1>1. CASE ~Has(m, outer)
  <2>1. x = NoToken
    BY <1>1, RootFinds
  <2>2. FindKey(t, x, key) = NoToken
    BY <2>1, NoObject
  <2>. QED
    BY <1>1, <2>2 DEF CopyKey
<1>2. CASE Has(m, outer)
  <2>1. PICK v : v = Get(m, outer)
    OBVIOUS
  <2>2. PICK d \in Nat : x \in 1 .. c /\ P[x] = d + 1 /\ Stands(text, d, v) /\ t[x].type = v[1][1]
    BY <1>2, <2>1, ValueStands
  <2>3. v \in Seq(Lexeme) /\ Balanced(v) /\ WellFormed(<<outer, v>>)
    BY <1>2, <2>1, GetIsValue DEF Reading
  <2>4. own = NestedValue(v, key)
    BY <1>2, <2>1
  <2>5. CASE v[1][1] # "object"
    <3>1. FindKey(t, x, key) = NoToken
      BY <2>2, <2>5, NoObject
    <3>2. v[1] # Mark("object")
      BY <2>5, MarksNoTokens
    <3>3. NestedValue(v, key) = <<>>
      BY <3>2 DEF NestedValue
    <3>. QED
      BY <2>4, <3>1, <3>3 DEF CopyKey
  <2>6. CASE v[1][1] = "object"
    <3>1. PICK n \in 1 .. Len(v) : FlatObject(v, n)
      BY <2>3, <2>6 DEF WellFormed
    <3>2. PICK N \in Nat : N = Len(text)
      BY DEF Reading
    <3>3. PICK bt : bt = [j \in 1 .. n + 1 |-> d + 4 * j - 2]
      OBVIOUS
    <3>4. n \in Nat /\ n >= 1 /\ 4 * n + 1 = Len(v)
      <4>1. Len(v) \in Nat
        BY <2>3
      <4>. QED
        BY <3>1, <4>1 DEF FlatObject
    <3>5. ObjectAt(text, P[x], n, bt)
      BY <2>2, <2>3, <3>1, <3>2, <3>3, <3>4, ObjectStands
    <3>6. PICK y : y = FindKey(t, x, key)
      OBVIOUS
    <3>7. Finds(y, text, bt, n, P, c, key)
      BY <2>2, <3>2, <3>4, <3>5, <3>6, FindKeyFinds DEF Reading
    <3>8. ASSUME NEW j \in 1 .. n
          PROVE  text[bt[j]] = v[4 * j - 2] /\ text[bt[j] + 2] = v[4 * j]
      <4>1. PICK q \in Nat : q = 4 * j
        BY <3>4
      <4>2. j \in 1 .. n + 1
        BY <3>4
      <4>3. bt[j] = d + 4 * j - 2
        BY <3>3, <4>2
      <4>4. bt[j] = d + (q - 2) /\ bt[j] + 2 = d + q
        BY <4>1, <4>3
      <4>5. q - 2 \in 1 .. Len(v) /\ q \in 1 .. Len(v)
        <5>1. q >= 4 /\ q <= 4 * n
          BY <3>4, <4>1
        <5>2. PICK l \in Nat : l = Len(v)
          BY <2>3
        <5>3. 4 * n + 1 = l
          BY <3>4, <5>2
        <5>. QED
          BY <5>1, <5>2, <5>3
      <4>6. text[d + (q - 2)] = v[q - 2] /\ text[d + q] = v[q]
        BY <2>2, <4>5 DEF Stands
      <4>. QED
        BY <4>1, <4>4, <4>6
    <3>9. CASE y = NoToken /\ \A j \in 1 .. n : text[bt[j]][2] # key
      <4>1. \A j \in 1 .. n : v[4 * j - 2][2] # key
        BY <3>8, <3>9
      <4>2. own = <<>>
        BY <2>3, <2>4, <3>1, <3>4, <4>1, NestedIs
      <4>. QED
        BY <3>6, <3>9, <4>2 DEF CopyKey
    <3>10. CASE y \in 1 .. c /\ \E j \in 1 .. n : text[bt[j]][2] = key /\ P[y] = bt[j] + 2
      <4>1. PICK j \in 1 .. n : text[bt[j]][2] = key /\ P[y] = bt[j] + 2
        BY <3>10
      <4>2. v[4 * j - 2][2] = key /\ text[P[y]] = v[4 * j]
        BY <3>8, <4>1
      <4>3. own = <<v[4 * j]>>
        BY <2>3, <2>4, <3>1, <3>4, <4>2, NestedIs
      <4>4. t[y].text = v[4 * j][2]
        <5>1. Lexed(t, P, c, text)
          BY DEF Reading
        <5>2. t[y].text = text[P[y]][2]
          BY <3>10, <5>1 DEF Lexed
        <5>. QED
          BY <4>2, <5>2
      <4>5. y # NoToken
        <5>1. c \in Nat
          BY DEF Reading, Lexed
        <5>. QED
          BY <3>10, <5>1 DEF NoToken
      <4>6. CopyKey(t, x, key, old) = v[4 * j][2]
        BY <3>6, <4>4, <4>5 DEF CopyKey
      <4>7. own # <<>> /\ own[1] = v[4 * j]
        BY <4>3
      <4>. QED
        BY <4>6, <4>7
    <3>. QED
      BY <3>7, <3>9, <3>10 DEF Finds
  <2>. QED
    BY <2>5, <2>6
<1>. QED
  BY <1>1, <1>2

-------------------------------------------------------------------------------
\* An array in a message.

\* s are the first items of the array x.
Items(s, t, x) ==
  /\ s \in [0 .. 2 -> 1 .. Len(t)] /\ s[0] = x + 1
  /\ s[1] = SkipToken(t, s[0]) /\ s[2] = SkipToken(t, s[1])
  /\ \A i \in 0 .. 2 : t[s[i]].start < t[x].end /\ ~(t[s[i]].start >= t[x].end)

\* array_item.
LEMMA ArrayItemIs ==
  ASSUME NEW t, Len(t) \in Nat, NEW x \in 1 .. Len(t), t[x].type = "array",
         NEW s, Items(s, t, x), NEW last \in 0 .. 2
  PROVE  ArrayItem(t, x, last) = s[last]
<1>1. /\ s \in [0 .. 2 -> 1 .. Len(t)] /\ s[0] = x + 1
      /\ s[1] = SkipToken(t, s[0]) /\ s[2] = SkipToken(t, s[1])
      /\ \A i \in 0 .. 2 : t[s[i]].start < t[x].end /\ ~(t[s[i]].start >= t[x].end)
  BY DEF Items
<1>2. \A i \in 0 .. 2 : s[i] # NoToken /\ ~(s[i] > Len(t)) /\ s[i] <= Len(t)
  <2> TAKE i \in 0 .. 2
  <2>1. PICK L \in Nat : L = Len(t)
    OBVIOUS
  <2>2. PICK y \in 1 .. L : y = s[i]
    BY <1>1, <2>1
  <2>. QED
    BY <2>1, <2>2 DEF NoToken
<1> DEFINE Next1(y) == IF y = NoToken \/ y > Len(t) THEN NoToken
                       ELSE IF t[y].start >= t[x].end THEN NoToken ELSE SkipToken(t, y)
           R(h) == h = [n \in 0 .. last |->
                          IF n = 0 THEN x + 1
                          ELSE IF h[n - 1] = NoToken \/ h[n - 1] > Len(t) THEN NoToken
                          ELSE IF t[h[n - 1]].start >= t[x].end THEN NoToken
                          ELSE SkipToken(t, h[n - 1])]
           f == [n \in 0 .. last |-> s[n]]
<1>3. Next1(s[0]) = s[1] /\ Next1(s[1]) = s[2]
  <2>1. 0 \in 0 .. 2 /\ 1 \in 0 .. 2
    OBVIOUS
  <2>. QED
    BY <1>1, <1>2, <2>1
<1>4. \A n \in 0 .. last : n = 0 \/ n = 1 \/ n = 2
  OBVIOUS
<1>5. R(f)
  <2> DEFINE g == [n \in 0 .. last |-> IF n = 0 THEN x + 1 ELSE Next1(f[n - 1])]
  <2>1. ASSUME NEW n \in 0 .. last PROVE f[n] = g[n]
    <3>1. CASE n = 0
      BY <1>1, <3>1
    <3>2. CASE n = 1
      <4>1. f[1 - 1] = s[0] /\ f[n] = s[1]
        BY <3>2
      <4> HIDE DEF Next1, f
      <4>2. g[n] = Next1(f[1 - 1])
        BY <3>2
      <4>. QED
        BY <1>3, <4>1, <4>2
    <3>3. CASE n = 2
      <4>1. f[2 - 1] = s[1] /\ f[n] = s[2]
        BY <3>3
      <4> HIDE DEF Next1, f
      <4>2. g[n] = Next1(f[2 - 1])
        BY <3>3
      <4>. QED
        BY <1>3, <4>1, <4>2
    <3>. QED
      BY <1>4, <3>1, <3>2, <3>3
  <2>2. f = g
    <3>1. f = [n \in 0 .. last |-> f[n]] /\ g = [n \in 0 .. last |-> g[n]]
      OBVIOUS
    <3> HIDE DEF f, g
    <3>. QED
      BY <2>1, <3>1
  <2> HIDE DEF f
  <2>. QED
    BY <2>2
<1>6. PICK U : U = (CHOOSE h : R(h)) /\ R(U)
  <2>1. \E h : R(h)
    <3> HIDE DEF R, f
    <3>. QED
      BY <1>5
  <2> HIDE DEF R
  <2>. QED
    BY <2>1
<1>7. U[0] = x + 1 /\ \A n \in 1 .. last : U[n] = Next1(U[n - 1])
  <2>1. \A n \in 0 .. last : U[n] = IF n = 0 THEN x + 1 ELSE Next1(U[n - 1])
    BY <1>6
  <2>2. 0 \in 0 .. last /\ \A n \in 1 .. last : n \in 0 .. last /\ n # 0
    OBVIOUS
  <2> HIDE DEF Next1
  <2>. QED
    BY <2>1, <2>2
<1>8. U[last] = s[last]
  <2> HIDE DEF Next1
  <2>1. U[0] = s[0]
    BY <1>1, <1>7
  <2>2. ASSUME last # 0 PROVE U[1] = s[1]
    <3>1. 1 \in 1 .. last /\ 1 - 1 = 0
      BY <2>2
    <3>. QED
      BY <1>3, <1>7, <2>1, <3>1
  <2>3. ASSUME last = 2 PROVE U[2] = s[2]
    <3>1. 2 \in 1 .. last /\ 2 - 1 = 1 /\ last # 0
      BY <2>3
    <3>. QED
      BY <1>3, <1>7, <2>2, <3>1
  <2>4. last = 0 \/ last = 1 \/ last = 2
    OBVIOUS
  <2>. QED
    BY <2>1, <2>2, <2>3, <2>4
<1>9. ArrayItem(t, x, last) =
        IF U[last] # NoToken /\ U[last] <= Len(t) /\ t[U[last]].start < t[x].end
          THEN U[last] ELSE NoToken
  <2>1. x # 0 /\ ~(x > Len(t))
    OBVIOUS
  <2> DEFINE C == CHOOSE h : R(h)
  <2>2. ArrayItem(t, x, last) =
          IF C[last] # NoToken /\ C[last] <= Len(t) /\ t[C[last]].start < t[x].end
            THEN C[last] ELSE NoToken
    BY <2>1 DEF ArrayItem, NoToken
  <2> HIDE DEF R
  <2>3. C = U
    BY <1>6
  <2> HIDE DEF C
  <2>. QED
    BY <2>2, <2>3
<1>. QED
  BY <1>1, <1>2, <1>8, <1>9

\* The items of an array of primitives.
LEMMA ItemIs ==
  ASSUME NEW t, NEW P, NEW c, NEW text, Lexed(t, P, c, text), NEW N \in Nat, N = Len(text),
         NEW x \in 1 .. c, NEW d \in Nat, P[x] = d + 1, NEW v, NEW n \in Nat, n >= 3,
         Stands(text, d, v), Balanced(v), FlatArray(v, n), NEW j \in 1 .. 3
  PROVE  ArrayItem(t, x, j - 1) # NoToken /\ t[ArrayItem(t, x, j - 1)].text = v[2 * j][2]
<1>1. PICK l \in Nat : l = 2 * n + 1
  OBVIOUS
<1>2. /\ Len(v) = l /\ v[1] = Mark("array")
      /\ \A k \in 1 .. n :
           /\ v[2 * k][1] = "primitive"
           /\ v[2 * k + 1] = IF k = n THEN Mark("endarray") ELSE Mark("comma")
  BY <1>1 DEF FlatArray
<1>3. d + l <= N /\ \A i \in 1 .. l : text[d + i] = v[i]
  BY <1>2 DEF Stands
<1>4. TokenEnd(text, d + 1) = d + l + 1
  <2>1. l >= 1
    BY <1>1
  <2>. QED
    BY <1>2, <2>1, ValueEnds
<1>5. c \in Nat /\ Len(t) = c
  BY DEF Lexed
<1>6. t[x].type = "array" /\ t[x].end = d + l + 1
  <2>1. 1 \in 1 .. l
    BY <1>1
  <2>2. text[d + 1] = v[1]
    BY <1>3, <2>1
  <2>3. text[d + 1][1] = "array"
    BY <1>2, <2>2, MarksNoTokens
  <2>4. t[x].type = text[P[x]][1] /\ t[x].end = TokenEnd(text, P[x])
    BY DEF Lexed
  <2>. QED
    BY <1>4, <2>3, <2>4
<1>7. ASSUME NEW k \in 1 .. 3
      PROVE  /\ text[d + 2 * k] = v[2 * k] /\ text[d + 2 * k][1] = "primitive"
             /\ text[d + 2 * k + 1][1] \notin TokenKinds
             /\ d + 2 * k \in 1 .. N /\ d + 2 * k < d + l + 1
             /\ TokenEnd(text, d + 2 * k) = d + 2 * k + 1
  <2>1. PICK q \in Nat : q = 2 * k
    OBVIOUS
  <2>2. q \in 1 .. l /\ q + 1 \in 1 .. l
    BY <1>1, <2>1
  <2>3. k \in 1 .. n
    OBVIOUS
  <2>4. v[q][1] = "primitive" /\ (v[q + 1] = Mark("endarray") \/ v[q + 1] = Mark("comma"))
    BY <1>2, <2>1, <2>3
  <2>5. text[d + q] = v[q] /\ text[d + (q + 1)] = v[q + 1]
    BY <1>3, <2>2
  <2>6. d + (q + 1) = d + q + 1 /\ d + q \in 1 .. N /\ d + q < d + l + 1
    BY <1>3, <2>2
  <2>7. text[d + q + 1][1] \notin TokenKinds
    BY <2>4, <2>5, <2>6, MarksNoTokens
  <2>8. TokenEnd(text, d + q) = d + q + 1
    BY <2>4, <2>5 DEF TokenEnd, Opening
  <2>. QED
    BY <2>1, <2>4, <2>5, <2>6, <2>7, <2>8
<1>8. x + 1 \in 1 .. c /\ P[x + 1] = d + 2 * 1
  <2>1. PICK p \in Nat : p = d + 2 * 1
    OBVIOUS
  <2>2. text[p][1] \in TokenKinds /\ p \in 1 .. N
    BY <1>7, <2>1 DEF TokenKinds
  <2>3. P[x] < p /\ \A r \in P[x] + 1 .. p - 1 : text[r][1] \notin TokenKinds
    BY <2>1
  <2>4. x + 1 \in 1 .. c /\ P[x + 1] = p
    BY <2>2, <2>3, NextToken
  <2>. QED
    BY <2>1, <2>4
<1>9. ASSUME NEW k \in 1 .. 2, NEW y \in 1 .. c, P[y] = d + 2 * k
      PROVE  SkipToken(t, y) \in 1 .. c /\ P[SkipToken(t, y)] = d + 2 * (k + 1)
  <2>1. PICK a \in Nat : a = d + 2 * k
    OBVIOUS
  <2>2. k \in 1 .. 3 /\ k + 1 \in 1 .. 3 /\ d + 2 * (k + 1) = a + 2
    BY <2>1
  <2>3. TokenEnd(text, a) = a + 1 /\ text[a + 1][1] \notin TokenKinds
    BY <1>7, <2>1, <2>2
  <2>4. text[a + 2][1] \in TokenKinds /\ a + 2 \in 1 .. N
    BY <1>7, <2>2 DEF TokenKinds
  <2>5. PICK e \in Nat, p \in 1 .. N : e = a + 1 /\ p = a + 2
    BY <2>4
  <2>6. /\ e = TokenEnd(text, P[y]) /\ P[y] < e /\ e <= p /\ text[p][1] \in TokenKinds
        /\ \A r \in e .. p - 1 : text[r][1] \notin TokenKinds
    <3>1. P[y] = a
      BY <1>9, <2>1
    <3>2. \A r \in e .. p - 1 : r = a + 1
      BY <2>5
    <3>3. a < e /\ e <= p
      BY <2>5
    <3>4. e = TokenEnd(text, a) /\ text[p][1] \in TokenKinds
      BY <2>3, <2>4, <2>5
    <3>5. \A r \in e .. p - 1 : text[r][1] \notin TokenKinds
      BY <2>3, <3>2
    <3>. QED
      BY <3>1, <3>3, <3>4, <3>5
  <2>7. SkipToken(t, y) \in 1 .. c /\ P[SkipToken(t, y)] = p
    BY <2>6, SkippedTo
  <2>. QED
    BY <2>2, <2>5, <2>7
<1>10. PICK y \in 1 .. c : y = x + 1 /\ P[y] = d + 2 * 1
  BY <1>8
<1>11. PICK z \in 1 .. c : z = SkipToken(t, y) /\ P[z] = d + 2 * 2
  <2>1. 1 \in 1 .. 2 /\ 1 + 1 = 2
    OBVIOUS
  <2>. QED
    BY <1>9, <1>10, <2>1
<1>12. PICK w \in 1 .. c : w = SkipToken(t, z) /\ P[w] = d + 2 * 3
  <2>1. 2 \in 1 .. 2 /\ 2 + 1 = 3
    OBVIOUS
  <2>. QED
    BY <1>9, <1>11, <2>1
<1> DEFINE s == [i \in 0 .. 2 |-> IF i = 0 THEN y ELSE IF i = 1 THEN z ELSE w]
<1>13. s \in [0 .. 2 -> 1 .. c] /\ s[0] = y /\ s[1] = z /\ s[2] = w
  OBVIOUS
<1>14. \A i \in 0 .. 2 : P[s[i]] = d + 2 * (i + 1)
  <2> TAKE i \in 0 .. 2
  <2>1. i = 0 \/ i = 1 \/ i = 2
    OBVIOUS
  <2> HIDE DEF s
  <2>. QED
    BY <1>10, <1>11, <1>12, <1>13, <2>1, SMTT(30)
<1>15. Items(s, t, x)
  <2>1. ASSUME NEW i \in 0 .. 2
        PROVE  t[s[i]].start < t[x].end /\ ~(t[s[i]].start >= t[x].end)
    <3>1. i + 1 \in 1 .. 3
      OBVIOUS
    <3> HIDE DEF s
    <3>2. s[i] \in 1 .. c
      BY <1>13
    <3>3. t[s[i]].start = P[s[i]]
      BY <3>2 DEF Lexed
    <3>4. PICK a \in Nat : a = d + 2 * (i + 1)
      OBVIOUS
    <3>5. a < d + l + 1
      BY <1>7, <3>1, <3>4
    <3>6. t[s[i]].start = a
      BY <1>14, <3>3, <3>4
    <3>. QED
      BY <1>6, <3>5, <3>6
  <2> HIDE DEF s
  <2>. QED
    BY <1>5, <1>10, <1>11, <1>12, <1>13, <2>1 DEF Items
<1>16. PICK last \in 0 .. 2 : last = j - 1
  OBVIOUS
<1>17. ArrayItem(t, x, last) = s[last]
  <2> HIDE DEF s
  <2>. QED
    BY <1>5, <1>6, <1>15, ArrayItemIs
<1>18. s[last] # NoToken /\ t[s[last]].text = v[2 * j][2]
  <2> HIDE DEF s
  <2>1. s[last] \in 1 .. c
    BY <1>13
  <2>2. t[s[last]].text = text[P[s[last]]][2]
    BY <2>1 DEF Lexed
  <2>3. P[s[last]] = d + 2 * j
    <3>1. last + 1 = j
      BY <1>16
    <3>. QED
      BY <1>14, <3>1
  <2>4. text[d + 2 * j] = v[2 * j]
    BY <1>7
  <2>5. s[last] # NoToken
    BY <1>5, <2>1 DEF NoToken
  <2>. QED
    BY <2>2, <2>3, <2>4, <2>5
<1>. QED
  <2> HIDE DEF s
  <2>. QED
    BY <1>16, <1>17, <1>18

-------------------------------------------------------------------------------
\* find_value of the Keyboard.

\* Wherever it looks, it finds a key of the message or one nested in a value.
LEMMA FoundIsKey ==
  ASSUME NEW m, Sent(m), NEW text, NEW at, Laid(text, m, at), NEW key,
         NEW N \in Nat, N = Len(m), NEW p \in 1 .. Len(text) - 2, text[p] = Str(key),
         text[p + 1][1] = "colon"
  PROVE  \E k \in 1 .. N : \/ (p = at[k] /\ m[k][1] = key)
                           \/ (at[k] <= p /\ Nested(m[k][2], key))
<1>1. /\ text[1] = Mark("object") /\ at \in [1 .. N + 1 -> Nat] /\ at[1] = 2
      /\ Len(text) = at[N + 1] - 1
      /\ \A k \in 1 .. N :
           /\ at[k + 1] = at[k] + Len(m[k][2]) + 3
           /\ text[at[k]] = Str(m[k][1]) /\ text[at[k] + 1] = Mark("colon")
           /\ \A i \in 1 .. Len(m[k][2]) : text[at[k] + 1 + i] = m[k][2][i]
           /\ text[at[k + 1] - 1] = IF k = N THEN Mark("endobject") ELSE Mark("comma")
  BY DEF Laid
<1>2. PICK z \in Nat : z = at[N + 1]
  <2>1. N + 1 \in 1 .. N + 1
    OBVIOUS
  <2>. QED
    BY <1>1, <2>1
<1>3. p \in Nat /\ p + 2 <= z - 1
  BY <1>1, <1>2
<1>4. p # 1
  BY <1>1, MarksApart
<1>5. PICK k \in 1 .. N : at[k] <= p /\ p < at[k + 1]
  <2>1. m \in Seq(Member)
    BY DEF Sent
  <2>2. PICK size : Climbs(at, size, N)
    BY <2>1, LaidClimbs
  <2>3. 2 <= p /\ p < z
    BY <1>3, <1>4
  <2>. QED
    BY <1>2, <1>3, <2>2, <2>3, ClimbsOver
<1>6. PICK v \in Seq(Lexeme) : v = m[k][2]
  BY SentBalanced
<1>7. PICK l \in Nat : l = Len(v) /\ l >= 1
  BY <1>6, SentBalanced
<1>8. PICK a \in Nat : a = at[k]
  <2>1. k \in 1 .. N + 1
    OBVIOUS
  <2>. QED
    BY <1>1, <2>1
<1>9. /\ at[k + 1] = a + l + 3 /\ text[a] = Str(m[k][1]) /\ text[a + 1] = Mark("colon")
      /\ \A i \in 1 .. l : text[a + 1 + i] = v[i]
  BY <1>1, <1>6, <1>7, <1>8
<1>10. text[a + l + 2] = Mark("endobject") \/ text[a + l + 2] = Mark("comma")
  <2>1. at[k + 1] - 1 = a + l + 2
    BY <1>9
  <2>. QED
    BY <1>1, <2>1, SMTT(30), ZenonT(30)
<1>11. a <= p /\ p < a + l + 3
  BY <1>5, <1>8, <1>9
<1>12. p # a + 1
  <2>1. text[a + 1] # Str(key)
    BY <1>9, MarksApart
  <2>. QED
    BY <2>1
<1>13. p # a + l + 2
  <2>1. text[a + l + 2] # Str(key)
    BY <1>10, MarksApart
  <2>. QED
    BY <2>1
<1>14. p # a + 1 + l
  <2>1. text[a + l + 2][1] # "colon"
    BY <1>10, MarksApart
  <2>2. SUFFICES ASSUME p = a + 1 + l PROVE FALSE
    OBVIOUS
  <2>3. p + 1 = a + l + 2
    BY <2>2
  <2>. QED
    BY <2>1, <2>3
<1>15. CASE p > a + 1 /\ p < a + 1 + l
  <2>1. PICK i \in 1 .. l - 1 : i = p - a - 1
    BY <1>3, <1>15
  <2>2. i \in 1 .. l /\ i + 1 \in 1 .. l /\ a + 1 + i = p /\ a + 1 + (i + 1) = p + 1
    BY <1>3, <2>1
  <2>3. v[i] = Str(key) /\ v[i + 1][1] = "colon"
    BY <1>9, <2>2
  <2>4. i \in 1 .. Len(v) - 1
    BY <1>7
  <2>5. Nested(m[k][2], key)
    BY <1>6, <2>3, <2>4 DEF Nested
  <2>. QED
    BY <1>8, <1>11, <2>5
<1>16. CASE ~(p > a + 1 /\ p < a + 1 + l)
  <2>1. p = a
    BY <1>3, <1>11, <1>12, <1>13, <1>14, <1>16
  <2>2. m[k][1] = key
    BY <1>9, <2>1, MarksDiffer
  <2>. QED
    BY <1>8, <2>1, <2>2
<1>. QED
  BY <1>15, <1>16

LEMMA FindValueFinds ==
  ASSUME NEW m, Sent(m), NEW text, NEW at, Laid(text, m, at), NEW key,
         ~Shadowed(m, key), NEW v, v = FindValue(text, key)
  PROVE  IF Has(m, key) THEN v # NoToken /\ text[v] = Get(m, key)[1] ELSE v = NoToken
<1>1. PICK N \in Nat : N = Len(m)
  BY DEF Sent
<1> DEFINE found == {p \in 1 .. Len(text) - 2 : text[p] = Str(key) /\ text[p + 1][1] = "colon"}
<1>2. DOMAIN m = 1 .. N /\ Distinct(m)
  BY <1>1 DEF Sent
<1>6. ASSUME NEW k \in 1 .. N, Nested(m[k][2], key)
      PROVE  \E j \in 1 .. k : m[j][1] = key
  BY <1>2, <1>6 DEF Shadowed
<1>7. \A p \in found : \E k \in 1 .. N : \/ (p = at[k] /\ m[k][1] = key)
                                      \/ (at[k] <= p /\ Nested(m[k][2], key))
  BY <1>1, FoundIsKey, SMTT(30)
<1>3. v = IF found = {} THEN NoToken ELSE (CHOOSE p \in found : \A q \in found : p <= q) + 2
  BY DEF FindValue
<1>4. CASE ~Has(m, key)
  <2>1. found = {}
    <3>1. SUFFICES ASSUME NEW p \in found PROVE FALSE
      OBVIOUS
    <3>2. PICK k \in 1 .. N : m[k][1] = key \/ Nested(m[k][2], key)
      BY <1>7
    <3>3. PICK j \in 1 .. N : m[j][1] = key
      BY <1>6, <3>2
    <3>. QED
      BY <1>1, <1>4, <3>3, GetIs
  <2> HIDE DEF found
  <2>. QED
    BY <1>3, <1>4, <2>1
<1>5. CASE Has(m, key)
  <2>1. PICK k \in 1 .. N : m[k][1] = key /\ Get(m, key) = m[k][2]
    BY <1>1, <1>5, HasSome
  <2>2. \A j \in 1 .. N : m[j][1] = key => j = k
    BY <1>2, <2>1 DEF Distinct
  <2>3. PICK l \in Nat : l = Len(m[k][2]) /\ l >= 1
    BY <1>1, SentBalanced
  <2>4. PICK a \in Nat, z \in Nat : a = at[k] /\ z = at[N + 1]
    <3>1. k \in 1 .. N + 1 /\ N + 1 \in 1 .. N + 1
      OBVIOUS
    <3>. QED
      BY <1>1, <3>1 DEF Laid
  <2>5. /\ Len(text) = z - 1 /\ text[a] = Str(key) /\ text[a + 1] = Mark("colon")
        /\ \A i \in 1 .. l : text[a + 1 + i] = m[k][2][i]
    BY <1>1, <2>1, <2>3, <2>4 DEF Laid
  <2>6. 1 <= a /\ a + 3 <= z
    <3>1. m \in Seq(Member)
      BY DEF Sent
    <3>2. PICK size : Climbs(at, size, N)
      BY <1>1, <3>1, LaidClimbs
    <3>3. k \in 1 .. N + 1 /\ N + 1 \in 1 .. N + 1 /\ k < N + 1 /\ 1 \in 1 .. N + 1
      OBVIOUS
    <3>4. at[k] + 3 <= at[N + 1]
      BY <3>2, <3>3, ClimbsUp
    <3>5. at[1] = 2
      BY <3>2 DEF Climbs
    <3>6. ASSUME k # 1 PROVE at[1] + 3 <= at[k]
      <4>1. 1 < k
        BY <3>6
      <4>. QED
        BY <3>2, <3>3, <4>1, ClimbsUp
    <3>7. at[1] = 2 /\ (k # 1 => at[1] + 3 <= at[k])
      BY <3>5, <3>6
    <3>8. k = 1 \/ 5 <= a
      BY <2>4, <3>7
    <3>9. 1 <= a
      BY <2>4, <3>7, <3>8
    <3>. QED
      BY <2>4, <3>4, <3>9
  <2>7. a \in found
    <3>1. a \in 1 .. Len(text) - 2
      BY <2>5, <2>6
    <3>2. text[a + 1][1] = "colon"
      BY <2>5, MarksApart
    <3>. QED
      BY <2>5, <3>1, <3>2
  <2>8. \A p \in found : p \in Int /\ a <= p
    <3>1. SUFFICES ASSUME NEW p \in found PROVE p \in Int /\ a <= p
      OBVIOUS
    <3>2. p \in Int
      OBVIOUS
    <3> HIDE DEF found
    <3>3. PICK j \in 1 .. N : \/ (p = at[j] /\ m[j][1] = key)
                             \/ (at[j] <= p /\ Nested(m[j][2], key))
      BY <1>7, <3>1
    <3>4. CASE p = at[j] /\ m[j][1] = key
      BY <2>2, <2>4, <3>2, <3>4
    <3>5. CASE at[j] <= p /\ Nested(m[j][2], key)
      <4>1. k <= j
        <5>1. PICK i \in 1 .. j : m[i][1] = key
          BY <1>6, <3>5
        <5>2. i \in 1 .. N /\ i = k
          BY <2>2, <5>1
        <5>. QED
          BY <5>2
      <4>2. m \in Seq(Member)
        BY DEF Sent
      <4>3. PICK size : Climbs(at, size, N)
        BY <1>1, <4>2, LaidClimbs
      <4>4. PICK b \in Nat : b = at[j]
        BY <4>3 DEF Climbs
      <4>5. k # j => at[k] + 3 <= at[j]
        <5>1. k \in 1 .. N + 1 /\ j \in 1 .. N + 1 /\ (k # j => k < j)
          BY <4>1
        <5>. QED
          BY <4>3, <5>1, ClimbsUp
      <4>6. a <= b
        BY <2>4, <4>4, <4>5
      <4>. QED
        BY <3>2, <3>5, <4>4, <4>6
    <3>. QED
      BY <3>3, <3>4, <3>5
  <2>9. (CHOOSE p \in found : \A q \in found : p <= q) = a
    <3> HIDE DEF found
    <3>1. \A p \in found : (\A q \in found : p <= q) => p = a
      BY <2>7, <2>8
    <3>2. \E p \in found : \A q \in found : p <= q
      BY <2>7, <2>8
    <3>. QED
      BY <3>1, <3>2
  <2>10. v = a + 2
    <3> HIDE DEF found
    <3>. QED
      BY <1>3, <2>7, <2>9
  <2>11. 1 \in 1 .. l /\ a + 1 + 1 = a + 2
    BY <2>3
  <2>12. text[a + 2] = m[k][2][1]
    BY <2>5, <2>11
  <2>13. v # NoToken
    BY <2>10 DEF NoToken
  <2>. QED
    BY <1>5, <2>1, <2>10, <2>12, <2>13
<1>. QED
  BY <1>4, <1>5

\* json_bool and json_string_is.
LEMMA ButtonsRead ==
  ASSUME NEW m, Sent(m), NEW key, ~Shadowed(m, key)
  PROVE  /\ JsonBool(ObjectText(m), key) <=> On(m, key)
         /\ \A x : JsonStringIs(ObjectText(m), key, x) <=>
                     Has(m, key) /\ Get(m, key) = <<Str(x)>>
<1>1. PICK text : text = ObjectText(m)
  OBVIOUS
<1>2. PICK at : Laid(text, m, at)
  BY <1>1, ObjectIsLaid DEF Sent
<1>3. PICK v : v = FindValue(text, key)
  OBVIOUS
<1>4. IF Has(m, key) THEN v # NoToken /\ text[v] = Get(m, key)[1] ELSE v = NoToken
  BY <1>2, <1>3, FindValueFinds
<1>5. /\ JsonBool(text, key) <=>
           v # NoToken /\ text[v][1] = "primitive" /\ text[v][2] \in LooksTrue
      /\ \A x : JsonStringIs(text, key, x) <=> v # NoToken /\ text[v] = Str(x)
  BY <1>3 DEF JsonBool, JsonStringIs
<1>6. CASE ~Has(m, key)
  BY <1>1, <1>4, <1>5, <1>6 DEF On
<1>7. CASE Has(m, key)
  <2>1. PICK w : w = Get(m, key)
    OBVIOUS
  <2>2. w \in Seq(Lexeme) /\ Balanced(w)
    BY <1>7, <2>1, GetIsValue
  <2>3. \A x : (w = <<Str(x)>> <=> w[1] = Str(x)) /\ (w = <<Prim(x)>> <=> w[1] = Prim(x))
    BY <2>2, ValueIs
  <2>4. v # NoToken /\ text[v] = w[1]
    BY <1>4, <1>7, <2>1
  <2>5. On(m, key) <=> w[1][1] = "primitive" /\ w[1][2] \in LooksTrue
    BY <1>7, <2>1 DEF On
  <2>6. JsonBool(text, key) <=> On(m, key)
    BY <1>5, <2>4, <2>5
  <2>7. \A x : JsonStringIs(text, key, x) <=> w = <<Str(x)>>
    BY <1>5, <2>3, <2>4
  <2>. QED
    BY <1>1, <1>7, <2>1, <2>6, <2>7
<1>. QED
  BY <1>6, <1>7

LEMMA IndicatorIs ==
  ASSUME NEW m, Sent(m), ~Shadowed(m, "responsetype")
  PROVE  IsIndicator(ObjectText(m)) <=> Response(m) \in IndicatorResponses
<1>1. PICK w : w = Get(m, "responsetype")
  OBVIOUS
<1>2. Has(m, "responsetype")
  BY DEF Sent
<1>3. w \in Seq(Lexeme) /\ Balanced(w) /\ WellFormed(<<"responsetype", w>>)
  BY <1>1, <1>2, GetIsValue
<1>4. w[1][1] = "string"
  BY <1>3 DEF WellFormed
<1>5. w[1] = Str(w[1][2])
  BY <1>3, <1>4, SingleValue DEF Single
<1>6. \A x : w = <<Str(x)>> <=> w[1] = Str(x)
  BY <1>3, ValueIs
<1>7. \A x : w = <<Str(x)>> <=> w[1][2] = x
  BY <1>5, <1>6, MarksDiffer
<1>9. \A x : JsonStringIs(ObjectText(m), "responsetype", x) <=> w = <<Str(x)>>
  BY <1>1, <1>2, ButtonsRead
<1>10. Response(m) = w[1][2]
  BY <1>1 DEF Response
<1>. QED
  BY <1>7, <1>9, <1>10 DEF IsIndicator, IndicatorResponses

-------------------------------------------------------------------------------
\* The tiles.

LEMMA FlagTilesAre ==
  ASSUME NEW S, NEW i
  PROVE  (\E f \in FlagTiles : f[1] = i /\ f[2] \in S) <=>
            \/ i = 0 /\ "LandingGear" \in S
            \/ i = 2 /\ "Supercruise" \in S
            \/ i = 2 /\ "FsdCharging" \in S
            \/ i = 2 /\ "FsdJump" \in S
            \/ i = 3 /\ "Lights" \in S
            \/ i = 4 /\ "SilentRunning" \in S
            \/ i = 5 /\ "NightVision" \in S
            \/ i = 6 /\ "HardpointsDeployed" \in S
            \/ i = 10 /\ "HUDInAnalysisMode" \in S
            \/ i = 16 /\ "CargoScoopDeployed" \in S
BY DEF FlagTiles

LEMMA FocusTilesAre ==
  ASSUME NEW S, NEW i
  PROVE  (\E f \in FocusTiles : f[1] = i /\ f[2] \in S) <=>
            \/ i = 11 /\ "FSSMode" \in S
            \/ i = 18 /\ "TargetPanel" \in S
            \/ i = 19 /\ "CommsPanel" \in S
            \/ i = 20 /\ "RolePanel" \in S
            \/ i = 21 /\ "SystemPanel" \in S
            \/ i = 22 /\ "GalaxyMap" \in S
            \/ i = 23 /\ "SystemMap" \in S
BY DEF FocusTiles

LEMMA FocusNamesAre ==
  ASSUME NEW S, NEW name
  PROVE  (\E f \in DOMAIN FocusNames : FocusNames[f] = name /\ f \in S) <=>
            \/ name = "FSS SCAN" /\ "FSSMode" \in S
            \/ name = "TARGET PANEL" /\ "TargetPanel" \in S
            \/ name = "COMMS PANEL" /\ "CommsPanel" \in S
            \/ name = "ROLE PANEL" /\ "RolePanel" \in S
            \/ name = "SYSTEM PANEL" /\ "SystemPanel" \in S
            \/ name = "GALAXY MAP" /\ "GalaxyMap" \in S
            \/ name = "SYSTEM MAP" /\ "SystemMap" \in S
<1>1. DOMAIN FocusNames =
        {"FSSMode", "TargetPanel", "CommsPanel", "RolePanel",
         "SystemPanel", "GalaxyMap", "SystemMap"}
  BY DEF FocusNames
<1>2. /\ FocusNames["FSSMode"] = "FSS SCAN"
      /\ FocusNames["TargetPanel"] = "TARGET PANEL"
      /\ FocusNames["CommsPanel"] = "COMMS PANEL"
      /\ FocusNames["RolePanel"] = "ROLE PANEL"
      /\ FocusNames["SystemPanel"] = "SYSTEM PANEL"
      /\ FocusNames["GalaxyMap"] = "GALAXY MAP"
      /\ FocusNames["SystemMap"] = "SYSTEM MAP"
  BY DEF FocusNames
<1>. QED
  BY <1>1, <1>2

\* The tile of each place, against the flags S that are true and the focus F.
Lights(i, S, F) ==
  \/ i = 0 /\ "LandingGear" \in S
  \/ i = 2 /\ "Supercruise" \in S
  \/ i = 2 /\ "FsdCharging" \in S
  \/ i = 2 /\ "FsdJump" \in S
  \/ i = 3 /\ "Lights" \in S
  \/ i = 4 /\ "SilentRunning" \in S
  \/ i = 5 /\ "NightVision" \in S
  \/ i = 6 /\ "HardpointsDeployed" \in S
  \/ i = 10 /\ "HUDInAnalysisMode" \in S
  \/ i = 11 /\ "FSSMode" \in F
  \/ i = 16 /\ "CargoScoopDeployed" \in S
  \/ i = 18 /\ "TargetPanel" \in F
  \/ i = 19 /\ "CommsPanel" \in F
  \/ i = 20 /\ "RolePanel" \in F
  \/ i = 21 /\ "SystemPanel" \in F
  \/ i = 22 /\ "GalaxyMap" \in F
  \/ i = 23 /\ "SystemMap" \in F

LEMMA ShouldLightIs ==
  ASSUME NEW m, NEW i \in 0 .. 23, NEW S, \A key \in TileKeys : key \in S <=> On(m, key),
         NEW F, \A key \in DOMAIN FocusNames :
                  key \in F <=> Has(m, "GUIFocus") /\ Get(m, "GUIFocus") = <<Str(key)>>
  PROVE  ShouldLight(TileNames[i + 1], m) <=> Lights(i, S, F)
<1>1. {"LandingGear", "Supercruise", "FsdCharging", "FsdJump", "Lights", "SilentRunning",
        "NightVision", "HardpointsDeployed", "HUDInAnalysisMode", "CargoScoopDeployed"} \subseteq TileKeys
  BY DEF TileKeys, FlagTiles
<1>2. ASSUME NEW name
      PROVE  /\ name = "LAND GEAR" => (ShouldLight(name, m) <=> "LandingGear" \in S)
             /\ name = "FSD JUMP" =>
                  (ShouldLight(name, m) <=>
                     "Supercruise" \in S \/ "FsdCharging" \in S \/ "FsdJump" \in S)
             /\ name = "LIGHTS" => (ShouldLight(name, m) <=> "Lights" \in S)
             /\ name = "SILENT" => (ShouldLight(name, m) <=> "SilentRunning" \in S)
             /\ name = "NIGHT VISION" => (ShouldLight(name, m) <=> "NightVision" \in S)
             /\ name = "HARD PTS" => (ShouldLight(name, m) <=> "HardpointsDeployed" \in S)
             /\ name = "ANALYS COMBAT" => (ShouldLight(name, m) <=> "HUDInAnalysisMode" \in S)
             /\ name = "CARGO SCOOP" => (ShouldLight(name, m) <=> "CargoScoopDeployed" \in S)
             /\ name \notin {"LAND GEAR", "FSD JUMP", "LIGHTS", "SILENT",
                              "NIGHT VISION", "HARD PTS", "ANALYS COMBAT", "CARGO SCOOP"} =>
                  (ShouldLight(name, m) <=> \E f \in DOMAIN FocusNames : FocusNames[f] = name /\ f \in F)
  BY <1>2, <1>1 DEF ShouldLight
<1>3. CASE i = 0
  <2>1. TileNames[1] = "LAND GEAR" /\ i + 1 = 1
    BY <1>3 DEF TileNames
  <2>2. ShouldLight("LAND GEAR", m) <=> "LandingGear" \in S
    BY <1>2
  <2>3. Lights(i, S, F) <=> "LandingGear" \in S
    BY <1>3 DEF Lights
  <2>. QED
    BY <2>1, <2>2, <2>3
<1>4. CASE i = 1
  <2>1. TileNames[2] = "SPEED 0%" /\ i + 1 = 2
    BY <1>4 DEF TileNames
  <2>2. ShouldLight("SPEED 0%", m) <=> FALSE
    <3>1. (\E f \in DOMAIN FocusNames : FocusNames[f] = "SPEED 0%" /\ f \in F) <=> FALSE
      BY FocusNamesAre
    <3>. QED
      BY <1>2, <3>1
  <2>3. Lights(i, S, F) <=> FALSE
    BY <1>4 DEF Lights
  <2>. QED
    BY <2>1, <2>2, <2>3
<1>5. CASE i = 2
  <2>1. TileNames[3] = "FSD JUMP" /\ i + 1 = 3
    BY <1>5 DEF TileNames
  <2>2. ShouldLight("FSD JUMP", m) <=> "Supercruise" \in S \/ "FsdCharging" \in S \/ "FsdJump" \in S
    BY <1>2
  <2>3. Lights(i, S, F) <=> "Supercruise" \in S \/ "FsdCharging" \in S \/ "FsdJump" \in S
    BY <1>5 DEF Lights
  <2>. QED
    BY <2>1, <2>2, <2>3
<1>6. CASE i = 3
  <2>1. TileNames[4] = "LIGHTS" /\ i + 1 = 4
    BY <1>6 DEF TileNames
  <2>2. ShouldLight("LIGHTS", m) <=> "Lights" \in S
    BY <1>2
  <2>3. Lights(i, S, F) <=> "Lights" \in S
    BY <1>6 DEF Lights
  <2>. QED
    BY <2>1, <2>2, <2>3
<1>7. CASE i = 4
  <2>1. TileNames[5] = "SILENT" /\ i + 1 = 5
    BY <1>7 DEF TileNames
  <2>2. ShouldLight("SILENT", m) <=> "SilentRunning" \in S
    BY <1>2
  <2>3. Lights(i, S, F) <=> "SilentRunning" \in S
    BY <1>7 DEF Lights
  <2>. QED
    BY <2>1, <2>2, <2>3
<1>8. CASE i = 5
  <2>1. TileNames[6] = "NIGHT VISION" /\ i + 1 = 6
    BY <1>8 DEF TileNames
  <2>2. ShouldLight("NIGHT VISION", m) <=> "NightVision" \in S
    BY <1>2
  <2>3. Lights(i, S, F) <=> "NightVision" \in S
    BY <1>8 DEF Lights
  <2>. QED
    BY <2>1, <2>2, <2>3
<1>9. CASE i = 6
  <2>1. TileNames[7] = "HARD PTS" /\ i + 1 = 7
    BY <1>9 DEF TileNames
  <2>2. ShouldLight("HARD PTS", m) <=> "HardpointsDeployed" \in S
    BY <1>2
  <2>3. Lights(i, S, F) <=> "HardpointsDeployed" \in S
    BY <1>9 DEF Lights
  <2>. QED
    BY <2>1, <2>2, <2>3
<1>10. CASE i = 7
  <2>1. TileNames[8] = "FIRE GROUP" /\ i + 1 = 8
    BY <1>10 DEF TileNames
  <2>2. ShouldLight("FIRE GROUP", m) <=> FALSE
    <3>1. (\E f \in DOMAIN FocusNames : FocusNames[f] = "FIRE GROUP" /\ f \in F) <=> FALSE
      BY FocusNamesAre
    <3>. QED
      BY <1>2, <3>1
  <2>3. Lights(i, S, F) <=> FALSE
    BY <1>10 DEF Lights
  <2>. QED
    BY <2>1, <2>2, <2>3
<1>11. CASE i = 8
  <2>1. TileNames[9] = "TARGET" /\ i + 1 = 9
    BY <1>11 DEF TileNames
  <2>2. ShouldLight("TARGET", m) <=> FALSE
    <3>1. (\E f \in DOMAIN FocusNames : FocusNames[f] = "TARGET" /\ f \in F) <=> FALSE
      BY FocusNamesAre
    <3>. QED
      BY <1>2, <3>1
  <2>3. Lights(i, S, F) <=> FALSE
    BY <1>11 DEF Lights
  <2>. QED
    BY <2>1, <2>2, <2>3
<1>12. CASE i = 9
  <2>1. TileNames[10] = "NEXT TARGET" /\ i + 1 = 10
    BY <1>12 DEF TileNames
  <2>2. ShouldLight("NEXT TARGET", m) <=> FALSE
    <3>1. (\E f \in DOMAIN FocusNames : FocusNames[f] = "NEXT TARGET" /\ f \in F) <=> FALSE
      BY FocusNamesAre
    <3>. QED
      BY <1>2, <3>1
  <2>3. Lights(i, S, F) <=> FALSE
    BY <1>12 DEF Lights
  <2>. QED
    BY <2>1, <2>2, <2>3
<1>13. CASE i = 10
  <2>1. TileNames[11] = "ANALYS COMBAT" /\ i + 1 = 11
    BY <1>13 DEF TileNames
  <2>2. ShouldLight("ANALYS COMBAT", m) <=> "HUDInAnalysisMode" \in S
    BY <1>2
  <2>3. Lights(i, S, F) <=> "HUDInAnalysisMode" \in S
    BY <1>13 DEF Lights
  <2>. QED
    BY <2>1, <2>2, <2>3
<1>14. CASE i = 11
  <2>1. TileNames[12] = "FSS SCAN" /\ i + 1 = 12
    BY <1>14 DEF TileNames
  <2>2. ShouldLight("FSS SCAN", m) <=> "FSSMode" \in F
    <3>1. (\E f \in DOMAIN FocusNames : FocusNames[f] = "FSS SCAN" /\ f \in F) <=> "FSSMode" \in F
      BY FocusNamesAre
    <3>. QED
      BY <1>2, <3>1
  <2>3. Lights(i, S, F) <=> "FSSMode" \in F
    BY <1>14 DEF Lights
  <2>. QED
    BY <2>1, <2>2, <2>3
<1>15. CASE i = 12
  <2>1. TileNames[13] = "SHIELD POWER" /\ i + 1 = 13
    BY <1>15 DEF TileNames
  <2>2. ShouldLight("SHIELD POWER", m) <=> FALSE
    <3>1. (\E f \in DOMAIN FocusNames : FocusNames[f] = "SHIELD POWER" /\ f \in F) <=> FALSE
      BY FocusNamesAre
    <3>. QED
      BY <1>2, <3>1
  <2>3. Lights(i, S, F) <=> FALSE
    BY <1>15 DEF Lights
  <2>. QED
    BY <2>1, <2>2, <2>3
<1>16. CASE i = 13
  <2>1. TileNames[14] = "ENGINE POWER" /\ i + 1 = 14
    BY <1>16 DEF TileNames
  <2>2. ShouldLight("ENGINE POWER", m) <=> FALSE
    <3>1. (\E f \in DOMAIN FocusNames : FocusNames[f] = "ENGINE POWER" /\ f \in F) <=> FALSE
      BY FocusNamesAre
    <3>. QED
      BY <1>2, <3>1
  <2>3. Lights(i, S, F) <=> FALSE
    BY <1>16 DEF Lights
  <2>. QED
    BY <2>1, <2>2, <2>3
<1>17. CASE i = 14
  <2>1. TileNames[15] = "WEAPON POWER" /\ i + 1 = 15
    BY <1>17 DEF TileNames
  <2>2. ShouldLight("WEAPON POWER", m) <=> FALSE
    <3>1. (\E f \in DOMAIN FocusNames : FocusNames[f] = "WEAPON POWER" /\ f \in F) <=> FALSE
      BY FocusNamesAre
    <3>. QED
      BY <1>2, <3>1
  <2>3. Lights(i, S, F) <=> FALSE
    BY <1>17 DEF Lights
  <2>. QED
    BY <2>1, <2>2, <2>3
<1>18. CASE i = 15
  <2>1. TileNames[16] = "BAL POWER" /\ i + 1 = 16
    BY <1>18 DEF TileNames
  <2>2. ShouldLight("BAL POWER", m) <=> FALSE
    <3>1. (\E f \in DOMAIN FocusNames : FocusNames[f] = "BAL POWER" /\ f \in F) <=> FALSE
      BY FocusNamesAre
    <3>. QED
      BY <1>2, <3>1
  <2>3. Lights(i, S, F) <=> FALSE
    BY <1>18 DEF Lights
  <2>. QED
    BY <2>1, <2>2, <2>3
<1>19. CASE i = 16
  <2>1. TileNames[17] = "CARGO SCOOP" /\ i + 1 = 17
    BY <1>19 DEF TileNames
  <2>2. ShouldLight("CARGO SCOOP", m) <=> "CargoScoopDeployed" \in S
    BY <1>2
  <2>3. Lights(i, S, F) <=> "CargoScoopDeployed" \in S
    BY <1>19 DEF Lights
  <2>. QED
    BY <2>1, <2>2, <2>3
<1>20. CASE i = 17
  <2>1. TileNames[18] = "CARGO EJECT" /\ i + 1 = 18
    BY <1>20 DEF TileNames
  <2>2. ShouldLight("CARGO EJECT", m) <=> FALSE
    <3>1. (\E f \in DOMAIN FocusNames : FocusNames[f] = "CARGO EJECT" /\ f \in F) <=> FALSE
      BY FocusNamesAre
    <3>. QED
      BY <1>2, <3>1
  <2>3. Lights(i, S, F) <=> FALSE
    BY <1>20 DEF Lights
  <2>. QED
    BY <2>1, <2>2, <2>3
<1>21. CASE i = 18
  <2>1. TileNames[19] = "TARGET PANEL" /\ i + 1 = 19
    BY <1>21 DEF TileNames
  <2>2. ShouldLight("TARGET PANEL", m) <=> "TargetPanel" \in F
    <3>1. (\E f \in DOMAIN FocusNames : FocusNames[f] = "TARGET PANEL" /\ f \in F) <=> "TargetPanel" \in F
      BY FocusNamesAre
    <3>. QED
      BY <1>2, <3>1
  <2>3. Lights(i, S, F) <=> "TargetPanel" \in F
    BY <1>21 DEF Lights
  <2>. QED
    BY <2>1, <2>2, <2>3
<1>22. CASE i = 19
  <2>1. TileNames[20] = "COMMS PANEL" /\ i + 1 = 20
    BY <1>22 DEF TileNames
  <2>2. ShouldLight("COMMS PANEL", m) <=> "CommsPanel" \in F
    <3>1. (\E f \in DOMAIN FocusNames : FocusNames[f] = "COMMS PANEL" /\ f \in F) <=> "CommsPanel" \in F
      BY FocusNamesAre
    <3>. QED
      BY <1>2, <3>1
  <2>3. Lights(i, S, F) <=> "CommsPanel" \in F
    BY <1>22 DEF Lights
  <2>. QED
    BY <2>1, <2>2, <2>3
<1>23. CASE i = 20
  <2>1. TileNames[21] = "ROLE PANEL" /\ i + 1 = 21
    BY <1>23 DEF TileNames
  <2>2. ShouldLight("ROLE PANEL", m) <=> "RolePanel" \in F
    <3>1. (\E f \in DOMAIN FocusNames : FocusNames[f] = "ROLE PANEL" /\ f \in F) <=> "RolePanel" \in F
      BY FocusNamesAre
    <3>. QED
      BY <1>2, <3>1
  <2>3. Lights(i, S, F) <=> "RolePanel" \in F
    BY <1>23 DEF Lights
  <2>. QED
    BY <2>1, <2>2, <2>3
<1>24. CASE i = 21
  <2>1. TileNames[22] = "SYSTEM PANEL" /\ i + 1 = 22
    BY <1>24 DEF TileNames
  <2>2. ShouldLight("SYSTEM PANEL", m) <=> "SystemPanel" \in F
    <3>1. (\E f \in DOMAIN FocusNames : FocusNames[f] = "SYSTEM PANEL" /\ f \in F) <=> "SystemPanel" \in F
      BY FocusNamesAre
    <3>. QED
      BY <1>2, <3>1
  <2>3. Lights(i, S, F) <=> "SystemPanel" \in F
    BY <1>24 DEF Lights
  <2>. QED
    BY <2>1, <2>2, <2>3
<1>25. CASE i = 22
  <2>1. TileNames[23] = "GALAXY MAP" /\ i + 1 = 23
    BY <1>25 DEF TileNames
  <2>2. ShouldLight("GALAXY MAP", m) <=> "GalaxyMap" \in F
    <3>1. (\E f \in DOMAIN FocusNames : FocusNames[f] = "GALAXY MAP" /\ f \in F) <=> "GalaxyMap" \in F
      BY FocusNamesAre
    <3>. QED
      BY <1>2, <3>1
  <2>3. Lights(i, S, F) <=> "GalaxyMap" \in F
    BY <1>25 DEF Lights
  <2>. QED
    BY <2>1, <2>2, <2>3
<1>26. CASE i = 23
  <2>1. TileNames[24] = "SYSTEM MAP" /\ i + 1 = 24
    BY <1>26 DEF TileNames
  <2>2. ShouldLight("SYSTEM MAP", m) <=> "SystemMap" \in F
    <3>1. (\E f \in DOMAIN FocusNames : FocusNames[f] = "SYSTEM MAP" /\ f \in F) <=> "SystemMap" \in F
      BY FocusNamesAre
    <3>. QED
      BY <1>2, <3>1
  <2>3. Lights(i, S, F) <=> "SystemMap" \in F
    BY <1>26 DEF Lights
  <2>. QED
    BY <2>1, <2>2, <2>3
<1>27. \/ i = 0 \/ i = 1 \/ i = 2 \/ i = 3 \/ i = 4 \/ i = 5 \/ i = 6 \/ i = 7
       \/ i = 8 \/ i = 9 \/ i = 10 \/ i = 11 \/ i = 12 \/ i = 13 \/ i = 14 \/ i = 15
       \/ i = 16 \/ i = 17 \/ i = 18 \/ i = 19 \/ i = 20 \/ i = 21 \/ i = 22 \/ i = 23
  OBVIOUS
<1>. QED
  BY <1>3, <1>4, <1>5, <1>6, <1>7, <1>8, <1>9, <1>10, <1>11, <1>12, <1>13, <1>14, <1>15,
     <1>16, <1>17, <1>18, <1>19, <1>20, <1>21, <1>22, <1>23, <1>24, <1>25, <1>26, <1>27

LEMMA LightsAlike ==
  ASSUME NEW i, NEW S, NEW F, NEW S2, NEW F2,
         \A f \in FlagTiles : f[1] = i => (f[2] \in S <=> f[2] \in S2),
         \A f \in FocusTiles : f[1] = i => (f[2] \in F <=> f[2] \in F2)
  PROVE  Lights(i, S, F) <=> Lights(i, S2, F2)
<1>1. (\E f \in FlagTiles : f[1] = i /\ f[2] \in S) <=>
        (\E f \in FlagTiles : f[1] = i /\ f[2] \in S2)
  OBVIOUS
<1>2. (\E f \in FocusTiles : f[1] = i /\ f[2] \in F) <=>
        (\E f \in FocusTiles : f[1] = i /\ f[2] \in F2)
  OBVIOUS
<1>3. Lights(i, S, F) <=> \/ \E f \in FlagTiles : f[1] = i /\ f[2] \in S
                          \/ \E f \in FocusTiles : f[1] = i /\ f[2] \in F
  BY FlagTilesAre, FocusTilesAre DEF Lights
<1>4. Lights(i, S2, F2) <=> \/ \E f \in FlagTiles : f[1] = i /\ f[2] \in S2
                            \/ \E f \in FocusTiles : f[1] = i /\ f[2] \in F2
  BY FlagTilesAre, FocusTilesAre DEF Lights
<1>. QED
  BY <1>1, <1>2, <1>3, <1>4

LEMMA MaskIs ==
  ASSUME NEW m, Sent(m)
  PROVE  /\ Mask(ObjectText(m)) \subseteq 0 .. 23
         /\ \A i \in 0 .. 23 :
              Readable(i, m) =>
                (i \in Mask(ObjectText(m)) <=> ShouldLight(TileNames[i + 1], m))
<1>1. PICK T, text : text = ObjectText(m) /\ T = Mask(text)
  OBVIOUS
<1>2. PICK S, F : /\ S = {key \in TileKeys : JsonBool(text, key)}
                  /\ F = {key \in DOMAIN FocusNames : JsonStringIs(text, "GUIFocus", key)}
  OBVIOUS
<1>3. PICK S2, F2 :
        /\ S2 = {key \in TileKeys : On(m, key)}
        /\ F2 = {key \in DOMAIN FocusNames :
                   Has(m, "GUIFocus") /\ Get(m, "GUIFocus") = <<Str(key)>>}
  OBVIOUS
<1>4. /\ \A f \in FlagTiles : f[2] \in TileKeys
      /\ \A f \in FocusTiles : f[2] \in DOMAIN FocusNames
  <2>1. \A f \in FlagTiles : f[2] \in TileKeys
    BY DEF TileKeys
  <2>2. \A f \in FocusTiles : f[2] \in DOMAIN FocusNames
    BY DEF FocusTiles, FocusNames
  <2>. QED
    BY <2>1, <2>2
<1>5. ASSUME NEW i PROVE i \in T <=> Lights(i, S, F)
  <2>1. i \in T <=> (\/ \E f \in FlagTiles : f[1] = i /\ f[2] \in S
                    \/ \E f \in FocusTiles : f[1] = i /\ f[2] \in F)
    BY <1>1, <1>2, <1>4 DEF Mask
  <2>. QED
    BY <2>1, FlagTilesAre, FocusTilesAre DEF Lights
<1>6. ASSUME NEW i \in 0 .. 23
      PROVE  ShouldLight(TileNames[i + 1], m) <=> Lights(i, S2, F2)
  BY <1>3, ShouldLightIs
<1>7. ASSUME NEW i \in 0 .. 23, Readable(i, m)
      PROVE  Lights(i, S, F) <=> Lights(i, S2, F2)
  <2>1. ASSUME NEW f \in FlagTiles, f[1] = i PROVE f[2] \in S <=> f[2] \in S2
    <3>1. ~Shadowed(m, f[2])
      BY <1>7, <2>1 DEF Readable
    <3>2. JsonBool(text, f[2]) <=> On(m, f[2])
      BY <1>1, <3>1, ButtonsRead
    <3>. QED
      BY <1>2, <1>3, <1>4, <3>2
  <2>2. ASSUME NEW f \in FocusTiles, f[1] = i PROVE f[2] \in F <=> f[2] \in F2
    <3>1. ~Shadowed(m, "GUIFocus")
      BY <1>7, <2>2 DEF Readable
    <3>2. JsonStringIs(text, "GUIFocus", f[2]) <=>
            Has(m, "GUIFocus") /\ Get(m, "GUIFocus") = <<Str(f[2])>>
      BY <1>1, <3>1, ButtonsRead
    <3>. QED
      BY <1>2, <1>3, <1>4, <3>2
  <2>. QED
    BY <2>1, <2>2, LightsAlike
<1>8. ASSUME NEW i, Lights(i, S, F) PROVE i \in 0 .. 23
  BY <1>8 DEF Lights
<1>. QED
  BY <1>1, <1>5, <1>6, <1>7, <1>8

-------------------------------------------------------------------------------
\* The messages are what the assumptions say.

LEMMA TypeMember ==
  ASSUME NEW r \in Texts
  PROVE  LET e == <<"responsetype", <<Str(r)>>>> IN e \in Member /\ WellFormed(e)
<1>1. PICK v : v = <<Str(r)>>
  OBVIOUS
<1>2. Str(r) \in Lexeme
  BY DEF Str, Lexeme
<1>3. v \in Seq(Lexeme) /\ Len(v) = 1 /\ v[1] = Str(r) /\ v # <<>>
  BY <1>1, <1>2
<1>4. v[1][1] = "string"
  BY <1>3, MarksNoTokens
<1>5. Balanced(v)
  <2>1. Depth(v)[1] = 0
    <3>1. PICK n \in Nat : n = Len(v) /\ n = 1
      BY <1>3
    <3>2. Depth(v)[0] = 0 /\ \A p \in 1 .. n : Depth(v)[p] = Depth(v)[p - 1] + Weight(v[p][1])
      BY <3>1, DepthSteps
    <3>3. Weight(v[1][1]) = 0
      BY <1>4 DEF Weight, Opening, Closing
    <3>4. 1 \in 1 .. n /\ 1 - 1 = 0
      BY <3>1
    <3>. QED
      BY <3>2, <3>3, <3>4
  <2>2. v[1][1] \in TokenKinds
    BY <1>4 DEF TokenKinds
  <2>3. \A i \in 1 .. Len(v) - 1 : Depth(v)[i] > 0
    BY <1>3
  <2>. QED
    BY <1>3, <2>1, <2>2, <2>3 DEF Balanced
<1>6. PICK e : e = <<"responsetype", v>>
  OBVIOUS
<1>7. e[1] = "responsetype" /\ e[2] = v
  BY <1>6
<1>8. e \in Member
  <2>1. "responsetype" \in Texts
    BY MessagesAssumption
  <2>. QED
    BY <1>3, <1>6, <2>1 DEF Member
<1>9. "responsetype" \notin BoolKeys
  BY DEF BoolKeys, FlagKeys, Flags
<1>10. \A i \in 1 .. Len(v) - 1 : FALSE
  BY <1>3
<1>11. WellFormed(e)
  BY <1>4, <1>5, <1>7, <1>9, <1>10 DEF WellFormed
<1>. QED
  BY <1>1, <1>6, <1>8, <1>11

LEMMA OrdersSent ==
  ASSUME NEW s \in Seq(Member), Distinct(s), \A i \in 1 .. Len(s) : WellFormed(s[i]),
         \A i \in 1 .. Len(s) : s[i][1] # "responsetype",
         NEW r \in Texts, NEW m \in Orders(r, s)
  PROVE  Sent(m)
<1>1. PICK e : e = <<"responsetype", <<Str(r)>>>>
  OBVIOUS
<1>2. e \in Member /\ WellFormed(e) /\ e[1] = "responsetype"
  BY <1>1, TypeMember
<1>3. PICK w : w = <<e>>
  OBVIOUS
<1>4. w \in Seq(Member) /\ Len(w) = 1 /\ w[1] = e
  BY <1>2, <1>3
<1>5. PICK n \in Nat : n = Len(s)
  OBVIOUS
<1>6. \A i, j \in 1 .. n : i # j => s[i][1] # s[j][1]
  BY <1>5 DEF Distinct
<1>7. m = w \o s \/ m = s \o w
  BY <1>1, <1>3 DEF Orders
<1>8. CASE m = w \o s
  <2>1. m \in Seq(Member) /\ Twofold(m, w, s)
    BY <1>4, <1>8, InTwo
  <2>2. Len(m) = n + 1 /\ m[1] = e /\ \A i \in 1 .. n : m[1 + i] = s[i]
    <3>1. 1 \in 1 .. 1
      OBVIOUS
    <3>. QED
      BY <1>4, <1>5, <2>1, <3>1 DEF Twofold
  <2>3. ASSUME NEW i \in 1 .. n + 1 PROVE i = 1 \/ (i - 1 \in 1 .. n /\ m[i] = s[i - 1])
    <3>1. CASE i = 1
      BY <3>1
    <3>2. CASE i # 1
      <4>1. i - 1 \in 1 .. n /\ 1 + (i - 1) = i
        BY <3>2
      <4>. QED
        BY <2>2, <4>1
    <3>. QED
      BY <3>1, <3>2
  <2>4. Distinct(m)
    <3>1. DOMAIN m = 1 .. n + 1
      BY <2>1, <2>2
    <3>2. ASSUME NEW i \in 1 .. n + 1, NEW j \in 1 .. n + 1, i # j PROVE m[i][1] # m[j][1]
      <4>1. CASE i = 1
        <5>1. j - 1 \in 1 .. n /\ m[j] = s[j - 1]
          BY <2>3, <3>2, <4>1
        <5>. QED
          BY <1>2, <1>5, <2>2, <4>1, <5>1
      <4>2. CASE i # 1 /\ j = 1
        <5>1. i - 1 \in 1 .. n /\ m[i] = s[i - 1]
          BY <2>3, <4>2
        <5>. QED
          BY <1>2, <1>5, <2>2, <4>2, <5>1
      <4>3. CASE i # 1 /\ j # 1
        <5>1. i - 1 \in 1 .. n /\ m[i] = s[i - 1] /\ j - 1 \in 1 .. n /\ m[j] = s[j - 1]
          BY <2>3, <4>3
        <5>2. i - 1 # j - 1
          BY <3>2
        <5>. QED
          BY <1>6, <5>1, <5>2
      <4>. QED
        BY <4>1, <4>2, <4>3
    <3>. QED
      BY <3>1, <3>2 DEF Distinct
  <2>5. \A i \in 1 .. n + 1 : WellFormed(m[i])
    BY <1>2, <1>5, <2>2, <2>3
  <2>6. Has(m, "responsetype") /\ m # <<>>
    <3>1. 1 \in DOMAIN m /\ m # <<>>
      BY <2>1, <2>2
    <3>. QED
      BY <1>2, <2>2, <3>1 DEF Has
  <2>. QED
    BY <2>1, <2>2, <2>4, <2>5, <2>6 DEF Sent
<1>9. CASE m = s \o w
  <2>1. m \in Seq(Member) /\ Twofold(m, s, w)
    BY <1>4, <1>9, InTwo
  <2>2. Len(m) = n + 1 /\ m[n + 1] = e /\ \A i \in 1 .. n : m[i] = s[i]
    <3>1. 1 \in 1 .. 1
      OBVIOUS
    <3>. QED
      BY <1>4, <1>5, <2>1, <3>1 DEF Twofold
  <2>3. ASSUME NEW i \in 1 .. n + 1 PROVE i = n + 1 \/ (i \in 1 .. n /\ m[i] = s[i])
    <3>1. i = n + 1 \/ i \in 1 .. n
      OBVIOUS
    <3>. QED
      BY <2>2, <3>1
  <2>4. Distinct(m)
    <3>1. DOMAIN m = 1 .. n + 1
      BY <2>1, <2>2
    <3>2. ASSUME NEW i \in 1 .. n + 1, NEW j \in 1 .. n + 1, i # j PROVE m[i][1] # m[j][1]
      <4>1. CASE i = n + 1
        <5>1. j \in 1 .. n /\ m[j] = s[j]
          BY <2>3, <3>2, <4>1
        <5>. QED
          BY <1>2, <1>5, <2>2, <4>1, <5>1
      <4>2. CASE i # n + 1 /\ j = n + 1
        <5>1. i \in 1 .. n /\ m[i] = s[i]
          BY <2>3, <4>2
        <5>. QED
          BY <1>2, <1>5, <2>2, <4>2, <5>1
      <4>3. CASE i # n + 1 /\ j # n + 1
        <5>1. i \in 1 .. n /\ m[i] = s[i] /\ j \in 1 .. n /\ m[j] = s[j]
          BY <2>3, <4>3
        <5>. QED
          BY <1>6, <3>2, <5>1
      <4>. QED
        BY <4>1, <4>2, <4>3
    <3>. QED
      BY <3>1, <3>2 DEF Distinct
  <2>5. \A i \in 1 .. n + 1 : WellFormed(m[i])
    BY <1>2, <1>5, <2>2, <2>3
  <2>6. Has(m, "responsetype") /\ m # <<>>
    <3>1. n + 1 \in DOMAIN m /\ m # <<>>
      BY <2>1, <2>2
    <3>. QED
      BY <1>2, <2>2, <3>1 DEF Has
  <2>. QED
    BY <2>1, <2>2, <2>4, <2>5, <2>6 DEF Sent
<1>. QED
  BY <1>7, <1>8, <1>9

LEMMA MessagesSent ==
  ASSUME NEW m \in Messages
  PROVE  Sent(m)
<1>1. PICK s \in {s \in UNION {[1 .. n -> Members] : n \in 0 .. MaxMembers} : Distinct(s)} :
        m \in UNION {Orders(r, s) : r \in Responses}
  BY DEF Messages
<1>2. PICK r \in Responses : m \in Orders(r, s)
  BY <1>1
<1>3. PICK n \in 0 .. MaxMembers : s \in [1 .. n -> Members]
  OBVIOUS
<1>4. n \in Nat
  <2>1. MaxMembers \in Nat
    BY MessagesAssumption
  <2>. QED
    BY <2>1
<1>5. \A e \in Members : e \in Member /\ e[1] # "responsetype" /\ WellFormed(e)
  BY MessagesAssumption DEF Member
<1>6. s \in [1 .. n -> Member]
  BY <1>3, <1>5
<1>7. s \in Seq(Member) /\ Len(s) = n
  BY <1>4, <1>6
<1>8. \A i \in 1 .. Len(s) : WellFormed(s[i]) /\ s[i][1] # "responsetype"
  BY <1>3, <1>5, <1>7
<1>9. r \in Texts
  BY MessagesAssumption
<1>10. Distinct(s)
  BY <1>1
<1>. QED
  BY <1>2, <1>7, <1>8, <1>9, <1>10, OrdersSent

LEMMA FirstSent ==
  ASSUME NEW m \in FirstMessages
  PROVE  Sent(m)
<1>1. /\ m \in Seq(Member) /\ Distinct(m) /\ \E i \in DOMAIN m : m[i][1] = "responsetype"
      /\ \A i \in DOMAIN m : WellFormed(m[i])
  BY MessagesAssumption DEF Member
<1>2. DOMAIN m = 1 .. Len(m) /\ m # <<>>
  BY <1>1
<1>. QED
  BY <1>1, <1>2 DEF Sent, Has

-------------------------------------------------------------------------------
\* What the handlers do.

\* edd_state_handle_json, by its response.
LEMMA StateHandled ==
  ASSUME NEW m, Sent(m), HandleState(ObjectText(m)), NEW t, t = Tokens(ObjectText(m))
  PROVE  /\ t = <<>> => recognized' = FALSE /\ UNCHANGED <<fields, jumps, flags, pips>>
         /\ t # <<>> =>
              /\ Response(m) = "status" => recognized' = TRUE /\ ParseStatus(t)
              /\ Response(m) \in IndicatorResponses => recognized' = TRUE /\ ParseIndicator(t)
              /\ Response(m) = "genericui" => recognized' = TRUE /\ ParseGenericUi(t)
              /\ Response(m) \in JournalResponses => ParseJournalRoute
              /\ Response(m) \notin
                   {"status", "genericui"} \cup IndicatorResponses \cup JournalResponses =>
                   recognized' = FALSE /\ UNCHANGED <<fields, jumps, flags, pips>>
<1>1. PICK r : r = IF t = <<>> THEN NoToken ELSE FindKey(t, Root, "responsetype")
  OBVIOUS
<1> DEFINE Is(names) == r # NoToken /\ \E n \in names : TokenEquals(t, r, n)
           Known == {"status", "genericui"} \cup IndicatorResponses \cup JournalResponses
<1>2. \/ Is({"status"}) /\ recognized' = TRUE /\ ParseStatus(t)
      \/ Is(IndicatorResponses) /\ recognized' = TRUE /\ ParseIndicator(t)
      \/ Is({"genericui"}) /\ recognized' = TRUE /\ ParseGenericUi(t)
      \/ Is(JournalResponses) /\ ParseJournalRoute
      \/ ~Is(Known) /\ recognized' = FALSE /\ UNCHANGED <<fields, jumps, flags, pips>>
  <2>1. HandleTokens(t)
    BY DEF HandleState
  <2>. QED
    BY <1>1, <2>1 DEF HandleTokens
<1>3. CASE t = <<>>
  BY <1>1, <1>2, <1>3
<1>4. CASE t # <<>>
  <2>1. PICK at, P, c : Reading(m, ObjectText(m), at, t, P, c)
    BY <1>4, SentIsRead
  <2>2. r = FindKey(t, Root, "responsetype")
    BY <1>1, <1>4
  <2>3. r # NoToken /\ \A name : TokenEquals(t, r, name) <=> Response(m) = name
    BY <2>1, <2>2, ResponseIs
  <2>4. \A names : Is(names) <=> Response(m) \in names
    BY <2>3
  <2> HIDE DEF Is
  <2>5. PICK x : x = Response(m)
    OBVIOUS
  <2>6. \/ x = "status" /\ recognized' = TRUE /\ ParseStatus(t)
        \/ x \in IndicatorResponses /\ recognized' = TRUE /\ ParseIndicator(t)
        \/ x = "genericui" /\ recognized' = TRUE /\ ParseGenericUi(t)
        \/ x \in JournalResponses /\ ParseJournalRoute
        \/ /\ x \notin Known /\ recognized' = FALSE
           /\ UNCHANGED <<fields, jumps, flags, pips>>
    BY <1>2, <2>4, <2>5
  <2>7. /\ \A y \in IndicatorResponses : y = "indicator" \/ y = "indicatorpush"
        /\ \A y \in JournalResponses :
             y = "journalrequest" \/ y = "journalpush" \/ y = "journalrefresh"
    BY DEF IndicatorResponses, JournalResponses
  <2>. QED
    BY <1>4, <2>5, <2>6, <2>7
<1>. QED
  BY <1>3, <1>4

LEMMA PipsAre ==
  ASSUME NEW m, NEW text, NEW at, NEW t, NEW P, NEW c, Reading(m, text, at, t, P, c),
         pips \in [1 .. 3 -> Int]
  PROVE  PipsOf(t) =
           IF Has(m, "ValidPips") /\ ~True(m, "ValidPips") THEN <<0, 0, 0>>
           ELSE IF Has(m, "Pips") THEN [i \in 1 .. 3 |-> Atoi(Get(m, "Pips")[2 * i][2])]
           ELSE pips
<1>1. ~BoolKey(t, Root, "ValidPips", TRUE) <=> Has(m, "ValidPips") /\ ~True(m, "ValidPips")
  <2>1. "ValidPips" \in BoolKeys
    BY DEF BoolKeys
  <2>2. BoolKey(t, Root, "ValidPips", TRUE) =
          IF Has(m, "ValidPips") THEN True(m, "ValidPips") ELSE TRUE
    BY <2>1, RootBool, SMTT(30), ZenonT(30)
  <2>. QED
    BY <2>2
<1>2. PICK x : x = FindKey(t, Root, "Pips")
  OBVIOUS
<1>3. PipsOf(t) =
        IF ~BoolKey(t, Root, "ValidPips", TRUE) THEN <<0, 0, 0>>
        ELSE [i \in 1 .. 3 |-> IF ArrayItem(t, x, i - 1) # NoToken
                                 THEN Atoi(t[ArrayItem(t, x, i - 1)].text) ELSE pips[i]]
  BY <1>2 DEF PipsOf
<1>4. CASE ~Has(m, "Pips")
  <2>1. x = NoToken
    BY <1>2, <1>4, RootFinds
  <2>2. \A i \in 1 .. 3 : ArrayItem(t, x, i - 1) = NoToken
    BY <2>1 DEF ArrayItem
  <2>3. [i \in 1 .. 3 |-> IF ArrayItem(t, x, i - 1) # NoToken
                            THEN Atoi(t[ArrayItem(t, x, i - 1)].text) ELSE pips[i]]
          = [i \in 1 .. 3 |-> pips[i]]
    BY <2>2
  <2>4. pips = [i \in 1 .. 3 |-> pips[i]]
    OBVIOUS
  <2>. QED
    BY <1>1, <1>3, <1>4, <2>3, <2>4
<1>5. CASE Has(m, "Pips")
  <2>1. PICK v : v = Get(m, "Pips")
    OBVIOUS
  <2>2. PICK d \in Nat : x \in 1 .. c /\ P[x] = d + 1 /\ Stands(text, d, v)
    BY <1>2, <1>5, <2>1, ValueStands
  <2>3. v \in Seq(Lexeme) /\ Balanced(v) /\ WellFormed(<<"Pips", v>>)
    BY <1>5, <2>1, GetIsValue DEF Reading
  <2>4. PICK n \in 3 .. Len(v) : FlatArray(v, n)
    BY <2>3 DEF WellFormed
  <2>5. n \in Nat /\ n >= 3
    <3>1. Len(v) \in Nat
      BY <2>3
    <3>. QED
      BY <3>1
  <2>6. ASSUME NEW i \in 1 .. 3
        PROVE  ArrayItem(t, x, i - 1) # NoToken /\ t[ArrayItem(t, x, i - 1)].text = v[2 * i][2]
    <3>1. Lexed(t, P, c, text) /\ Len(text) \in Nat
      BY DEF Reading
    <3>2. PICK N \in Nat : N = Len(text)
      BY <3>1
    <3>3. Balanced(v) /\ FlatArray(v, n)
      BY <2>3, <2>4
    <3>4. x \in 1 .. c /\ P[x] = d + 1 /\ Stands(text, d, v) /\ Lexed(t, P, c, text)
      BY <2>2, <3>1
    <3>. QED
      BY <2>5, <3>2, <3>3, <3>4, ItemIs, SMTT(30)
  <2>7. [i \in 1 .. 3 |-> IF ArrayItem(t, x, i - 1) # NoToken
                            THEN Atoi(t[ArrayItem(t, x, i - 1)].text) ELSE pips[i]]
          = [i \in 1 .. 3 |-> Atoi(v[2 * i][2])]
    BY <2>6
  <2>. QED
    BY <1>1, <1>3, <1>5, <2>1, <2>7
<1>. QED
  BY <1>4, <1>5

\* What parse_status makes of a field.
Copied(t, f, old) ==
  CopyKey(t, IF StatusKeys[f][1] = "" THEN Root ELSE FindKey(t, Root, StatusKeys[f][1]),
          StatusKeys[f][2], old)

LEMMA OwnText ==
  ASSUME NEW m, NEW text, NEW at, NEW t, NEW P, NEW c, Reading(m, text, at, t, P, c),
         NEW f \in DOMAIN StatusKeys, NEW old
  PROVE  Copied(t, f, old) = IF Own(m, f) = <<>> THEN old ELSE Own(m, f)[1][2]
<1>1. PICK outer, key : outer = StatusKeys[f][1] /\ key = StatusKeys[f][2]
  OBVIOUS
<1>2. CASE outer = ""
  <2>1. CopyKey(t, Root, key, old) = IF Has(m, key) THEN Get(m, key)[1][2] ELSE old
    BY RootText
  <2>2. Own(m, f) = IF Has(m, key) THEN Get(m, key) ELSE <<>>
    BY <1>1, <1>2 DEF Own
  <2>3. Has(m, key) => Get(m, key) # <<>>
    BY GetIsValue DEF Reading
  <2>. QED
    BY <1>1, <1>2, <2>1, <2>2, <2>3 DEF Copied
<1>3. CASE outer # ""
  <2>1. outer \in ObjectKeys
    BY <1>1 DEF ObjectKeys
  <2>2. Own(m, f) = IF Has(m, outer) THEN NestedValue(Get(m, outer), key) ELSE <<>>
    BY <1>1, <1>3 DEF Own
  <2>3. PICK own, x : own = Own(m, f) /\ x = FindKey(t, Root, outer)
    OBVIOUS
  <2>4. CopyKey(t, x, key, old) = IF own = <<>> THEN old ELSE own[1][2]
    BY <2>1, <2>2, <2>3, NestedText
  <2>. QED
    BY <1>1, <1>3, <2>3, <2>4 DEF Copied
<1>. QED
  BY <1>2, <1>3

LEMMA ButtonsHandled ==
  ASSUME NEW m, Sent(m), HandleButtons(ObjectText(m)), lit \in SUBSET (0 .. 23)
  PROVE  /\ lit' \in SUBSET (0 .. 23)
         /\ ~Shadowed(m, "responsetype") =>
              IF Response(m) \in IndicatorResponses
                THEN \A i \in 0 .. 23 :
                       Readable(i, m) => (i \in lit' <=> ShouldLight(TileNames[i + 1], m))
                ELSE lit' = lit
<1>1. PICK text, next : /\ text = ObjectText(m) /\ next = Mask(text)
                        /\ lit' = IF IsIndicator(text) THEN next ELSE lit
  BY DEF HandleButtons
<1>2. /\ next \in SUBSET (0 .. 23)
      /\ \A i \in 0 .. 23 :
           Readable(i, m) => (i \in next <=> ShouldLight(TileNames[i + 1], m))
  BY <1>1, MaskIs
<1>3. ~Shadowed(m, "responsetype") =>
        (IsIndicator(text) <=> Response(m) \in IndicatorResponses)
  BY <1>1, IndicatorIs
<1>. QED
  BY <1>1, <1>2, <1>3

-------------------------------------------------------------------------------
\* Types.

TelemetryTypeOK ==
  /\ fields \in [TextFields -> Texts] /\ jumps \in Int
  /\ flags \in [Flags -> BOOLEAN] /\ pips \in [1 .. 3 -> Int]
  /\ lit \in SUBSET (0 .. 23) /\ changed \in SUBSET (0 .. 23) /\ recognized \in BOOLEAN
  /\ message = <<>> \/ Sent(message)
  /\ before \in [fields : [TextFields -> Texts], flags : [Flags -> BOOLEAN],
                 pips : [1 .. 3 -> Int], lit : SUBSET (0 .. 23)]

LEMMA AtoiIsInt == \A x : Atoi(x) \in Int
  BY DEF Atoi

LEMMA GetIsText ==
  ASSUME NEW m, Sent(m), NEW key, Has(m, key)
  PROVE  Get(m, key)[1][2] \in Texts
<1>1. PICK v \in Seq(Lexeme) : v = Get(m, key) /\ v # <<>>
  BY GetIsValue
<1>2. v[1] \in Lexeme
  BY <1>1
<1>3. v[1][2] \in Texts
  BY <1>2 DEF Lexeme
<1>. QED
  BY <1>1, <1>3

LEMMA OwnIsText ==
  ASSUME NEW m, Sent(m), NEW f \in DOMAIN StatusKeys, Own(m, f) # <<>>
  PROVE  Own(m, f)[1][2] \in Texts
<1>1. PICK outer, key : outer = StatusKeys[f][1] /\ key = StatusKeys[f][2]
  OBVIOUS
<1>2. CASE outer = ""
  BY <1>1, <1>2, GetIsText DEF Own
<1>3. CASE outer # ""
  <2>1. Has(m, outer) /\ Own(m, f) = NestedValue(Get(m, outer), key)
    BY <1>1, <1>3 DEF Own
  <2>2. PICK v \in Seq(Lexeme) : v = Get(m, outer)
    BY <2>1, GetIsValue
  <2> DEFINE found == {i \in 1 .. Len(v) - 2 :
                         v[1] = Mark("object") /\ v[i] = Str(key) /\ v[i + 1] = Mark("colon")}
  <2>3. found # {} /\ Own(m, f) = <<v[(CHOOSE i \in found : TRUE) + 2]>>
    BY <2>1, <2>2 DEF NestedValue
  <2>4. PICK y \in found : y = (CHOOSE i \in found : TRUE)
    <3> HIDE DEF found
    <3>. QED
      BY <2>3
  <2>5. y + 2 \in 1 .. Len(v)
    <3>1. PICK l \in Nat : l = Len(v)
      OBVIOUS
    <3>2. y \in 1 .. l - 2
      BY <3>1
    <3>. QED
      BY <3>1, <3>2
  <2>6. PICK p \in 1 .. Len(v) : p = y + 2
    BY <2>5
  <2>7. v[p] \in Lexeme
    OBVIOUS
  <2>8. v[p][2] \in Texts
    BY <2>7 DEF Lexeme
  <2>9. Own(m, f)[1] = v[p]
    <3> HIDE DEF found
    <3>. QED
      BY <2>3, <2>4, <2>6
  <2>. QED
    BY <2>8, <2>9
<1>. QED
  BY <1>2, <1>3

LEMMA StatusFields ==
  DOMAIN StatusKeys \subseteq TextFields /\ "next_system" \notin DOMAIN StatusKeys
    /\ "legal_state" \notin DOMAIN StatusKeys /\ "next_system" \in TextFields
    /\ "legal_state" \in TextFields
    /\ TextFields \ {"next_system", "legal_state"} \subseteq DOMAIN StatusKeys
BY DEF StatusKeys, TextFields

\* What parse_status and parse_indicator leave in the fields.
LEMMA StatusParsed ==
  ASSUME NEW m, NEW t, t = Tokens(ObjectText(m)), t # <<>>, Sent(m), ParseStatus(t),
         fields \in [TextFields -> Texts]
  PROVE  /\ fields' \in [TextFields -> Texts]
         /\ \A f \in DOMAIN StatusKeys :
              fields'[f] = IF Own(m, f) = <<>> THEN fields[f] ELSE Own(m, f)[1][2]
         /\ fields'["legal_state"] = fields["legal_state"]
         /\ fields'["next_system"] # fields["next_system"] =>
              Get(m, "FSDJumpNextSystemName") = <<Str(fields'["next_system"])>>
<1>1. PICK at, P, c : Reading(m, ObjectText(m), at, t, P, c)
  BY SentIsRead
<1>2. PICK g : g = fields'
  OBVIOUS
<1>3. /\ g = [f \in TextFields |-> g[f]]
      /\ g["next_system"] = NextSystemOf(t) /\ g["legal_state"] = fields["legal_state"]
      /\ \A f \in DOMAIN StatusKeys :
           g[f] = CopyKey(t, IF StatusKeys[f][1] = "" THEN Root
                             ELSE FindKey(t, Root, StatusKeys[f][1]),
                          StatusKeys[f][2], fields[f])
  <2>1. fields' = [f \in TextFields |->
          IF f = "next_system" THEN NextSystemOf(t)
          ELSE IF f = "legal_state" THEN fields[f]
          ELSE CopyKey(t, IF StatusKeys[f][1] = "" THEN Root
                          ELSE FindKey(t, Root, StatusKeys[f][1]),
                       StatusKeys[f][2], fields[f])]
    BY DEF ParseStatus
  <2>2. "next_system" # "legal_state"
    OBVIOUS
  <2>. QED
    BY <1>2, <2>1, <2>2, StatusFields
<1>4. \A f \in DOMAIN StatusKeys :
        g[f] = IF Own(m, f) = <<>> THEN fields[f] ELSE Own(m, f)[1][2]
  <2> TAKE f \in DOMAIN StatusKeys
  <2>1. PICK old : old = fields[f]
    OBVIOUS
  <2>2. Copied(t, f, old) = IF Own(m, f) = <<>> THEN old ELSE Own(m, f)[1][2]
    BY <1>1, OwnText
  <2>3. g[f] = Copied(t, f, fields[f])
    BY <1>3 DEF Copied
  <2>. QED
    BY <2>1, <2>2, <2>3
<1>5. g["next_system"] =
        IF Has(m, "FSDJumpNextSystemName") /\ Get(m, "FSDJumpNextSystemName")[1][1] = "string"
          THEN Get(m, "FSDJumpNextSystemName")[1][2] ELSE fields["next_system"]
  <2>1. PICK old, key : old = fields["next_system"] /\ key = "FSDJumpNextSystemName"
    OBVIOUS
  <2>2. CopyStringKey(t, Root, key, old) =
          IF Has(m, key) /\ Get(m, key)[1][1] = "string" THEN Get(m, key)[1][2] ELSE old
    BY <1>1, RootText
  <2>3. g["next_system"] = CopyStringKey(t, Root, key, old)
    BY <1>3, <2>1 DEF NextSystemOf
  <2>. QED
    BY <2>1, <2>2, <2>3
<1>6. ASSUME g["next_system"] # fields["next_system"]
      PROVE  Get(m, "FSDJumpNextSystemName") = <<Str(g["next_system"])>>
  <2>1. PICK v : v = Get(m, "FSDJumpNextSystemName")
    OBVIOUS
  <2>2. /\ Has(m, "FSDJumpNextSystemName") /\ v[1][1] = "string"
        /\ g["next_system"] = v[1][2]
    BY <1>5, <1>6, <2>1
  <2>3. v \in Seq(Lexeme) /\ Balanced(v)
    BY <2>1, <2>2, GetIsValue
  <2>4. v = <<v[1]>> /\ v[1] = Str(v[1][2])
    BY <2>2, <2>3, SingleValue DEF Single
  <2>. QED
    BY <2>1, <2>2, <2>4
<1>7. \A f \in TextFields : g[f] \in Texts
  <2> TAKE f \in TextFields
  <2>1. CASE f = "next_system"
    BY <1>5, <2>1, GetIsText
  <2>2. CASE f = "legal_state"
    BY <1>3, <2>2
  <2>3. CASE f \notin {"next_system", "legal_state"}
    <3>1. f \in DOMAIN StatusKeys
      BY <2>3, StatusFields
    <3>. QED
      BY <1>4, <3>1, OwnIsText
  <2>. QED
    BY <2>1, <2>2, <2>3
<1>. QED
  BY <1>2, <1>3, <1>4, <1>6, <1>7

LEMMA IndicatorParsed ==
  ASSUME NEW m, NEW t, t = Tokens(ObjectText(m)), t # <<>>, Sent(m), ParseIndicator(t),
         fields \in [TextFields -> Texts], flags \in [Flags -> BOOLEAN],
         pips \in [1 .. 3 -> Int]
  PROVE  /\ fields' \in [TextFields -> Texts] /\ flags' \in [Flags -> BOOLEAN]
         /\ \A f \in DOMAIN StatusKeys \cup {"next_system"} : fields'[f] = fields[f]
         /\ fields'["legal_state"] # fields["legal_state"] =>
              fields'["legal_state"] = Get(m, "LegalState")[1][2]
         /\ \A f \in Flags : flags'[f] = IF Has(m, FlagKeys[f]) THEN True(m, FlagKeys[f])
                                         ELSE flags[f]
         /\ pips' = IF Has(m, "ValidPips") /\ ~True(m, "ValidPips") THEN <<0, 0, 0>>
                    ELSE IF Has(m, "Pips")
                      THEN [i \in 1 .. 3 |-> Atoi(Get(m, "Pips")[2 * i][2])] ELSE pips
<1>1. PICK at, P, c : Reading(m, ObjectText(m), at, t, P, c)
  BY SentIsRead
<1>2. /\ flags' = [f \in Flags |-> BoolKey(t, Root, FlagKeys[f], flags[f])]
      /\ pips' = PipsOf(t)
      /\ fields' = [fields EXCEPT !["legal_state"] = CopyKey(t, Root, "LegalState", @)]
  BY DEF ParseIndicator
<1>3. \A f \in Flags : BoolKey(t, Root, FlagKeys[f], flags[f]) =
                         IF Has(m, FlagKeys[f]) THEN True(m, FlagKeys[f]) ELSE flags[f]
  <2> TAKE f \in Flags
  <2>1. FlagKeys[f] \in BoolKeys
    BY DEF BoolKeys
  <2>. QED
    BY <1>1, <2>1, RootBool
<1>4. \A key : True(m, key) \in BOOLEAN
  BY DEF True, Has
<1>5. \A f \in Flags : BoolKey(t, Root, FlagKeys[f], flags[f]) \in BOOLEAN
  BY <1>3, <1>4
<1>12. CopyKey(t, Root, "LegalState", fields["legal_state"]) =
         IF Has(m, "LegalState") THEN Get(m, "LegalState")[1][2] ELSE fields["legal_state"]
  BY <1>1, RootText
<1>6. CopyKey(t, Root, "LegalState", fields["legal_state"]) \in Texts
  <2>1. fields["legal_state"] \in Texts
    BY StatusFields
  <2>. QED
    BY <1>12, <2>1, GetIsText
<1>13. fields'["legal_state"] # fields["legal_state"] =>
         fields'["legal_state"] = Get(m, "LegalState")[1][2]
  <2>1. fields'["legal_state"] = CopyKey(t, Root, "LegalState", fields["legal_state"])
    BY <1>2, StatusFields
  <2>. QED
    BY <1>12, <2>1
<1>7. fields' \in [TextFields -> Texts]
  BY <1>2, <1>6
<1>8. \A f \in DOMAIN StatusKeys \cup {"next_system"} : fields'[f] = fields[f]
  <2>1. \A f \in DOMAIN StatusKeys \cup {"next_system"} : f \in TextFields /\ f # "legal_state"
    BY StatusFields
  <2>. QED
    BY <1>2, <2>1
<1>9. pips' = IF Has(m, "ValidPips") /\ ~True(m, "ValidPips") THEN <<0, 0, 0>>
              ELSE IF Has(m, "Pips")
                THEN [i \in 1 .. 3 |-> Atoi(Get(m, "Pips")[2 * i][2])] ELSE pips
  BY <1>1, <1>2, PipsAre
<1>10. flags' \in [Flags -> BOOLEAN]
  BY <1>2, <1>5
<1>11. \A f \in Flags : flags'[f] = IF Has(m, FlagKeys[f]) THEN True(m, FlagKeys[f]) ELSE flags[f]
  BY <1>2, <1>3
<1>. QED
  BY <1>7, <1>8, <1>9, <1>10, <1>11, <1>13

-------------------------------------------------------------------------------
\* The messages about the route.

\* find_key returns a token, whatever the object.
LEMMA FindKeyToken ==
  ASSUME NEW m, NEW text, NEW at, NEW t, NEW P, NEW c, Reading(m, text, at, t, P, c),
         NEW x \in 0 .. c, NEW key
  PROVE  FindKey(t, x, key) \in 0 .. c
<1>1. PICK n \in Nat : n = Len(text)
  BY DEF Reading
<1>2. /\ Lexed(t, P, c, text) /\ \A i \in 1 .. c : TokenEnd(text, P[i]) \in Nat
      /\ c \in Nat /\ Len(t) = c
  BY DEF Reading, Lexed
<1>3. CASE x = NoToken \/ x > Len(t) \/ t[x].type # "object"
  <2>1. FindKey(t, x, key) = NoToken
    BY <1>3 DEF FindKey
  <2>. QED
    BY <1>2, <2>1 DEF NoToken
<1>4. CASE ~(x = NoToken \/ x > Len(t) \/ t[x].type # "object")
  <2>1. x \in 1 .. c /\ text[P[x]][1] = "object"
    BY <1>2, <1>4 DEF NoToken, Lexed
  <2>2. PICK f : Seeks(f, t, P, c, text, TokenEnd(text, P[x]), key)
                 /\ FindKey(t, x, key) = f[x + 1]
    <3>1. PICK y \in 1 .. c : y = x
      BY <2>1
    <3>2. /\ Lexed(t, P, c, text) /\ n = Len(text) /\ text[P[y]][1] = "object"
          /\ TokenEnd(text, P[y]) \in Nat /\ \A i \in 1 .. c : TokenEnd(text, P[i]) \in Nat
      BY <1>1, <1>2, <2>1, <3>1
    <3>3. \E f : /\ Seeks(f, t, P, c, text, TokenEnd(text, P[y]), key)
                 /\ FindKey(t, y, key) = f[y + 1]
      BY <3>2, FindKeySeeks
    <3>. QED
      BY <3>1, <3>3
  <2>3. PICK stop : stop = TokenEnd(text, P[x])
    OBVIOUS
  <2>4. \A i \in 1 .. c + 1 :
          f[i] = IF i + 1 > c \/ P[i] >= stop THEN NoToken
                 ELSE IF text[P[i]][1] = "string" /\ text[P[i]][2] = key THEN i + 1
                 ELSE f[SkipToken(t, i + 1)]
    BY <2>2, <2>3 DEF Seeks
  <2> DEFINE S == {d \in 0 .. c : \A i \in c + 1 - d .. c + 1 : f[i] \in 0 .. c}
  <2>5. 0 \in S
    <3>1. f[c + 1] = NoToken
      BY <1>2, <2>4
    <3>. QED
      BY <1>2, <3>1 DEF NoToken
  <2>6. ASSUME NEW d \in 0 .. c - 1, d \in S PROVE d + 1 \in S
    <3>1. PICK i \in 1 .. c : i = c - d
      BY <1>2
    <3>2. \A k \in i + 1 .. c + 1 : f[k] \in 0 .. c
      BY <1>2, <2>6, <3>1
    <3>3. f[i] \in 0 .. c
      <4>1. CASE i + 1 > c \/ P[i] >= stop
        BY <1>2, <2>4, <4>1 DEF NoToken
      <4>2. CASE ~(i + 1 > c \/ P[i] >= stop)
        <5>1. i + 1 \in 1 .. c
          BY <1>2, <4>2
        <5>2. PICK k \in 1 .. c : k = i + 1
          BY <5>1
        <5>3. PICK e \in Nat : e = TokenEnd(text, P[k])
          BY <1>2
        <5>4. SkipToken(t, k) \in k + 1 .. c + 1
          BY <1>1, <1>2, <5>3, Skipped
        <5>5. f[SkipToken(t, k)] \in 0 .. c
          BY <1>2, <3>2, <5>2, <5>4
        <5>6. f[i] = i + 1 \/ f[i] = f[SkipToken(t, k)]
          BY <1>2, <2>4, <4>2, <5>2
        <5>. QED
          BY <1>2, <5>1, <5>5, <5>6
      <4>. QED
        BY <4>1, <4>2
    <3>4. \A k \in c + 1 - (d + 1) .. c + 1 : k = i \/ k \in i + 1 .. c + 1
      BY <1>2, <3>1
    <3>5. d + 1 \in 0 .. c
      BY <1>2
    <3>. QED
      BY <3>2, <3>3, <3>4, <3>5
  <2>7. S = 0 .. c
    <3>1. S \in SUBSET (0 .. c)
      OBVIOUS
    <3> HIDE DEF S
    <3>. QED
      BY <1>2, <2>5, <2>6, <3>1, CountUp
  <2>8. \A i \in c + 1 - c .. c + 1 : f[i] \in 0 .. c
    <3>1. c \in S
      <4>1. c \in 0 .. c
        BY <1>2
      <4> HIDE DEF S
      <4>. QED
        BY <2>7, <4>1
    <3>. QED
      BY <3>1
  <2>. QED
    BY <1>2, <2>1, <2>2, <2>8
<1>. QED
  BY <1>3, <1>4

LEMMA TokenText ==
  ASSUME NEW m, NEW text, NEW at, NEW t, NEW P, NEW c, Reading(m, text, at, t, P, c),
         NEW v \in 1 .. c
  PROVE  t[v].text \in Texts
<1>1. text \in Seq(Lexeme)
  BY DEF Reading, Laid
<1>2. P[v] \in 1 .. Len(text) /\ t[v].text = text[P[v]][2]
  BY DEF Reading, Lexed
<1>3. text[P[v]] \in Lexeme
  BY <1>1, <1>2
<1>. QED
  BY <1>2, <1>3 DEF Lexeme

\* What parse_generic_ui and parse_journal_route leave in the fields.
LEMMA GenericParsed ==
  ASSUME NEW m, NEW t, t = Tokens(ObjectText(m)), t # <<>>, Sent(m), ParseGenericUi(t),
         fields \in [TextFields -> Texts], jumps \in Int
  PROVE  /\ fields' \in [TextFields -> Texts] /\ jumps' \in Int /\ UNCHANGED <<flags, pips>>
         /\ \A f \in TextFields \ {"next_system"} : fields'[f] = fields[f]
<1>1. PICK at, P, c : Reading(m, ObjectText(m), at, t, P, c)
  BY SentIsRead
<1>2. c \in Nat /\ Root \in 0 .. c
  BY <1>1 DEF Reading, Lexed, Root
<1>3. PICK data \in 0 .. c : data = FindKey(t, Root, "data")
  BY <1>1, <1>2, FindKeyToken
<1>4. PICK target \in 0 .. c : target = FindKey(t, data, "FSDTarget")
  BY <1>1, FindKeyToken
<1>5. PICK old \in Texts : old = fields["next_system"]
  BY StatusFields
<1>6. CopyStringKey(t, target, "StarSystem", old) \in Texts
  <2>1. PICK v \in 0 .. c : v = FindKey(t, target, "StarSystem")
    BY <1>1, FindKeyToken
  <2>2. v # NoToken => v \in 1 .. c
    BY <1>2 DEF NoToken
  <2>3. v # NoToken => t[v].text \in Texts
    BY <1>1, <2>2, TokenText
  <2>. QED
    BY <2>1, <2>3 DEF CopyStringKey
<1>7. PICK remaining \in Int : remaining = IntegerKey(t, target, "RemainingJumpsInRoute", jumps)
  BY AtoiIsInt DEF IntegerKey
<1>8. "" \in Texts
  BY MessagesAssumption
<1>12. -1 \in Int
  OBVIOUS
<1>9. \E new \in Texts : fields' = [fields EXCEPT !["next_system"] = new]
  BY <1>3, <1>4, <1>5, <1>6, <1>7, <1>8 DEF ParseGenericUi
<1>10. jumps' = -1 \/ jumps' = jumps \/ jumps' = remaining
  BY <1>3, <1>4, <1>7 DEF ParseGenericUi
<1>11. UNCHANGED <<flags, pips>>
  BY DEF ParseGenericUi
<1>13. jumps' \in Int
  BY <1>10, <1>12
<1>14. /\ fields' \in [TextFields -> Texts]
       /\ \A f \in TextFields \ {"next_system"} : fields'[f] = fields[f]
  BY <1>9
<1>. QED
  BY <1>11, <1>13, <1>14

LEMMA JournalParsed ==
  ASSUME ParseJournalRoute, fields \in [TextFields -> Texts], jumps \in Int
  PROVE  /\ fields' \in [TextFields -> Texts] /\ jumps' \in Int /\ UNCHANGED <<flags, pips>>
         /\ recognized' \in BOOLEAN
         /\ \A f \in TextFields \ {"next_system"} : fields'[f] = fields[f]
<1>1. CASE recognized' = FALSE /\ UNCHANGED <<fields, jumps, flags, pips>>
  BY <1>1
<1>2. CASE ~(recognized' = FALSE /\ UNCHANGED <<fields, jumps, flags, pips>>)
  <2>1. PICK row \in RouteRows :
          /\ jumps' = row[1]
          /\ fields' = [fields EXCEPT !["next_system"] =
               IF row[1] <= 0 THEN "" ELSE IF row[2] # "" THEN row[2] ELSE @]
    BY <1>2 DEF ParseJournalRoute
  <2>2. recognized' = TRUE /\ UNCHANGED <<flags, pips>>
    BY <1>2 DEF ParseJournalRoute
  <2>3. row[1] \in Int /\ row[2] \in Texts /\ "" \in Texts
    <3>1. "" \in Texts /\ RouteRows \subseteq (Nat \cup {-1}) \X Texts
      BY MessagesAssumption
    <3>2. row \in (Nat \cup {-1}) \X Texts
      BY <3>1
    <3>3. row[1] \in Nat \cup {-1} /\ row[2] \in Texts
      BY <3>2
    <3>4. row[1] \in Int
      BY <3>3
    <3>. QED
      BY <3>1, <3>3, <3>4
  <2>4. fields["next_system"] \in Texts
    BY StatusFields
  <2>5. \E new \in Texts : fields' = [fields EXCEPT !["next_system"] = new]
    BY <2>1, <2>3, <2>4
  <2>. QED
    BY <2>1, <2>2, <2>3, <2>5
<1>. QED
  BY <1>1, <1>2

-------------------------------------------------------------------------------
\* Every message received.

LEMMA ReceivedTypes ==
  ASSUME TelemetryTypeOK, NEW m, Sent(m), Receive(m)
  PROVE  TelemetryTypeOK'
<1>1. /\ HandleState(ObjectText(m)) /\ HandleButtons(ObjectText(m)) /\ message' = m
      /\ before' = [fields |-> fields, flags |-> flags, pips |-> pips, lit |-> lit]
  BY DEF Receive
<1>2. PICK t : t = Tokens(ObjectText(m))
  OBVIOUS
<1>3. /\ fields \in [TextFields -> Texts] /\ jumps \in Int
      /\ flags \in [Flags -> BOOLEAN] /\ pips \in [1 .. 3 -> Int]
      /\ lit \in SUBSET (0 .. 23)
  BY DEF TelemetryTypeOK
<1>4. /\ fields' \in [TextFields -> Texts] /\ jumps' \in Int
      /\ flags' \in [Flags -> BOOLEAN] /\ pips' \in [1 .. 3 -> Int] /\ recognized' \in BOOLEAN
  <2>1. CASE UNCHANGED <<fields, jumps, flags, pips>> /\ recognized' = FALSE
    BY <1>3, <2>1
  <2>2. CASE t # <<>> /\ recognized' = TRUE /\ ParseStatus(t)
    <3>1. fields' \in [TextFields -> Texts]
      BY <1>2, <1>3, <2>2, StatusParsed
    <3>2. jumps' \in Int
      BY <1>3, <2>2, AtoiIsInt DEF ParseStatus, IntegerKey
    <3>3. UNCHANGED <<flags, pips>>
      BY <2>2 DEF ParseStatus
    <3>. QED
      BY <1>3, <2>2, <3>1, <3>2, <3>3
  <2>3. CASE t # <<>> /\ recognized' = TRUE /\ ParseIndicator(t)
    <3>1. /\ fields' \in [TextFields -> Texts] /\ flags' \in [Flags -> BOOLEAN]
          /\ pips' = IF Has(m, "ValidPips") /\ ~True(m, "ValidPips") THEN <<0, 0, 0>>
                     ELSE IF Has(m, "Pips")
                       THEN [i \in 1 .. 3 |-> Atoi(Get(m, "Pips")[2 * i][2])] ELSE pips
      BY <1>2, <1>3, <2>3, IndicatorParsed
    <3>2. <<0, 0, 0>> \in [1 .. 3 -> Int]
      OBVIOUS
    <3>3. [i \in 1 .. 3 |-> Atoi(Get(m, "Pips")[2 * i][2])] \in [1 .. 3 -> Int]
      BY AtoiIsInt
    <3>4. jumps' = jumps
      BY <2>3 DEF ParseIndicator
    <3>5. pips' \in [1 .. 3 -> Int]
      BY <1>3, <3>1, <3>2, <3>3
    <3>. QED
      BY <1>3, <2>3, <3>1, <3>4, <3>5
  <2>4. CASE t # <<>> /\ recognized' = TRUE /\ ParseGenericUi(t)
    BY <1>2, <1>3, <2>4, GenericParsed
  <2>5. CASE ParseJournalRoute
    BY <1>3, <2>5, JournalParsed
  <2>. QED
    BY <1>1, <1>2, <2>1, <2>2, <2>3, <2>4, <2>5, StateHandled
<1>5. lit' \in SUBSET (0 .. 23)
  BY <1>1, <1>3, ButtonsHandled
<1>6. changed' \in SUBSET (0 .. 23)
  <2>1. changed' = (lit \ lit') \cup (lit' \ lit)
    BY <1>1 DEF HandleButtons
  <2>. QED
    BY <1>3, <1>5, <2>1
<1>7. before' \in [fields : [TextFields -> Texts], flags : [Flags -> BOOLEAN],
                 pips : [1 .. 3 -> Int], lit : SUBSET (0 .. 23)]
  BY <1>1, <1>3
<1>. QED
  BY <1>1, <1>4, <1>5, <1>6, <1>7 DEF TelemetryTypeOK

LEMMA ReceivedAgrees ==
  ASSUME TelemetryTypeOK, NEW m, Sent(m), Receive(m)
  PROVE  MembersFound'
<1>1. /\ HandleState(ObjectText(m)) /\ HandleButtons(ObjectText(m)) /\ message' = m
      /\ before' = [fields |-> fields, flags |-> flags, pips |-> pips, lit |-> lit]
  BY DEF Receive
<1>2. PICK t : t = Tokens(ObjectText(m))
  OBVIOUS
<1>3. /\ fields \in [TextFields -> Texts] /\ lit \in SUBSET (0 .. 23)
      /\ flags \in [Flags -> BOOLEAN] /\ pips \in [1 .. 3 -> Int]
  BY DEF TelemetryTypeOK
<1>4. TooLong(m) <=> t = <<>>
  BY <1>2 DEF TooLong
<1>5. before'.flags = flags /\ before'.pips = pips /\ before'.lit = lit
  BY <1>1
<1>6. ~Shadowed(m, "responsetype") =>
        IF Response(m) \in IndicatorResponses
          THEN \A i \in 0 .. 23 :
                 Readable(i, m) => (i \in lit' <=> ShouldLight(TileNames[i + 1], m))
          ELSE lit' = lit
  BY <1>1, <1>3, ButtonsHandled
<1>7. ASSUME Response(m) \in IndicatorResponses, t = <<>>
      PROVE  flags' = flags /\ pips' = pips /\ recognized' = FALSE
  BY <1>1, <1>2, <1>7, StateHandled
<1>8. ASSUME Response(m) \in IndicatorResponses, t # <<>>
      PROVE  /\ \A f \in Flags :
                  flags'[f] = IF Has(m, FlagKeys[f]) THEN True(m, FlagKeys[f]) ELSE flags[f]
             /\ pips' = IF Has(m, "ValidPips") /\ ~True(m, "ValidPips") THEN <<0, 0, 0>>
                        ELSE IF Has(m, "Pips")
                          THEN [i \in 1 .. 3 |-> Atoi(Get(m, "Pips")[2 * i][2])] ELSE pips
             /\ recognized' = TRUE
  <2>1. recognized' = TRUE /\ ParseIndicator(t)
    BY <1>1, <1>2, <1>8, StateHandled
  <2>. QED
    BY <1>2, <1>3, <1>8, <2>1, IndicatorParsed
<1>. QED
  BY <1>1, <1>4, <1>5, <1>6, <1>7, <1>8 DEF MembersFound

LEMMA ReceivedFollows ==
  ASSUME TelemetryTypeOK, NEW m, Sent(m), Receive(m)
  PROVE  FieldsFollow'
<1>1. /\ HandleState(ObjectText(m)) /\ message' = m
      /\ before' = [fields |-> fields, flags |-> flags, pips |-> pips, lit |-> lit]
  BY DEF Receive
<1>2. PICK t : t = Tokens(ObjectText(m))
  OBVIOUS
<1>3. /\ fields \in [TextFields -> Texts] /\ jumps \in Int
      /\ flags \in [Flags -> BOOLEAN] /\ pips \in [1 .. 3 -> Int]
  BY DEF TelemetryTypeOK
<1>4. TooLong(m) <=> t = <<>>
  BY <1>2 DEF TooLong
<1>5. before'.fields = fields
  BY <1>1
<1> DEFINE After(now) ==
      /\ IF Response(m) = "status" /\ t # <<>>
           THEN \A f \in DOMAIN StatusKeys :
                  now[f] = IF Own(m, f) = <<>> THEN fields[f] ELSE Own(m, f)[1][2]
           ELSE \A f \in DOMAIN StatusKeys : now[f] = fields[f]
      /\ now["legal_state"] # fields["legal_state"] =>
           /\ Response(m) \in IndicatorResponses
           /\ now["legal_state"] = Get(m, "LegalState")[1][2]
      /\ now["next_system"] # fields["next_system"] =>
           \/ Response(m) \in {"genericui"} \cup JournalResponses
           \/ /\ Response(m) = "status"
              /\ Get(m, "FSDJumpNextSystemName") = <<Str(now["next_system"])>>
      /\ now # fields => t # <<>>
<1>6. After(fields')
  <2>1. CASE t = <<>>
    <3>1. fields' = fields
      BY <1>1, <1>2, <2>1, StateHandled
    <3>. QED
      BY <2>1, <3>1
  <2>2. CASE t # <<>> /\ Response(m) = "status"
    <3>1. ParseStatus(t)
      BY <1>1, <1>2, <2>2, StateHandled
    <3>2. /\ \A f \in DOMAIN StatusKeys :
               fields'[f] = IF Own(m, f) = <<>> THEN fields[f] ELSE Own(m, f)[1][2]
          /\ fields'["next_system"] # fields["next_system"] =>
               Get(m, "FSDJumpNextSystemName") = <<Str(fields'["next_system"])>>
          /\ fields'["legal_state"] = fields["legal_state"]
      BY <1>2, <1>3, <2>2, <3>1, StatusParsed
    <3>. QED
      BY <2>2, <3>2
  <2>3. CASE t # <<>> /\ Response(m) \in IndicatorResponses
    <3>1. ParseIndicator(t) /\ Response(m) # "status"
      BY <1>1, <1>2, <2>3, StateHandled DEF IndicatorResponses
    <3>2. /\ \A f \in DOMAIN StatusKeys \cup {"next_system"} : fields'[f] = fields[f]
          /\ fields'["legal_state"] # fields["legal_state"] =>
               fields'["legal_state"] = Get(m, "LegalState")[1][2]
      BY <1>2, <1>3, <2>3, <3>1, IndicatorParsed
    <3>. QED
      BY <2>3, <3>1, <3>2
  <2>4. CASE t # <<>> /\ Response(m) \in {"genericui"} \cup JournalResponses
    <3>1. Response(m) # "status"
      BY <2>4 DEF JournalResponses
    <3>2. ParseGenericUi(t) \/ ParseJournalRoute
      <4>1. CASE Response(m) = "genericui"
        BY <1>1, <1>2, <2>4, <4>1, StateHandled
      <4>2. CASE Response(m) \in JournalResponses
        BY <1>1, <1>2, <2>4, <4>2, StateHandled
      <4>. QED
        BY <2>4, <4>1, <4>2
    <3>3. \A f \in TextFields \ {"next_system"} : fields'[f] = fields[f]
      BY <1>2, <1>3, <2>4, <3>2, GenericParsed, JournalParsed
    <3>4. /\ \A f \in DOMAIN StatusKeys : f \in TextFields \ {"next_system"}
          /\ "legal_state" \in TextFields \ {"next_system"}
      BY StatusFields
    <3>. QED
      BY <2>4, <3>1, <3>3, <3>4
  <2>5. CASE t # <<>> /\ Response(m) \notin
               {"status", "genericui"} \cup IndicatorResponses \cup JournalResponses
    <3>1. fields' = fields
      BY <1>1, <1>2, <2>5, StateHandled
    <3>. QED
      BY <2>5, <3>1
  <2>. QED
    BY <2>1, <2>2, <2>3, <2>4, <2>5
<1>. QED
  BY <1>1, <1>4, <1>5, <1>6 DEF FieldsFollow

LEMMA StartTypes == TelemetryInit => TelemetryTypeOK
<1> SUFFICES ASSUME TelemetryInit PROVE TelemetryTypeOK
  OBVIOUS
<1>1. "" \in Texts
  BY MessagesAssumption
<1>2. [f \in TextFields |-> ""] \in [TextFields -> Texts]
  BY <1>1
<1>3. [f \in Flags |-> FALSE] \in [Flags -> BOOLEAN] /\ <<0, 0, 0>> \in [1 .. 3 -> Int]
  OBVIOUS
<1>4. PICK F, G, p : /\ F = [f \in TextFields |-> ""] /\ G = [f \in Flags |-> FALSE]
                     /\ p = <<0, 0, 0>>
  OBVIOUS
<1>5. /\ fields = F /\ jumps = -1 /\ flags = G /\ pips = p /\ lit = {} /\ changed = {}
      /\ recognized = FALSE /\ message = <<>>
      /\ before = [fields |-> F, flags |-> G, pips |-> p, lit |-> {}]
  BY <1>4 DEF TelemetryInit
<1>6. /\ F \in [TextFields -> Texts] /\ G \in [Flags -> BOOLEAN] /\ p \in [1 .. 3 -> Int]
  BY <1>2, <1>3, <1>4
<1>7. -1 \in Int /\ {} \in SUBSET (0 .. 23) /\ FALSE \in BOOLEAN
  OBVIOUS
<1>8. before \in [fields : [TextFields -> Texts], flags : [Flags -> BOOLEAN],
                pips : [1 .. 3 -> Int], lit : SUBSET (0 .. 23)]
  BY <1>5, <1>6, <1>7
<1>9. jumps \in Int /\ lit \in SUBSET (0 .. 23) /\ changed \in SUBSET (0 .. 23)
  BY <1>5, <1>7
<1>. QED
  BY <1>5, <1>6, <1>8, <1>9 DEF TelemetryTypeOK

LEMMA RestartTypes == Restart => TelemetryTypeOK'
<1> SUFFICES ASSUME Restart PROVE TelemetryTypeOK'
  OBVIOUS
<1>1. "" \in Texts
  BY MessagesAssumption
<1>2. [f \in TextFields |-> ""] \in [TextFields -> Texts]
  BY <1>1
<1>3. [f \in Flags |-> FALSE] \in [Flags -> BOOLEAN] /\ <<0, 0, 0>> \in [1 .. 3 -> Int]
  OBVIOUS
<1>4. PICK F, G, p : /\ F = [f \in TextFields |-> ""] /\ G = [f \in Flags |-> FALSE]
                     /\ p = <<0, 0, 0>>
  OBVIOUS
<1>5. /\ fields' = F /\ jumps' = -1 /\ flags' = G /\ pips' = p /\ lit' = {} /\ changed' = {}
      /\ recognized' = FALSE /\ message' = <<>>
      /\ before' = [fields |-> F, flags |-> G, pips |-> p, lit |-> {}]
  BY <1>4 DEF Restart
<1>6. /\ F \in [TextFields -> Texts] /\ G \in [Flags -> BOOLEAN] /\ p \in [1 .. 3 -> Int]
  BY <1>2, <1>3, <1>4
<1>7. -1 \in Int /\ {} \in SUBSET (0 .. 23) /\ FALSE \in BOOLEAN
  OBVIOUS
<1>8. before' \in [fields : [TextFields -> Texts], flags : [Flags -> BOOLEAN],
                pips : [1 .. 3 -> Int], lit : SUBSET (0 .. 23)]
  BY <1>5, <1>6, <1>7
<1>9. jumps' \in Int /\ lit' \in SUBSET (0 .. 23) /\ changed' \in SUBSET (0 .. 23)
  BY <1>5, <1>7
<1>. QED
  BY <1>5, <1>6, <1>8, <1>9 DEF TelemetryTypeOK

LEMMA StepReceives ==
  ASSUME TelemetryNext
  PROVE  Restart \/ \E m : Sent(m) /\ Receive(m)
<1>1. CASE ReceiveFirst
  BY <1>1, FirstSent DEF ReceiveFirst
<1>2. CASE ReceiveNext
  BY <1>2, MessagesSent DEF ReceiveNext
<1>3. CASE Restart
  BY <1>3
<1>. QED
  BY <1>1, <1>2, <1>3 DEF TelemetryNext

-------------------------------------------------------------------------------
\* Theorems.

\* Whatever is received, every field of the Display is a text, a number or a
\* flag, the tiles lit are tiles, and the message is one of those assumed
\* (edd_state_handle_json, edd_buttons_handle_json).
THEOREM TelemetryTypes == TelemetrySpec => []TelemetryTypeOK
<1>1. TelemetryInit => TelemetryTypeOK
  BY StartTypes
<1>2. TelemetryTypeOK /\ [TelemetryNext]_telemetryVars => TelemetryTypeOK'
  <2> SUFFICES ASSUME TelemetryTypeOK, [TelemetryNext]_telemetryVars PROVE TelemetryTypeOK'
    OBVIOUS
  <2>1. CASE TelemetryNext
    BY <2>1, StepReceives, RestartTypes, ReceivedTypes
  <2>2. CASE UNCHANGED telemetryVars
    BY <2>2 DEF TelemetryTypeOK, telemetryVars
  <2>. QED
    BY <2>1, <2>2
<1>. QED
  BY <1>1, <1>2, PTL DEF TelemetrySpec

\* The Keyboard's search of the text and the Display's walk of the tokens find the
\* members meant: after an indicator every tile none of whose keys is shadowed by
\* a nested one is lit as the message says, other messages leave the tiles alone,
\* and the flags and pips are the indicator's own (find_value, find_key).
THEOREM BothParsersFind == TelemetrySpec => []MembersFound
<1>1. TelemetryInit => MembersFound
  BY DEF TelemetryInit, MembersFound
<1>2. TelemetryTypeOK /\ MembersFound /\ [TelemetryNext]_telemetryVars => MembersFound'
  <2> SUFFICES ASSUME TelemetryTypeOK, MembersFound, [TelemetryNext]_telemetryVars
               PROVE  MembersFound'
    OBVIOUS
  <2>1. CASE TelemetryNext
    <3>1. CASE Restart
      BY <3>1 DEF Restart, MembersFound
    <3>2. CASE \E m : Sent(m) /\ Receive(m)
      BY <3>2, ReceivedAgrees
    <3>. QED
      BY <2>1, <3>1, <3>2, StepReceives
  <2>2. CASE UNCHANGED telemetryVars
    BY <2>2 DEF MembersFound, telemetryVars
  <2>. QED
    BY <2>1, <2>2
<1>. QED
  BY <1>1, <1>2, TelemetryTypes, PTL DEF TelemetrySpec

\* A status changes a text of the Display to that of its own object and key and no
\* other message does; the legal state follows the indicators alone; the next
\* system changes by a message about the route, or by a status and then to a
\* string; a message with too many tokens changes no text (edd_state_handle_json,
\* parse_status, parse_indicator, parse_generic_ui, parse_journal_route).
THEOREM FieldsFollowTheStatus == TelemetrySpec => []FieldsFollow
<1>1. TelemetryInit => FieldsFollow
  BY DEF TelemetryInit, FieldsFollow
<1>2. TelemetryTypeOK /\ FieldsFollow /\ [TelemetryNext]_telemetryVars => FieldsFollow'
  <2> SUFFICES ASSUME TelemetryTypeOK, FieldsFollow, [TelemetryNext]_telemetryVars
               PROVE  FieldsFollow'
    OBVIOUS
  <2>1. CASE TelemetryNext
    <3>1. CASE Restart
      BY <3>1 DEF Restart, FieldsFollow
    <3>2. CASE \E m : Sent(m) /\ Receive(m)
      BY <3>2, ReceivedFollows
    <3>. QED
      BY <2>1, <3>1, <3>2, StepReceives
  <2>2. CASE UNCHANGED telemetryVars
    BY <2>2 DEF FieldsFollow, telemetryVars
  <2>. QED
    BY <2>1, <2>2
<1>. QED
  BY <1>1, <1>2, TelemetryTypes, PTL DEF TelemetrySpec
===============================================================================
