----------------------------- MODULE EddRouteProofs -----------------------------
(***************************************************************************)
(* Theorems about EddRoute, for every set of systems and routes, whatever  *)
(* is filed late, and any number of events, rows and messages on the wire. *)
(*                                                                         *)
(* The invariant relates three things: what is shown and the event it is   *)
(* about; the messages on the wire among each other; and, while no route   *)
(* is shown, the time of the route and the plots after it.                 *)
(***************************************************************************)
EXTENDS EddRoute, SequenceTheorems, WellFoundedInduction, TLAPS

-------------------------------------------------------------------------------
\* The history.

HistoryOK ==
  /\ history \in Seq(Events)
  /\ \A v \in 1 .. Now :
       /\ history[v].event = "NavRoute" => history[v].route \in Routes
       /\ history[v].event # "NavRoute" => history[v].route = <<>>

\* Among some events there is a newest one.
LEMMA NewestIs ==
  ASSUME NEW lo \in Nat, NEW hi \in Nat, NEW S \in SUBSET (lo .. hi), S # {}
  PROVE  /\ Newest(S) \in S /\ \A j \in S : j <= Newest(S)
         /\ Newest(S) \in lo .. hi
  <1> DEFINE T == {hi - i : i \in S}
  <1>1. T \subseteq Nat /\ T # {}
    OBVIOUS
  <1>2. PICK x \in T : \A y \in T : ~(<<y, x>> \in OpToRel(<, Nat))
    BY <1>1, NatLessThanWellFounded, WFMin
  <1>3. \A y \in T : ~(y < x)
    BY <1>1, <1>2 DEF OpToRel
  <1>4. PICK i \in S : x = hi - i
    OBVIOUS
  <1>5. ASSUME NEW j \in S PROVE j <= i
    <2>1. hi - j \in T
      OBVIOUS
    <2>2. ~(hi - j < hi - i)
      BY <1>3, <1>4, <2>1
    <2>3. i \in Int /\ j \in Int
      OBVIOUS
    <2>. QED
      BY <2>2, <2>3
  <1>6. \E n \in S : \A j \in S : j <= n
    BY <1>5
  <1>. QED
    BY <1>6 DEF Newest

\* Two newest events of the same kind are the same.
LEMMA NewestIsOne ==
  ASSUME NEW lo \in Nat, NEW hi \in Nat, NEW S \in SUBSET (lo .. hi),
         NEW n \in S, \A j \in S : j <= n
  PROVE  Newest(S) = n
  <1>1. Newest(S) \in S /\ \A j \in S : j <= Newest(S)
    BY NewestIs
  <1>2. S \subseteq Int
    OBVIOUS
  <1>3. PICK k \in Int : k = Newest(S)
    BY <1>1, <1>2
  <1>4. k <= n /\ n <= k /\ n \in Int
    BY <1>1, <1>2, <1>3
  <1>. QED
    BY <1>3, <1>4

LEMMA NowIsNat == HistoryOK => Now \in Nat
BY DEF HistoryOK, Now

LEMMA RouteType ==
  ASSUME HistoryOK, NEW v \in 1 .. Now
  PROVE  history[v].route \in Routes \cup {<<>>} /\ history[v].route \in Seq(Systems)
  <1>1. <<>> \in Seq(Systems) /\ Routes \subseteq Seq(Systems)
    BY FeedAssumption
  <1>2. history[v].route \in Routes \cup {<<>>}
    BY DEF HistoryOK
  <1>. QED
    BY <1>1, <1>2

LEMMA LeftType ==
  ASSUME NEW r \in Seq(Systems), NEW n \in Nat
  PROVE  /\ Left(r, n) \in Nat
         /\ Left(r, n) > 0 => n + 1 \in 1 .. Len(r) /\ r[n + 1] \in Systems
BY DEF Left

\* What is true after an event has its type.
LEMMA AtTypes ==
  ASSUME HistoryOK, NEW v \in 0 .. Now
  PROVE  /\ RouteAt(v) \in Seq(Systems)
         /\ RouteAt(v) # <<>> => JumpsAt(v) \in Nat
         /\ CountAt(v) \in Nat \cup {NoCount}
         /\ NextAt(v) \in Systems \cup {NoName}
  <1>0. Now \in Nat
    BY NowIsNat
  <1>1. Plots(1, v) \in SUBSET (1 .. v)
    BY DEF Plots
  <1>2. CASE Plots(1, v) = {}
    BY <1>2 DEF RouteAt, CountAt, NextAt, NoCount
  <1>3. CASE Plots(1, v) # {}
    <2>1. Newest(Plots(1, v)) \in 1 .. v
      BY <1>0, <1>1, <1>3, NewestIs
    <2>2. RouteAt(v) \in Seq(Systems) /\ JumpsAt(v) \in Nat
      BY <1>0, <1>3, <2>1, RouteType DEF RouteAt, JumpsAt
    <2>3. Left(RouteAt(v), JumpsAt(v)) \in Nat
      BY <2>2, LeftType
    <2>4. CountAt(v) \in Nat \cup {NoCount}
      BY <2>3 DEF CountAt
    <2>5. ASSUME CountAt(v) > 0 PROVE RouteAt(v)[JumpsAt(v) + 1] \in Systems
      <3>1. CountAt(v) = Left(RouteAt(v), JumpsAt(v))
        BY <2>5 DEF CountAt, NoCount
      <3>. QED
        BY <2>2, <2>5, <3>1, LeftType
    <2>. QED
      BY <2>2, <2>4, <2>5 DEF NextAt
  <1>. QED
    BY <1>2, <1>3

\* A plot or clear in a range of rows that is the newest there is the newest of
\* all before the end of the range.
LEMMA RowIsNewest ==
  ASSUME HistoryOK, NEW lo \in 1 .. Now + 1, NEW hi \in 0 .. Now, Plots(lo, hi) # {}
  PROVE  /\ Newest(Plots(lo, hi)) \in lo .. hi
         /\ Newest(Plots(lo, hi)) \in 1 .. Now
         /\ history[Newest(Plots(lo, hi))].event # "FSDJump"
         /\ Plots(1, hi) # {} /\ Newest(Plots(1, hi)) = Newest(Plots(lo, hi))
         /\ \A t \in Newest(Plots(lo, hi)) + 1 .. hi : history[t].event # "NavRoute"
  <1> DEFINE S == Plots(lo, hi)
             n == Newest(S)
  <1>0. Now \in Nat /\ lo \in Nat /\ hi \in Nat
    BY NowIsNat
  <1>1. S \in SUBSET (lo .. hi) /\ Plots(1, hi) \in SUBSET (1 .. hi) /\ S \subseteq Plots(1, hi)
    BY <1>0 DEF Plots
  <1>2. n \in S /\ n \in lo .. hi /\ \A j \in S : j <= n
    BY <1>0, <1>1, NewestIs
  <1>3. \A j \in Plots(1, hi) : j <= n
    BY <1>0, <1>1, <1>2 DEF Plots
  <1>4. n \in Plots(1, hi)
    BY <1>1, <1>2
  <1>5. Newest(Plots(1, hi)) = n
    BY <1>0, <1>1, <1>3, <1>4, NewestIsOne
  <1>6. n \in 1 .. Now /\ history[n].event # "FSDJump"
    BY <1>0, <1>2 DEF Plots
  <1> HIDE DEF n
  <1>7. ASSUME NEW t \in n + 1 .. hi PROVE history[t].event # "NavRoute"
    <2>1. t \notin Plots(1, hi) /\ t \in 1 .. hi
      BY <1>0, <1>2, <1>3
    <2>. QED
      BY <2>1 DEF Plots
  <1>. QED
    BY <1>2, <1>4, <1>5, <1>6, <1>7 DEF n

\* A later event does not change what was true after an earlier one.
LEMMA PastStays ==
  ASSUME HistoryOK, NEW e, history' = Append(history, e), NEW v \in 0 .. Now
  PROVE  /\ RouteAt(v)' = RouteAt(v) /\ CountAt(v)' = CountAt(v)
         /\ Now' = Now + 1 /\ \A t \in 1 .. Now : history'[t] = history[t]
  <1>1. Now' = Now + 1 /\ Now \in Nat /\ \A t \in 1 .. Now : history'[t] = history[t]
    BY NowIsNat, AppendProperties DEF HistoryOK, Now
  <1>2. v \in Nat /\ v <= Now
    BY <1>1
  <1>3. \A t \in 1 .. v : t \in 1 .. Now
    BY <1>1, <1>2
  <1>4. v \in Nat /\ \A t \in 1 .. v : history'[t] = history[t]
    BY <1>1, <1>2, <1>3
  <1>5. Plots(1, v)' = Plots(1, v) /\ Plots(1, v) \in SUBSET (1 .. v)
    BY <1>4 DEF Plots
  <1>6. Newest(Plots(1, v))' = Newest(Plots(1, v))
    BY <1>5 DEF Newest
  <1>7. RouteAt(v)' = RouteAt(v)
    <2>1. CASE Plots(1, v) = {}
      BY <1>5, <2>1 DEF RouteAt
    <2>2. CASE Plots(1, v) # {}
      <3>1. Newest(Plots(1, v)) \in 1 .. v
        BY <1>4, <1>5, <2>2, NewestIs
      <3>. QED
        BY <1>4, <1>5, <1>6, <2>2, <3>1 DEF RouteAt
    <2>. QED
      BY <2>1, <2>2
  <1>8. CountAt(v)' = CountAt(v)
    BY <1>6, <1>7 DEF CountAt, JumpsAt
  <1>. QED
    BY <1>1, <1>7, <1>8

LEMMA HistoryStays ==
  ASSUME history' = history
  PROVE  /\ \A v : /\ RouteAt(v)' = RouteAt(v) /\ CountAt(v)' = CountAt(v)
         /\ Now' = Now /\ Messages' = Messages /\ HistoryOK' = HistoryOK
  <1>1. Now' = Now
    BY DEF Now
  <1>2. \A lo, hi : Plots(lo, hi)' = Plots(lo, hi)
    BY DEF Plots
  <1>3. \A lo, hi : Newest(Plots(lo, hi))' = Newest(Plots(lo, hi))
    BY <1>2 DEF Newest
  <1>4. \A v : RouteAt(v)' = RouteAt(v)
    BY <1>2, <1>3 DEF RouteAt
  <1>5. \A v : CountAt(v)' = CountAt(v)
    BY <1>3, <1>4 DEF CountAt, JumpsAt
  <1>6. Messages' = Messages
    BY <1>1 DEF Messages
  <1>7. HistoryOK' = HistoryOK
    BY <1>1 DEF HistoryOK
  <1>. QED
    BY <1>1, <1>4, <1>5, <1>6, <1>7

-------------------------------------------------------------------------------
\* Types, and what a message on the wire is about.

\* A live push of a clear is about a clear; one of a target with a count, and a
\* status with one, about a route.
MessageOK(m) ==
  /\ m.kind \in {"target", "status"} /\ m.count
       => \A v \in 0 .. Now : v = m.hi => CountAt(v) # NoCount
  /\ m.kind = "clear"
       => \A v \in 1 .. Now : v = m.hi => history[v].event = "NavRouteClear"

FeedInv ==
  /\ HistoryOK
  /\ filed \in 0 .. Now /\ link \in BOOLEAN
  /\ wire \in Seq(Messages)
  /\ \A i \in 1 .. Len(wire) : MessageOK(wire[i])

ShownOK ==
  /\ target \in Systems \cup {NoName} /\ next \in Systems \cup {NoName}
  /\ remaining \in Nat \cup {NoCount}
  /\ eventTime \in 0 .. Now /\ seen \in 0 .. Now /\ generation \in 0 .. 1

LEMMA MessageShape ==
  ASSUME HistoryOK, NEW m \in Messages
  PROVE  /\ m.kind \in {"target", "clear", "journal", "status"}
         /\ m.hi \in 0 .. Now
         /\ m.kind \in {"target", "clear"} => m.hi \in 1 .. Now
         /\ m.kind = "journal" => m.lo \in 1 .. Now + 1
         /\ m.kind \in {"target", "status"} => m.count \in BOOLEAN
         /\ m.kind = "status" => m.next \in BOOLEAN
  <1>0. Now \in Nat
    BY NowIsNat
  <1>1. CASE m \in [kind : {"target"}, hi : 1 .. Now, count : BOOLEAN]
    BY <1>0, <1>1
  <1>4. CASE m \in [kind : {"clear"}, hi : 1 .. Now]
    BY <1>0, <1>4
  <1>2. CASE m \in [kind : {"journal"}, lo : 1 .. Now + 1, hi : 0 .. Now]
    BY <1>0, <1>2
  <1>3. CASE m \in [kind : {"status"}, hi : 0 .. Now, count : BOOLEAN, next : BOOLEAN]
    BY <1>0, <1>3
  <1>. QED
    BY <1>1, <1>2, <1>3, <1>4 DEF Messages

\* A message that is taken off the wire.
LEMMA TakeFacts ==
  ASSUME FeedInv, NEW kind, Take(kind)
  PROVE  /\ Head(wire) = wire[1] /\ wire[1] \in Messages /\ wire[1].kind = kind
         /\ MessageOK(wire[1]) /\ Len(wire) \in Nat \ {0}
         /\ Len(wire') = Len(wire) - 1
         /\ \A i \in 1 .. Len(wire') : wire'[i] = wire[i + 1] /\ i + 1 \in 1 .. Len(wire)
         /\ history' = history /\ FeedInv'
  <1>1. /\ wire \in Seq(Messages) /\ wire # <<>> /\ Len(wire) \in Nat \ {0}
        /\ history' = history /\ filed' = filed /\ link' = link
        /\ wire' = Tail(wire) /\ Head(wire).kind = kind
    BY DEF FeedInv, Take
  <1>2. /\ Head(wire) = wire[1] /\ wire[1] \in Messages
        /\ wire' \in Seq(Messages) /\ Len(wire') = Len(wire) - 1
        /\ \A i \in 1 .. Len(wire') : wire'[i] = wire[i + 1] /\ i + 1 \in 1 .. Len(wire)
    BY <1>1, HeadTailProperties
  <1>3. MessageOK(wire[1])
    BY <1>1 DEF FeedInv
  <1>4. ASSUME NEW m, MessageOK(m) PROVE MessageOK(m)'
    BY <1>1, <1>4, HistoryStays DEF MessageOK
  <1>5. \A i \in 1 .. Len(wire') : MessageOK(wire'[i])
    BY <1>2 DEF FeedInv
  <1>6. ASSUME NEW i \in 1 .. Len(wire') PROVE MessageOK(wire[i])'
    <2>1. PICK m : m = wire'[i]
      OBVIOUS
    <2>2. MessageOK(m)'
      BY <1>4, <1>5, <2>1
    <2>. QED
      BY <2>1, <2>2 DEF MessageOK
  <1>. QED
    BY <1>1, <1>2, <1>3, <1>6, HistoryStays DEF FeedInv

\* Messages put on the wire.
LEMMA PutFacts ==
  ASSUME FeedInv, NEW m \in Messages, MessageOK(m), Put(<<m>>),
         UNCHANGED <<history, link>>, filed' \in 0 .. Now
  PROVE  /\ FeedInv' /\ Len(wire) \in Nat /\ Len(wire') = Len(wire) + 1
         /\ \A i \in 1 .. Len(wire) : wire'[i] = wire[i]
         /\ wire'[Len(wire) + 1] = m
  <1>1. /\ wire \in Seq(Messages) /\ <<m>> \in Seq(Messages) /\ Len(<<m>>) = 1
        /\ wire' = wire \o <<m>> /\ Len(wire) \in Nat
    BY DEF FeedInv, Put
  <1>2. wire' = Append(wire, m)
    BY <1>1, AppendIsConcat
  <1>3. /\ wire' \in Seq(Messages) /\ Len(wire') = Len(wire) + 1
        /\ \A i \in 1 .. Len(wire) : wire'[i] = wire[i]
        /\ wire'[Len(wire) + 1] = m
    BY <1>1, <1>2, AppendProperties
  <1>4. ASSUME NEW n, MessageOK(n) PROVE MessageOK(n)'
    BY <1>4, HistoryStays DEF MessageOK
  <1>5. ASSUME NEW i \in 1 .. Len(wire') PROVE MessageOK(wire[i])'
    <2>1. PICK n : n = wire'[i]
      OBVIOUS
    <2>2. MessageOK(n)
      BY <1>1, <1>3, <2>1 DEF FeedInv
    <2>3. MessageOK(n)'
      BY <1>4, <2>2
    <2>. QED
      BY <2>1, <2>3 DEF MessageOK
  <1>. QED
    BY <1>1, <1>3, <1>5, HistoryStays DEF FeedInv

\* Messages keep their meaning when the game goes on.
LEMMA HappenFacts ==
  ASSUME FeedInv,
         NEW event \in {"NavRoute", "FSDJump", "NavRouteClear"}, NEW r,
         IF event = "NavRoute" THEN r \in Routes ELSE r = <<>>,
         Happen(event, r)
  PROVE  FeedInv'
  <1> DEFINE e == [event |-> event, route |-> r]
  <1>1. e \in Events
    BY DEF Events
  <1>2. /\ history \in Seq(Events) /\ history' = Append(history, e)
        /\ filed' = filed /\ link' = link /\ wire' = wire
    BY DEF Happen, FeedInv, HistoryOK
  <1>3. /\ Now' = Now + 1 /\ Now \in Nat /\ history' \in Seq(Events)
        /\ \A v \in 1 .. Now : history'[v] = history[v]
        /\ history'[Now + 1] = e
    BY <1>1, <1>2, AppendProperties DEF Now
  <1>4. HistoryOK'
    <2> SUFFICES ASSUME NEW v \in 1 .. Now + 1
                 PROVE  /\ history'[v].event = "NavRoute" => history'[v].route \in Routes
                        /\ history'[v].event # "NavRoute" => history'[v].route = <<>>
      BY <1>3 DEF HistoryOK
    <2>1. CASE v \in 1 .. Now
      BY <1>3, <2>1 DEF HistoryOK, FeedInv
    <2>2. CASE v = Now + 1
      BY <1>3, <2>2
    <2>. QED
      BY <1>3, <2>1, <2>2
  <1>5. Messages \subseteq Messages'
    BY <1>3 DEF Messages
  <1>6. wire' \in Seq(Messages')
    BY <1>2, <1>5, SeqMonotonic DEF FeedInv
  <1>7. \A v \in 0 .. Now : CountAt(v)' = CountAt(v)
    BY <1>2, PastStays DEF FeedInv
  <1>8. ASSUME NEW m \in Messages, MessageOK(m) PROVE MessageOK(m)'
    <2>1. m.hi \in 0 .. Now /\ (m.kind = "clear" => m.hi \in 1 .. Now)
      BY MessageShape DEF FeedInv
    <2>2. \A v \in 0 .. Now + 1 : v = m.hi => v \in 0 .. Now
      BY <2>1
    <2>3. m.kind = "clear" => \A v \in 1 .. Now + 1 : v = m.hi => v \in 1 .. Now
      BY <2>1
    <2>. QED
      BY <1>3, <1>7, <1>8, <2>2, <2>3 DEF MessageOK
  <1>9. ASSUME NEW i \in 1 .. Len(wire') PROVE MessageOK(wire[i])'
    <2>1. PICK n : n = wire'[i]
      OBVIOUS
    <2>2. MessageOK(n) /\ n \in Messages
      BY <1>2, <2>1 DEF FeedInv
    <2>3. MessageOK(n)'
      BY <1>8, <2>2
    <2>. QED
      BY <2>1, <2>3 DEF MessageOK
  <1>. QED
    BY <1>2, <1>3, <1>4, <1>6, <1>9 DEF FeedInv

\* A journal message is right whatever rows it has.
LEMMA JournalFacts ==
  ASSUME HistoryOK, NEW lo \in 1 .. Now + 1, NEW hi \in 0 .. Now
  PROVE  Journal(lo, hi) \in Messages /\ MessageOK(Journal(lo, hi))
BY DEF Journal, Messages, MessageOK

LEMMA RecentFacts ==
  ASSUME HistoryOK, NEW hi \in 0 .. Now
  PROVE  Recent(hi) \in Messages /\ MessageOK(Recent(hi)) /\ Recent(hi).kind = "journal"
         /\ Recent(hi).hi = hi
  <1>0. Now \in Nat /\ hi \in Nat /\ hi <= Now /\ Rows \in Nat \ {0}
    BY NowIsNat, FeedAssumption
  <1> DEFINE lo0 == IF hi > Rows THEN hi - Rows + 1 ELSE 1
  <1>1. PICK lo \in 1 .. Now + 1 : lo = lo0
    <2>1. CASE hi > Rows
      BY <1>0, <2>1
    <2>2. CASE ~(hi > Rows)
      BY <1>0, <2>2
    <2>. QED
      BY <2>1, <2>2
  <1>2. Recent(hi) = Journal(lo, hi)
    BY <1>1 DEF Recent
  <1>. QED
    BY <1>2, JournalFacts DEF Journal

LEMMA TargetPushed ==
  ASSUME FeedInv, PushTarget
  PROVE  \E n \in Messages : MessageOK(n) /\ n.kind = "target" /\ n.hi = Now /\ Put(<<n>>)
  <1>1. PICK count \in BOOLEAN :
          /\ count => CountAt(Now) # NoCount
          /\ Put(<<[kind |-> "target", hi |-> Now, count |-> count]>>)
    BY DEF PushTarget
  <1> DEFINE n == [kind |-> "target", hi |-> Now, count |-> count]
  <1>2. Now \in Nat /\ Now > 0
    BY NowIsNat DEF FeedInv, PushTarget
  <1>3. n \in Messages
    BY <1>2 DEF Messages
  <1>4. MessageOK(n)
    BY <1>1 DEF MessageOK
  <1>5. n.kind = "target" /\ n.hi = Now /\ Put(<<n>>)
    BY <1>1
  <1> HIDE DEF n
  <1>. QED
    BY <1>3, <1>4, <1>5

\* The two replies to a new connection.
LEMMA ConnectFacts ==
  ASSUME FeedInv, Connect
  PROVE  /\ FeedInv' /\ Len(wire') = 2
         /\ wire'[1].hi = Now /\ wire'[2].hi = filed
         /\ wire'[2].kind = "journal" /\ history' = history /\ filed' = filed
  <1>1. PICK count \in BOOLEAN, next1 \in BOOLEAN :
          /\ count => CountAt(Now) # NoCount
          /\ wire' = <<[kind |-> "status", hi |-> Now, count |-> count, next |-> next1],
                       Recent(filed)>>
    BY DEF Connect
  <1> DEFINE m == [kind |-> "status", hi |-> Now, count |-> count, next |-> next1]
             r == Recent(filed)
  <1>2. /\ history' = history /\ filed' = filed /\ link' = TRUE /\ Now \in Nat
        /\ filed \in 0 .. Now
    BY NowIsNat DEF Connect, FeedInv
  <1>3. m \in Messages /\ MessageOK(m) /\ m.hi = Now
    BY <1>1, <1>2 DEF Messages, MessageOK
  <1>4. r \in Messages /\ MessageOK(r) /\ r.kind = "journal" /\ r.hi = filed
    BY <1>2, RecentFacts DEF FeedInv
  <1> HIDE DEF m, r
  <1>5. wire' = <<m, r>>
    BY <1>1 DEF m, r
  <1>6. /\ wire' \in Seq(Messages) /\ Len(wire') = 2 /\ wire'[1] = m /\ wire'[2] = r
    BY <1>3, <1>4, <1>5
  <1>7. ASSUME NEW n, MessageOK(n) PROVE MessageOK(n)'
    BY <1>2, <1>7, HistoryStays DEF MessageOK
  <1>8. ASSUME NEW i \in 1 .. Len(wire') PROVE MessageOK(wire[i])'
    <2>1. PICK n : n = wire'[i]
      OBVIOUS
    <2>2. MessageOK(n)
      BY <1>3, <1>4, <1>6, <2>1
    <2>3. MessageOK(n)'
      BY <1>7, <2>2
    <2>. QED
      BY <2>1, <2>3 DEF MessageOK
  <1>. QED
    BY <1>2, <1>3, <1>4, <1>6, <1>8, HistoryStays DEF FeedInv

LEMMA DropFacts ==
  ASSUME FeedInv, history' = history, filed' = filed, link' = FALSE, wire' = <<>>
  PROVE  FeedInv'
  <1>1. Now' = Now /\ HistoryOK'
    BY HistoryStays DEF FeedInv
  <1>2. wire' \in Seq(Messages')
    OBVIOUS
  <1>3. Len(<<>>) = 0 /\ 1 .. 0 = {}
    BY EmptySeq
  <1>4. Len(wire') = 0 /\ link' \in BOOLEAN
    BY <1>3
  <1>. QED
    BY <1>1, <1>2, <1>3, <1>4 DEF FeedInv

-------------------------------------------------------------------------------
\* The types of what is shown.

LEMMA NextListedType ==
  ASSUME NEW r \in Seq(Systems), NEW n \in Nat
  PROVE  NextListed(r, n) \in Systems \cup {NoName}
  <1>1. ASSUME Left(r, n) > 0 PROVE Summary(r) \in Seq(Systems \cup {Gap})
    <2>1. Len(r) \in Nat \ {0}
      BY <1>1 DEF Left
    <2>2. Head(r) \in Systems /\ r[Len(r)] \in Systems
      BY <2>1
    <2>3. r \in Seq(Systems \cup {Gap})
      <3>1. Systems \subseteq Systems \cup {Gap}
        OBVIOUS
      <3>. QED
        BY <3>1, SeqMonotonic
    <2>4. CASE Len(r) <= Listed
      BY <2>3, <2>4 DEF Summary
    <2>5. CASE ~(Len(r) <= Listed)
      BY <2>2, <2>5 DEF Summary
    <2>. QED
      BY <2>4, <2>5
  <1>2. CASE Left(r, n) > 0 /\ n < Len(Summary(r)) /\ Summary(r)[n + 1] # Gap
    <2>1. PICK list \in Seq(Systems \cup {Gap}) : list = Summary(r)
      BY <1>1, <1>2
    <2>2. n + 1 \in 1 .. Len(list)
      BY <1>2, <2>1
    <2>3. list[n + 1] \in Systems
      BY <1>2, <2>1, <2>2
    <2>. QED
      BY <1>2, <2>1, <2>3 DEF NextListed
  <1>3. CASE ~(Left(r, n) > 0 /\ n < Len(Summary(r)) /\ Summary(r)[n + 1] # Gap)
    BY <1>3 DEF NextListed
  <1>. QED
    BY <1>2, <1>3

LEMMA SeeType ==
  ASSUME ShownOK, NEW v \in 0 .. Now, See(v)
  PROVE  /\ seen' \in 0 .. Now
         /\ seen' = v \/ (seen' = seen /\ v < seen /\ CountAt(v) = CountAt(seen))
BY DEF See, ShownOK

LEMMA RecognizedType ==
  ASSUME generation \in 0 .. 1, Recognized
  PROVE  generation' \in 0 .. 1 /\ generation' # generation
BY DEF Recognized

-------------------------------------------------------------------------------
\* The invariant.

\* The count shown is that of the event it is taken for.
SeenInv == \A v \in 0 .. Now : v = seen => remaining = CountAt(v)

\* Only a journal message can be older than what is shown or than a message
\* before it.
WireInv ==
  \A i \in 1 .. Len(wire) :
    wire[i].kind # "journal" =>
      wire[i].hi >= seen /\ \A j \in 1 .. i : wire[j].hi <= wire[i].hi

\* While no route is shown, none was plotted between the time of the route and
\* the event that is shown.
ClearedInv ==
  remaining = NoCount =>
    \A t \in eventTime + 1 .. seen : history[t].event # "NavRoute"

RouteInv == FeedInv /\ ShownOK /\ SeenInv /\ WireInv /\ ClearedInv

LEMMA RouteInit == Init => RouteInv
<1> SUFFICES ASSUME Init PROVE RouteInv
  OBVIOUS
<1>1. history = <<>> /\ filed = 0 /\ link = FALSE /\ wire = <<>> /\ Now = 0
  BY DEF Init, FeedInit, Now
<1>2. HistoryOK
  BY <1>1 DEF HistoryOK
<1>3. FeedInv
  <2>1. wire \in Seq(Messages) /\ Len(wire) = 0
    BY <1>1, EmptySeq
  <2>2. 1 .. Len(wire) = {}
    BY <2>1
  <2>3. filed \in 0 .. Now
    BY <1>1
  <2>4. link \in BOOLEAN
    BY <1>1
  <2>. QED
    BY <1>2, <2>1, <2>2, <2>3, <2>4 DEF FeedInv
<1>4. ShownOK
  BY <1>1 DEF ShownOK, Init
<1>5. Plots(1, 0) = {}
  BY DEF Plots
<1>6. CountAt(0) = NoCount
  BY <1>5 DEF CountAt, RouteAt
<1>7. SeenInv
  BY <1>1, <1>6 DEF SeenInv, Init
<1>8. WireInv /\ ClearedInv
  BY <1>1 DEF WireInv, ClearedInv, Init
<1>. QED
  BY <1>3, <1>4, <1>7, <1>8 DEF RouteInv

\* The message taken was the first: those behind it are in order.
LEMMA TakeOrder ==
  ASSUME FeedInv, ShownOK, WireInv, NEW kind, Take(kind),
         seen' \in {seen, wire[1].hi}
  PROVE  WireInv'
  <1>1. /\ Len(wire) \in Nat \ {0} /\ Len(wire') = Len(wire) - 1
        /\ \A i \in 1 .. Len(wire') : wire'[i] = wire[i + 1] /\ i + 1 \in 1 .. Len(wire)
    BY TakeFacts
  <1> SUFFICES ASSUME NEW i \in 1 .. Len(wire'), wire'[i].kind # "journal"
               PROVE  /\ wire'[i].hi >= seen'
                      /\ \A j \in 1 .. i : wire'[j].hi <= wire'[i].hi
    BY DEF WireInv
  <1>2. i + 1 \in 1 .. Len(wire) /\ wire'[i] = wire[i + 1]
    BY <1>1
  <1>3. /\ wire[i + 1].hi >= seen
        /\ \A j \in 1 .. i + 1 : wire[j].hi <= wire[i + 1].hi
    BY <1>2 DEF WireInv
  <1>4. wire[1] \in Messages /\ wire[i + 1] \in Messages
    BY <1>1, <1>2 DEF FeedInv
  <1>5. wire[1].hi \in 0 .. Now /\ wire[i + 1].hi \in 0 .. Now /\ Now \in Nat
    BY <1>4, MessageShape, NowIsNat DEF FeedInv
  <1>6. wire[1].hi <= wire[i + 1].hi
    BY <1>1, <1>2, <1>3
  <1>7. wire'[i].hi >= seen'
    BY <1>2, <1>3, <1>5, <1>6
  <1>8. ASSUME NEW j \in 1 .. i PROVE wire'[j].hi <= wire'[i].hi
    <2>1. wire'[j] = wire[j + 1] /\ j + 1 \in 1 .. i + 1
      BY <1>1
    <2>. QED
      BY <1>2, <1>3, <2>1
  <1>. QED
    BY <1>7, <1>8

\* A message put behind the others: a live one is about the present.
LEMMA PutOrder ==
  ASSUME FeedInv, ShownOK, WireInv, NEW m \in Messages, MessageOK(m), Put(<<m>>),
         m.kind # "journal" => m.hi = Now,
         UNCHANGED <<history, link, seen>>, filed' \in 0 .. Now
  PROVE  WireInv'
  <1>1. /\ Len(wire) \in Nat /\ Len(wire') = Len(wire) + 1
        /\ \A i \in 1 .. Len(wire) : wire'[i] = wire[i]
        /\ wire'[Len(wire) + 1] = m
    BY PutFacts
  <1>2. Now \in Nat /\ seen \in 0 .. Now
    BY NowIsNat DEF FeedInv, ShownOK
  <1> SUFFICES ASSUME NEW i \in 1 .. Len(wire) + 1, wire'[i].kind # "journal"
               PROVE  /\ wire'[i].hi >= seen
                      /\ \A j \in 1 .. i : wire'[j].hi <= wire'[i].hi
    BY <1>1 DEF WireInv
  <1>3. CASE i \in 1 .. Len(wire)
    <2>1. \A j \in 1 .. i : j \in 1 .. Len(wire)
      BY <1>1, <1>3
    <2>. QED
      BY <1>1, <1>3, <2>1 DEF WireInv
  <1>4. CASE i = Len(wire) + 1
    <2>1. wire'[i] = m /\ m.hi = Now
      BY <1>1, <1>4
    <2>2. ASSUME NEW j \in 1 .. i PROVE wire'[j].hi <= Now
      <3>1. CASE j \in 1 .. Len(wire)
        <4>1. wire[j] \in Messages /\ wire'[j] = wire[j]
          BY <1>1, <3>1 DEF FeedInv
        <4>2. wire[j].hi \in 0 .. Now
          BY <4>1, MessageShape DEF FeedInv
        <4>. QED
          BY <1>2, <4>1, <4>2
      <3>2. CASE j = Len(wire) + 1
        BY <1>2, <1>4, <2>1, <3>2
      <3>. QED
        BY <1>1, <1>4, <3>1, <3>2
    <2>. QED
      BY <1>2, <2>1, <2>2
  <1>. QED
    BY <1>1, <1>3, <1>4

-------------------------------------------------------------------------------
\* The steps of the sources.

ShownStays == UNCHANGED <<target, next, remaining, eventTime, generation, seen>>

\* What is shown keeps its meaning when the history stays.
LEMMA SameHistory ==
  ASSUME RouteInv, FeedInv', WireInv', history' = history, ShownStays
  PROVE  RouteInv'
  <1>1. Now' = Now /\ \A v : CountAt(v)' = CountAt(v)
    BY HistoryStays
  <1>2. ShownOK'
    BY <1>1 DEF RouteInv, ShownOK, ShownStays
  <1>3. SeenInv'
    BY <1>1 DEF RouteInv, SeenInv, ShownStays
  <1>4. ClearedInv'
    BY DEF RouteInv, ClearedInv, ShownStays
  <1>. QED
    BY <1>2, <1>3, <1>4 DEF RouteInv

\* And when the history gets longer.
LEMMA LongerHistory ==
  ASSUME RouteInv, ShownStays,
         NEW event \in {"NavRoute", "FSDJump", "NavRouteClear"}, NEW r,
         IF event = "NavRoute" THEN r \in Routes ELSE r = <<>>,
         Happen(event, r)
  PROVE  RouteInv'
  <1>1. FeedInv'
    BY HappenFacts DEF RouteInv
  <1>2. PICK e : history' = Append(history, e)
    BY DEF Happen
  <1>3. /\ Now' = Now + 1 /\ Now \in Nat /\ seen \in 0 .. Now /\ eventTime \in 0 .. Now
        /\ \A v \in 0 .. Now : CountAt(v)' = CountAt(v)
        /\ \A t \in 1 .. Now : history'[t] = history[t]
    <2>1. ASSUME NEW v \in 0 .. Now PROVE CountAt(v)' = CountAt(v)
      BY <1>2, PastStays DEF RouteInv, FeedInv
    <2>2. Now \in Nat /\ seen \in 0 .. Now /\ eventTime \in 0 .. Now
      BY NowIsNat DEF RouteInv, FeedInv, ShownOK
    <2>3. Now \in 0 .. Now
      BY <2>2
    <2>4. Now' = Now + 1 /\ \A t \in 1 .. Now : history'[t] = history[t]
      BY <1>2, <2>3, PastStays DEF RouteInv, FeedInv
    <2>. QED
      BY <2>1, <2>2, <2>4
  <1>4. ShownOK'
    BY <1>3 DEF RouteInv, ShownOK, ShownStays
  <1>5. SeenInv'
    BY <1>3 DEF RouteInv, SeenInv, ShownStays
  <1>6. WireInv'
    BY DEF RouteInv, WireInv, Happen, ShownStays
  <1>7. ClearedInv'
    <2>1. ASSUME NEW t \in eventTime + 1 .. seen PROVE history'[t] = history[t]
      BY <1>3
    <2>. QED
      BY <2>1 DEF RouteInv, ClearedInv, ShownStays
  <1>. QED
    BY <1>1, <1>4, <1>5, <1>6, <1>7 DEF RouteInv

LEMMA FeedNext ==
  ASSUME RouteInv, Feed, ShownStays
  PROVE  RouteInv'
  <1>0. /\ FeedInv /\ ShownOK /\ WireInv /\ HistoryOK /\ Now \in Nat
        /\ filed \in 0 .. Now /\ seen' = seen
    BY NowIsNat DEF RouteInv, FeedInv, ShownStays
  <1>1. CASE Plot
    BY <1>1, LongerHistory DEF Plot
  <1>2. CASE Jump
    BY <1>2, LongerHistory DEF Jump
  <1>3. CASE Clear
    BY <1>3, LongerHistory DEF Clear
  <1>4. CASE File
    <2>1. filed' = filed + 1 /\ filed' \in 0 .. Now /\ filed' \in 1 .. Now + 1
      BY <1>0, <1>4 DEF File
    <2>2. PICK f \in 0 .. Now : f = filed' /\ f \in 1 .. Now + 1
      BY <2>1
    <2>3. CASE UNCHANGED wire
      <3>1. FeedInv'
        <4>1. \A m : MessageOK(m) => MessageOK(m)'
          BY <1>4, HistoryStays DEF File, MessageOK
        <4>2. ASSUME NEW i \in 1 .. Len(wire) PROVE MessageOK(wire[i])'
          <5>1. PICK n : n = wire[i] /\ n = wire'[i]
            BY <2>3
          <5>. QED
            BY <1>0, <4>1, <5>1 DEF FeedInv, MessageOK
        <4>. QED
          BY <1>0, <1>4, <2>1, <2>3, <4>2, HistoryStays DEF FeedInv, File
      <3>2. WireInv'
        BY <1>0, <2>3 DEF WireInv
      <3>. QED
        BY <1>4, <3>1, <3>2, SameHistory DEF File
    <2>4. CASE Put(<<Journal(filed', filed')>>)
      <3>1. /\ Journal(f, f) \in Messages /\ MessageOK(Journal(f, f))
            /\ Put(<<Journal(f, f)>>) /\ Journal(f, f).kind = "journal"
        BY <1>0, <2>2, <2>4, JournalFacts DEF Journal
      <3>2. PICK m : m = Journal(f, f)
        OBVIOUS
      <3>3. history' = history /\ link' = link
        BY <1>4 DEF File
      <3>4. FeedInv' /\ WireInv'
        BY <1>0, <2>1, <3>1, <3>2, <3>3, PutFacts, PutOrder
      <3>. QED
        BY <3>3, <3>4, SameHistory
    <2>. QED
      BY <1>4, <2>3, <2>4 DEF File
  <1>5. CASE PushTarget
    <2>1. PICK n \in Messages : MessageOK(n) /\ n.hi = Now /\ Put(<<n>>)
      BY <1>5, TargetPushed DEF RouteInv
    <2>2. /\ history' = history /\ link' = link /\ filed' = filed
      BY <1>5 DEF PushTarget
    <2>3. FeedInv' /\ WireInv'
      BY <1>0, <2>1, <2>2, PutFacts, PutOrder
    <2>. QED
      BY <2>2, <2>3, SameHistory
  <1>6. CASE PushClear
    <2> DEFINE n == [kind |-> "clear", hi |-> Now]
    <2>2. n \in Messages
      BY <1>0, <1>6 DEF Messages, PushClear
    <2>3. MessageOK(n) /\ n.hi = Now
      BY <1>6 DEF MessageOK, PushClear
    <2>4. /\ Put(<<n>>) /\ history' = history /\ link' = link /\ filed' = filed
      BY <1>6 DEF PushClear
    <2>5. PICK m : m = n
      OBVIOUS
    <2> HIDE DEF n
    <2>6. FeedInv' /\ WireInv'
      BY <1>0, <2>2, <2>3, <2>4, <2>5, PutFacts, PutOrder
    <2>. QED
      BY <2>4, <2>6, SameHistory
  <1>7. CASE Reply
    <2>1. /\ Recent(filed) \in Messages /\ MessageOK(Recent(filed))
          /\ Recent(filed).kind = "journal"
      BY <1>0, RecentFacts
    <2>2. /\ Put(<<Recent(filed)>>) /\ history' = history /\ link' = link /\ filed' = filed
      BY <1>7 DEF Reply
    <2>3. FeedInv' /\ WireInv'
      BY <1>0, <2>1, <2>2, PutFacts, PutOrder
    <2>. QED
      BY <2>2, <2>3, SameHistory
  <1>8. CASE Connect
    <2>1. /\ FeedInv' /\ Len(wire') = 2 /\ wire'[1].hi = Now
          /\ wire'[2].kind = "journal" /\ history' = history
      BY <1>0, <1>8, ConnectFacts
    <2>2. seen' \in 0 .. Now
      BY <1>0 DEF ShownOK
    <2>3. WireInv'
      <3> SUFFICES ASSUME NEW i \in 1 .. 2, wire'[i].kind # "journal"
                   PROVE  /\ wire'[i].hi >= seen'
                          /\ \A j \in 1 .. i : wire'[j].hi <= wire'[i].hi
        BY <2>1 DEF WireInv
      <3>1. i = 1
        BY <2>1
      <3>. QED
        BY <1>0, <2>1, <2>2, <3>1
    <2>. QED
      BY <2>1, <2>3, SameHistory
  <1>9. CASE Lose
    <2>1. history' = history /\ filed' = filed /\ link' = FALSE /\ wire' = <<>>
      BY <1>9 DEF Lose
    <2>2. FeedInv'
      BY <1>0, <2>1, DropFacts
    <2>3. WireInv'
      <3>1. Len(wire') = 0
        BY <2>1, EmptySeq
      <3>2. 1 .. Len(wire') = {}
        BY <3>1
      <3>. QED
        BY <3>2 DEF WireInv
    <2>. QED
      BY <2>1, <2>2, <2>3, SameHistory
  <1>. QED
    BY <1>1, <1>2, <1>3, <1>4, <1>5, <1>6, <1>7, <1>8, <1>9 DEF Feed

-------------------------------------------------------------------------------
\* The steps of the device.  Each keeps the invariant and what the two theorems
\* below say of a step.

StepOK ==
  /\ RouteInv'
  /\ remaining = NoCount /\ remaining' # NoCount => seen' > seen
  /\ <<target, next, remaining>>' # <<target, next, remaining>> => generation' # generation

\* What is known when a message is taken.
LEMMA ReceiveFacts ==
  ASSUME RouteInv, NEW kind, Take(kind), NEW m, m = Head(wire)
  PROVE  /\ m = wire[1] /\ m \in Messages /\ m.kind = kind /\ MessageOK(m)
         /\ m.hi \in 0 .. Now /\ Now \in Nat
         /\ kind # "journal" => m.hi >= seen
         /\ history' = history /\ Now' = Now /\ FeedInv'
         /\ \A v : CountAt(v)' = CountAt(v)
         /\ \A v \in 0 .. Now : v = seen => remaining = CountAt(v)
         /\ seen \in 0 .. Now /\ eventTime \in 0 .. Now
  <1>0. FeedInv /\ ShownOK /\ HistoryOK
    BY DEF RouteInv, FeedInv
  <1>1. /\ m = wire[1] /\ m \in Messages /\ m.kind = kind /\ MessageOK(m)
        /\ history' = history /\ FeedInv' /\ Len(wire) \in Nat \ {0}
    BY <1>0, TakeFacts
  <1>2. m.hi \in 0 .. Now /\ Now \in Nat
    BY <1>0, <1>1, MessageShape, NowIsNat
  <1>3. kind # "journal" => m.hi >= seen
    BY <1>1 DEF RouteInv, WireInv
  <1>4. /\ \A v \in 0 .. Now : v = seen => remaining = CountAt(v)
        /\ seen \in 0 .. Now /\ eventTime \in 0 .. Now
    BY <1>0 DEF RouteInv, SeenInv, ShownOK
  <1>. QED
    BY <1>1, <1>2, <1>3, <1>4, HistoryStays

\* A count of event hi is shown: it is later than the one before if that was
\* the lack of a route.
LEMMA CountTaken ==
  ASSUME RouteInv, NEW kind, Take(kind), NEW m, m = Head(wire),
         remaining' = CountAt(m.hi), See(m.hi)
  PROVE  /\ SeenInv' /\ WireInv' /\ seen' \in 0 .. Now
         /\ remaining' \in Nat \cup {NoCount}
         /\ seen' = m.hi \/ (seen' = seen /\ remaining' = remaining /\ m.hi < seen)
  <1>1. /\ m = wire[1] /\ m.hi \in 0 .. Now /\ Now \in Nat /\ history' = history
        /\ Now' = Now /\ \A v : CountAt(v)' = CountAt(v)
        /\ \A v \in 0 .. Now : v = seen => remaining = CountAt(v)
        /\ seen \in 0 .. Now
    BY ReceiveFacts
  <1>2. /\ seen' \in 0 .. Now
        /\ seen' = m.hi \/ (seen' = seen /\ m.hi < seen /\ CountAt(m.hi) = CountAt(seen))
    BY <1>1, SeeType DEF RouteInv
  <1>3. remaining = CountAt(seen)
    BY <1>1
  <1>4. SeenInv'
    <2> SUFFICES ASSUME NEW v \in 0 .. Now, v = seen' PROVE remaining' = CountAt(v)
      BY <1>1 DEF SeenInv
    <2>. QED
      BY <1>2
  <1>5. WireInv'
    <2>1. FeedInv /\ ShownOK /\ WireInv
      BY DEF RouteInv
    <2>2. seen' \in {seen, wire[1].hi}
      BY <1>1, <1>2
    <2>. QED
      BY <2>1, <2>2, TakeOrder
  <1>6. remaining' \in Nat \cup {NoCount}
    BY <1>1, AtTypes DEF RouteInv, FeedInv
  <1>. QED
    BY <1>2, <1>3, <1>4, <1>5, <1>6

LEMMA StatusStep == ASSUME RouteInv, ReceiveStatus PROVE StepOK
  <1>1. PICK m : m = Head(wire)
    OBVIOUS
  <1>2. /\ Take("status")
        /\ next' = IF m.next THEN NextAt(m.hi) ELSE next
        /\ \/ m.count /\ remaining' = CountAt(m.hi) /\ See(m.hi)
           \/ ~m.count /\ UNCHANGED <<remaining, seen>>
        /\ target' = target /\ eventTime' = eventTime /\ Recognized
    BY <1>1 DEF ReceiveStatus
  <1>3. /\ m = wire[1] /\ m.kind = "status" /\ MessageOK(m) /\ m.hi \in 0 .. Now
        /\ Now \in Nat /\ m.hi >= seen /\ history' = history /\ Now' = Now /\ FeedInv'
        /\ \A v : CountAt(v)' = CountAt(v)
        /\ \A v \in 0 .. Now : v = seen => remaining = CountAt(v)
        /\ seen \in 0 .. Now /\ eventTime \in 0 .. Now
    BY <1>1, <1>2, ReceiveFacts
  <1>4. HistoryOK /\ ShownOK /\ FeedInv /\ WireInv /\ ClearedInv
    BY DEF RouteInv, FeedInv
  <1>5. generation' \in 0 .. 1 /\ generation' # generation
    BY <1>2, <1>4, RecognizedType DEF ShownOK
  <1>6. next' \in Systems \cup {NoName}
    BY <1>2, <1>3, <1>4, AtTypes DEF ShownOK
  <1>7. CASE m.count /\ remaining' = CountAt(m.hi) /\ See(m.hi)
    <2>1. /\ SeenInv' /\ WireInv' /\ seen' \in 0 .. Now
          /\ remaining' \in Nat \cup {NoCount}
          /\ seen' = m.hi \/ (seen' = seen /\ remaining' = remaining /\ m.hi < seen)
      BY <1>1, <1>2, <1>7, CountTaken
    <2>2. remaining' # NoCount
      BY <1>3, <1>7 DEF MessageOK
    <2>3. seen' = m.hi
      BY <1>3, <2>1
    <2>4. remaining = NoCount => seen' > seen
      BY <1>3, <1>7, <2>2, <2>3
    <2>5. ShownOK'
      BY <1>2, <1>3, <1>4, <1>5, <1>6, <2>1 DEF ShownOK
    <2>6. ClearedInv'
      BY <2>2 DEF ClearedInv
    <2>. QED
      BY <1>3, <1>5, <2>1, <2>4, <2>5, <2>6 DEF RouteInv, StepOK
  <1>8. CASE ~m.count /\ UNCHANGED <<remaining, seen>>
    <2>1. WireInv'
      BY <1>2, <1>4, <1>8, TakeOrder
    <2>2. SeenInv'
      BY <1>3, <1>8 DEF SeenInv
    <2>3. ShownOK'
      BY <1>2, <1>3, <1>4, <1>5, <1>6, <1>8 DEF ShownOK
    <2>4. ClearedInv'
      BY <1>2, <1>3, <1>4, <1>8 DEF ClearedInv
    <2>. QED
      BY <1>3, <1>5, <1>8, <2>1, <2>2, <2>3, <2>4 DEF RouteInv, StepOK
  <1>. QED
    BY <1>2, <1>7, <1>8

LEMMA LiveTimeType ==
  ASSUME NEW t \in 0 .. Now, Now \in Nat, eventTime \in 0 .. Now, LiveTime(t)
  PROVE  eventTime' \in 0 .. Now /\ eventTime' >= t /\ eventTime' >= eventTime
BY DEF LiveTime

LEMMA TargetStep == ASSUME RouteInv, ReceiveTarget PROVE StepOK
  <1>1. PICK m : m = Head(wire)
    OBVIOUS
  <1>2. /\ Take("target")
        /\ \/ m.count /\ remaining' = CountAt(m.hi) /\ See(m.hi)
           \/ ~m.count /\ UNCHANGED <<remaining, seen>>
        /\ next' = IF remaining' = 0 THEN NoName
                   ELSE IF m.count THEN NextAt(m.hi) ELSE Stray
        /\ LiveTime(m.hi) /\ target' = target /\ Recognized
    BY <1>1 DEF ReceiveTarget, TargetTaken
  <1>3. /\ m = wire[1] /\ m.kind = "target" /\ MessageOK(m) /\ m.hi \in 0 .. Now
        /\ Now \in Nat /\ m.hi >= seen /\ history' = history /\ Now' = Now /\ FeedInv'
        /\ \A v : CountAt(v)' = CountAt(v)
        /\ \A v \in 0 .. Now : v = seen => remaining = CountAt(v)
        /\ seen \in 0 .. Now /\ eventTime \in 0 .. Now
    BY <1>1, <1>2, ReceiveFacts
  <1>4. HistoryOK /\ ShownOK /\ FeedInv /\ WireInv /\ ClearedInv
    BY DEF RouteInv, FeedInv
  <1>5. generation' \in 0 .. 1 /\ generation' # generation
    BY <1>2, <1>4, RecognizedType DEF ShownOK
  <1>6. next' \in Systems \cup {NoName}
    BY <1>2, <1>3, <1>4, AtTypes, FeedAssumption
  <1>7. eventTime' \in 0 .. Now /\ eventTime' >= eventTime
    BY <1>2, <1>3, LiveTimeType
  <1>8. CASE m.count /\ remaining' = CountAt(m.hi) /\ See(m.hi)
    <2>1. /\ SeenInv' /\ WireInv' /\ seen' \in 0 .. Now
          /\ remaining' \in Nat \cup {NoCount}
          /\ seen' = m.hi \/ (seen' = seen /\ remaining' = remaining /\ m.hi < seen)
      BY <1>1, <1>2, <1>8, CountTaken
    <2>2. remaining' # NoCount
      BY <1>3, <1>8 DEF MessageOK
    <2>3. seen' = m.hi
      BY <1>3, <2>1
    <2>4. remaining = NoCount => seen' > seen
      BY <1>3, <1>8, <2>2, <2>3
    <2>5. ShownOK'
      BY <1>2, <1>3, <1>4, <1>5, <1>6, <1>7, <2>1 DEF ShownOK
    <2>6. ClearedInv'
      BY <2>2 DEF ClearedInv
    <2>. QED
      BY <1>3, <1>5, <2>1, <2>4, <2>5, <2>6 DEF RouteInv, StepOK
  <1>9. CASE ~m.count /\ UNCHANGED <<remaining, seen>>
    <2>1. WireInv'
      BY <1>2, <1>4, <1>9, TakeOrder
    <2>2. SeenInv'
      BY <1>3, <1>9 DEF SeenInv
    <2>3. ShownOK'
      BY <1>2, <1>3, <1>4, <1>5, <1>6, <1>7, <1>9 DEF ShownOK
    <2>4. ClearedInv'
      <3>1. \A t \in eventTime' + 1 .. seen : t \in eventTime + 1 .. seen
        BY <1>3, <1>7
      <3>. QED
        BY <1>3, <1>4, <1>9, <3>1 DEF ClearedInv
    <2>. QED
      BY <1>3, <1>5, <1>9, <2>1, <2>2, <2>3, <2>4 DEF RouteInv, StepOK
  <1>. QED
    BY <1>2, <1>8, <1>9

\* An interval that ends before it starts is empty.
LEMMA NothingBetween ==
  ASSUME NEW e \in Int, NEW s \in Int, s <= e
  PROVE  \A t \in e + 1 .. s : FALSE
OBVIOUS

LEMMA ClearStep == ASSUME RouteInv, ReceiveClear PROVE StepOK
  <1>1. PICK m : m = Head(wire)
    OBVIOUS
  <1>2. /\ Take("clear") /\ ClearRoute /\ See(m.hi) /\ LiveTime(m.hi) /\ Recognized
    BY <1>1 DEF ReceiveClear
  <1>3. /\ m = wire[1] /\ m \in Messages /\ m.kind = "clear" /\ MessageOK(m)
        /\ m.hi \in 0 .. Now
        /\ Now \in Nat /\ m.hi >= seen /\ history' = history /\ Now' = Now /\ FeedInv'
        /\ seen \in 0 .. Now /\ eventTime \in 0 .. Now
    BY <1>1, <1>2, ReceiveFacts
  <1>4. HistoryOK /\ ShownOK
    BY DEF RouteInv, FeedInv
  <1>5. generation' \in 0 .. 1 /\ generation' # generation
    BY <1>2, <1>4, RecognizedType DEF ShownOK
  <1>6. CountAt(m.hi) = NoCount
    <2>1. m.hi \in 1 .. Now
      BY <1>3, <1>4, MessageShape
    <2>2. history[m.hi].event = "NavRouteClear" /\ history[m.hi].route = <<>>
      <3>1. PICK v \in 1 .. Now : v = m.hi
        BY <2>1
      <3>2. history[v].event = "NavRouteClear"
        BY <1>3, <3>1 DEF MessageOK
      <3>3. history[v].route = <<>>
        BY <1>4, <3>2 DEF HistoryOK
      <3>. QED
        BY <3>1, <3>2, <3>3
    <2>3. m.hi \in Plots(m.hi, m.hi) /\ m.hi \in 1 .. Now + 1
      <3>1. m.hi \in m.hi .. m.hi /\ m.hi \in 1 .. Now + 1
        BY <1>3, <2>1
      <3>. QED
        BY <2>2, <3>1 DEF Plots
    <2>4. Plots(1, m.hi) # {} /\ Newest(Plots(1, m.hi)) \in m.hi .. m.hi
      BY <1>3, <1>4, <2>3, RowIsNewest
    <2>. QED
      BY <1>3, <2>1, <2>2, <2>4 DEF CountAt, RouteAt
  <1>7. /\ SeenInv' /\ WireInv' /\ seen' \in 0 .. Now
        /\ seen' = m.hi \/ (seen' = seen /\ m.hi < seen)
    <2>1. remaining' = CountAt(m.hi)
      BY <1>2, <1>6 DEF ClearRoute
    <2>. QED
      BY <1>1, <1>2, <2>1, CountTaken
  <1>8. eventTime' \in 0 .. Now /\ eventTime' >= m.hi
    BY <1>2, <1>3, LiveTimeType
  <1>9. ShownOK'
    BY <1>2, <1>3, <1>5, <1>7, <1>8 DEF ShownOK, ClearRoute
  <1>10. ClearedInv'
    <2>1. seen' \in Int /\ eventTime' \in Int /\ seen' <= eventTime'
      BY <1>3, <1>7, <1>8
    <2>2. \A t \in eventTime' + 1 .. seen' : FALSE
      BY <2>1, NothingBetween
    <2>. QED
      BY <2>2 DEF ClearedInv
  <1>11. remaining' = NoCount
    BY <1>2 DEF ClearRoute
  <1>. QED
    BY <1>3, <1>5, <1>7, <1>9, <1>10, <1>11 DEF RouteInv, StepOK

\* A journal message that changes nothing.
LEMMA IgnoreStep == ASSUME RouteInv, Take("journal"), Ignore PROVE StepOK
  <1>1. PICK m : m = Head(wire)
    OBVIOUS
  <1>2. m = wire[1] /\ history' = history /\ FeedInv'
    BY <1>1, ReceiveFacts
  <1>3. ShownStays
    BY DEF Ignore, ShownStays, routeVars
  <1>4. WireInv'
    BY <1>3, TakeOrder DEF RouteInv, ShownStays
  <1>5. RouteInv'
    BY <1>2, <1>3, <1>4, SameHistory
  <1>. QED
    BY <1>3, <1>5 DEF StepOK, ShownStays

\* The row a journal message is about.
LEMMA JournalRow ==
  ASSUME RouteInv, Take("journal"), NEW m, m = Head(wire), Found(m) # {}
  PROVE  /\ Row(m) \in 1 .. Now /\ Row(m) <= m.hi
         /\ RouteAt(m.hi) = history[Row(m)].route /\ JumpsAt(m.hi) = m.hi - Row(m)
         /\ \A t \in Row(m) + 1 .. m.hi : history[t].event # "NavRoute"
  <1>1. m.lo \in 1 .. Now + 1 /\ m.hi \in 0 .. Now /\ HistoryOK
    BY ReceiveFacts, MessageShape DEF RouteInv, FeedInv
  <1>2. Plots(m.lo, m.hi) # {} /\ Row(m) = Newest(Plots(m.lo, m.hi))
    BY DEF Row, Found
  <1>3. /\ Row(m) \in m.lo .. m.hi /\ Row(m) \in 1 .. Now
        /\ Plots(1, m.hi) # {} /\ Newest(Plots(1, m.hi)) = Row(m)
        /\ \A t \in Row(m) + 1 .. m.hi : history[t].event # "NavRoute"
    BY <1>1, <1>2, RowIsNewest
  <1>4. Now \in Nat /\ Row(m) <= m.hi
    BY <1>1, <1>3, NowIsNat
  <1>. QED
    BY <1>3, <1>4 DEF RouteAt, JumpsAt

LEMMA JournalClearStep == ASSUME RouteInv, ReceiveJournalClear PROVE StepOK
  <1>1. PICK m : m = Head(wire)
    OBVIOUS
  <1>2. /\ Take("journal") /\ Found(m) # {} /\ history[Row(m)].event = "NavRouteClear"
        /\ \/ ClearIsOlder(Row(m)) /\ Ignore
           \/ /\ ~ClearIsOlder(Row(m))
              /\ ClearRoute /\ See(m.hi) /\ eventTime' = Row(m) /\ Recognized
    BY <1>1 DEF ReceiveJournalClear
  <1>3. CASE Ignore
    BY <1>2, <1>3, IgnoreStep
  <1>4. CASE /\ ~ClearIsOlder(Row(m))
             /\ ClearRoute /\ See(m.hi) /\ eventTime' = Row(m) /\ Recognized
    <2>1. /\ m.hi \in 0 .. Now
          /\ Now \in Nat /\ history' = history /\ Now' = Now /\ FeedInv'
          /\ seen \in 0 .. Now /\ eventTime \in 0 .. Now
      BY <1>1, <1>2, ReceiveFacts
    <2>2. HistoryOK /\ ShownOK /\ ClearedInv
      BY DEF RouteInv, FeedInv
    <2>3. generation' \in 0 .. 1 /\ generation' # generation
      BY <1>4, <2>2, RecognizedType DEF ShownOK
    <2>4. /\ Row(m) \in 1 .. Now /\ RouteAt(m.hi) = history[Row(m)].route
          /\ \A t \in Row(m) + 1 .. m.hi : history[t].event # "NavRoute"
      BY <1>1, <1>2, JournalRow
    <2>5. CountAt(m.hi) = NoCount
      <3>1. history[Row(m)].route = <<>>
        BY <1>2, <2>2, <2>4 DEF HistoryOK
      <3>. QED
        BY <2>4, <3>1 DEF CountAt
    <2>6. remaining' = NoCount
      BY <1>4 DEF ClearRoute
    <2>7. /\ SeenInv' /\ WireInv' /\ seen' \in 0 .. Now
          /\ seen' = m.hi \/ (seen' = seen /\ remaining' = remaining /\ m.hi < seen)
      BY <1>1, <1>2, <1>4, <2>5, <2>6, CountTaken
    <2>8. ShownOK'
      BY <1>4, <2>1, <2>3, <2>4, <2>6, <2>7 DEF ShownOK, ClearRoute
    <2>9. ClearedInv'
      <3>1. CASE seen' = m.hi
        BY <1>4, <2>1, <2>4, <3>1 DEF ClearedInv
      <3>2. CASE seen' = seen /\ remaining' = remaining
        <4>1. \A t \in eventTime + 1 .. seen : history[t].event # "NavRoute"
          BY <2>2, <2>6, <3>2 DEF ClearedInv
        <4>2. eventTime <= Row(m)
          BY <1>4, <2>1, <2>4 DEF ClearIsOlder
        <4>3. \A t \in Row(m) + 1 .. seen : t \in eventTime + 1 .. seen
          BY <2>1, <2>4, <4>2
        <4>. QED
          BY <1>4, <2>1, <3>2, <4>1, <4>3 DEF ClearedInv
      <3>. QED
        BY <2>7, <3>1, <3>2
    <2>. QED
      BY <2>1, <2>3, <2>6, <2>7, <2>8, <2>9 DEF RouteInv, StepOK
  <1>. QED
    BY <1>2, <1>3, <1>4

LEMMA JournalRouteStep == ASSUME RouteInv, ReceiveJournalRoute PROVE StepOK
  <1>1. PICK m : m = Head(wire)
    OBVIOUS
  <1>2. PICK t, jumps, route : t = Row(m) /\ jumps = m.hi - t /\ route = history[t].route
    OBVIOUS
  <1>3. /\ Take("journal") /\ Found(m) # {} /\ history[t].event = "NavRoute"
        /\ \/ Ignore
           \/ /\ ~Obsolete(t, Left(route, jumps))
              /\ ApplyRoute(t, route, jumps) /\ See(m.hi)
    BY <1>1, <1>2 DEF ReceiveJournalRoute
  <1>4. CASE Ignore
    BY <1>3, <1>4, IgnoreStep
  <1>5. CASE /\ ~Obsolete(t, Left(route, jumps))
             /\ ApplyRoute(t, route, jumps) /\ See(m.hi)
    <2>1. /\ m.hi \in 0 .. Now
          /\ Now \in Nat /\ history' = history /\ Now' = Now /\ FeedInv'
          /\ seen \in 0 .. Now /\ eventTime \in 0 .. Now
      BY <1>1, <1>3, ReceiveFacts
    <2>2. HistoryOK /\ ShownOK /\ ClearedInv
      BY DEF RouteInv, FeedInv
    <2>3. generation' \in 0 .. 1 /\ generation' # generation
      BY <1>5, <2>2, RecognizedType DEF ApplyRoute, ShownOK
    <2>4. /\ t \in 1 .. Now /\ t <= m.hi
          /\ RouteAt(m.hi) = route /\ JumpsAt(m.hi) = jumps
      BY <1>1, <1>2, <1>3, JournalRow
    <2>5. jumps \in Nat /\ route \in Seq(Systems) /\ route # <<>>
      <3>1. route \in Routes
        BY <1>2, <1>3, <2>2, <2>4 DEF HistoryOK
      <3>. QED
        BY <1>2, <2>1, <2>4, <3>1, FeedAssumption
    <2>6. /\ remaining' = Left(route, jumps) /\ target' = route[Len(route)]
          /\ next' = NextAfterRoute(Left(route, jumps), NextListed(route, jumps))
          /\ eventTime' = IF NewerRoute(t) THEN t ELSE eventTime
      BY <1>5 DEF ApplyRoute
    <2>7. remaining' = CountAt(m.hi) /\ remaining' \in Nat /\ remaining' # NoCount
      BY <2>4, <2>5, <2>6, LeftType DEF CountAt, NoCount
    <2>8. /\ SeenInv' /\ WireInv' /\ seen' \in 0 .. Now
          /\ seen' = m.hi \/ (seen' = seen /\ remaining' = remaining /\ m.hi < seen)
      BY <1>1, <1>3, <1>5, <2>7, CountTaken
    <2>9. ShownOK'
      <3>1. target' \in Systems
        BY <2>5, <2>6
      <3>2. next' \in Systems \cup {NoName}
        BY <2>2, <2>5, <2>6, NextListedType DEF NextAfterRoute, ShownOK
      <3>3. eventTime' \in 0 .. Now
        BY <2>1, <2>4, <2>6
      <3>. QED
        BY <2>1, <2>3, <2>7, <2>8, <3>1, <3>2, <3>3 DEF ShownOK
    <2>10. ClearedInv'
      BY <2>7 DEF ClearedInv
    <2>11. ASSUME remaining = NoCount PROVE seen' > seen
      <3>1. NewerRoute(t)
        BY <1>5, <2>11 DEF Obsolete, NoCount
      <3>2. t > eventTime
        BY <2>1, <2>4, <3>1 DEF NewerRoute
      <3>3. t \notin eventTime + 1 .. seen
        BY <1>3, <2>2, <2>11 DEF ClearedInv
      <3>4. t > seen
        BY <2>1, <2>4, <3>2, <3>3
      <3>. QED
        BY <2>1, <2>4, <2>8, <3>4
    <2>. QED
      BY <2>1, <2>3, <2>7, <2>8, <2>9, <2>10, <2>11 DEF RouteInv, StepOK
  <1>. QED
    BY <1>3, <1>4, <1>5

LEMMA RestartStep == ASSUME RouteInv, Restart PROVE RouteInv' /\ remaining' = NoCount
  <1>1. /\ target' = NoName /\ next' = NoName /\ remaining' = NoCount
        /\ eventTime' = 0 /\ generation' = 0 /\ seen' = 0
        /\ link' = FALSE /\ wire' = <<>> /\ history' = history /\ filed' = filed
    BY DEF Restart
  <1>2. FeedInv'
    BY <1>1, DropFacts DEF RouteInv
  <1>3. Now' = Now /\ Now \in Nat /\ \A v : CountAt(v)' = CountAt(v)
    BY <1>1, HistoryStays, NowIsNat DEF RouteInv, FeedInv
  <1>4. ShownOK'
    BY <1>1, <1>3 DEF ShownOK
  <1>5. Plots(1, 0) = {}
    BY DEF Plots
  <1>6. CountAt(0) = NoCount
    BY <1>5 DEF CountAt, RouteAt
  <1>7. SeenInv'
    BY <1>1, <1>3, <1>6 DEF SeenInv
  <1>8. WireInv'
    <2>1. Len(wire') = 0
      BY <1>1, EmptySeq
    <2>2. 1 .. Len(wire') = {}
      BY <2>1
    <2>. QED
      BY <2>2 DEF WireInv
  <1>9. ClearedInv'
    BY <1>1 DEF ClearedInv
  <1>. QED
    BY <1>1, <1>2, <1>4, <1>7, <1>8, <1>9 DEF RouteInv

LEMMA RouteNext ==
  ASSUME RouteInv, [Next]_vars
  PROVE  /\ RouteInv'
         /\ remaining = NoCount /\ remaining' # NoCount => seen' > seen
         /\ <<target, next, remaining>>' # <<target, next, remaining>>
              => generation' # generation \/ seen' = 0
  <1>1. CASE FeedStep
    <2>1. ShownStays /\ Feed
      BY <1>1 DEF FeedStep, ShownStays, routeVars
    <2>2. RouteInv'
      BY <2>1, FeedNext
    <2>. QED
      BY <2>1, <2>2 DEF ShownStays
  <1>2. CASE Receive
    <2>1. CASE ReceiveNoRow
      BY <2>1, IgnoreStep DEF ReceiveNoRow, StepOK
    <2>. QED
      BY <1>2, <2>1, StatusStep, TargetStep, ClearStep, JournalClearStep,
         JournalRouteStep DEF Receive, StepOK
  <1>3. CASE Restart
    <2>1. RouteInv' /\ remaining' = NoCount /\ seen' = 0
      BY <1>3, RestartStep DEF Restart
    <2>. QED
      BY <2>1
  <1>4. CASE UNCHANGED vars
    <2>1. ShownStays /\ history' = history /\ filed' = filed /\ link' = link /\ wire' = wire
      BY <1>4 DEF vars, feedVars, routeVars, ShownStays
    <2>2. \A m : MessageOK(m) => MessageOK(m)'
      BY <2>1, HistoryStays DEF MessageOK
    <2>3. ASSUME NEW i \in 1 .. Len(wire) PROVE MessageOK(wire[i])'
      <3>1. PICK n : n = wire[i] /\ n = wire'[i]
        BY <2>1
      <3>. QED
        BY <2>2, <3>1 DEF RouteInv, FeedInv, MessageOK
    <2>4. FeedInv'
      BY <2>1, <2>3, HistoryStays DEF RouteInv, FeedInv
    <2>5. WireInv'
      BY <2>1 DEF RouteInv, WireInv, ShownStays
    <2>6. RouteInv'
      BY <2>1, <2>4, <2>5, SameHistory
    <2>. QED
      BY <2>1, <2>6 DEF ShownStays
  <1>. QED
    BY <1>1, <1>2, <1>3, <1>4 DEF Next

-------------------------------------------------------------------------------
\* The theorems.

\* Every variable has its type.
THEOREM TypeCorrect == Spec => []TypeOK
<1>1. Init => RouteInv
  BY RouteInit
<1>2. RouteInv /\ [Next]_vars => RouteInv'
  BY RouteNext
<1>3. RouteInv => TypeOK
  BY DEF RouteInv, FeedInv, HistoryOK, ShownOK, TypeOK
<1>. QED
  BY <1>1, <1>2, <1>3, PTL DEF Spec

\* No change of the route goes without a new generation, which is what makes the
\* dashboard draw it.
THEOREM ChangesAlwaysShown == Spec => ChangesAreShown
<1>1. Init => RouteInv
  BY RouteInit
<1>2. RouteInv /\ [Next]_vars => RouteInv'
  BY RouteNext
<1>3. RouteInv /\ [Next]_vars
        => [<<target, next, remaining>>' # <<target, next, remaining>>
              => generation' # generation \/ seen' = 0]_vars
  BY RouteNext
<1>. QED
  BY <1>1, <1>2, <1>3, PTL DEF Spec, ChangesAreShown

\* A route that was cleared comes back only with news of a later event, whatever
\* is filed late and whatever replies and pushes cross each other.
THEOREM ClearAlwaysStays == Spec => ClearStays
<1>1. Init => RouteInv
  BY RouteInit
<1>2. RouteInv /\ [Next]_vars => RouteInv'
  BY RouteNext
<1>3. RouteInv /\ [Next]_vars
        => [remaining = NoCount /\ remaining' # NoCount => seen' > seen]_vars
  BY RouteNext
<1>. QED
  BY <1>1, <1>2, <1>3, PTL DEF Spec, ClearStays

-------------------------------------------------------------------------------
\* If plots are filed in time, EddRoute implements RouteView, and no old message
\* brings back the count of an earlier event in place of a dated one.
\*
\* Only a journal message can be older than what is shown.  The invariant says
\* that no plot then lies between the two; and the time of the route, with which
\* apply_journal_route compares, is not before a plot that is dated.

\* Every plot among the first b events of h is among the first a.
PlotsBy(h, a, b) == \A t \in 1 .. b : h[t].event = "NavRoute" => t <= a

\* What was shown or is on the wire is about plots that are filed.
FiledInv ==
  /\ PlotsBy(history, filed, seen)
  /\ \A j \in 1 .. Len(wire) : PlotsBy(history, filed, wire[j].hi)

\* A journal message has every plot that was shown or comes before it.
JournalInv ==
  \A i \in 1 .. Len(wire) :
    wire[i].kind = "journal" =>
      /\ PlotsBy(history, wire[i].hi, seen)
      /\ \A j \in 1 .. i : PlotsBy(history, wire[i].hi, wire[j].hi)

AgeInv == FiledInv /\ JournalInv

-------------------------------------------------------------------------------
\* Plots.

LEMMA PlotsByLater ==
  ASSUME NEW h, NEW a \in Nat, NEW c \in Nat, NEW b \in Nat, a <= c, PlotsBy(h, a, b)
  PROVE  PlotsBy(h, c, b)
BY DEF PlotsBy

LEMMA PlotsByAll ==
  ASSUME NEW h, NEW a \in Nat, NEW b \in Nat, b <= a
  PROVE  PlotsBy(h, a, b)
BY DEF PlotsBy

\* After a clear and no plot there is no route.
LEMMA NoRouteSince ==
  ASSUME HistoryOK, NEW c \in 1 .. Now, NEW v \in 0 .. Now, c <= v,
         history[c].event = "NavRouteClear",
         \A t \in c + 1 .. v : history[t].event # "NavRoute"
  PROVE  CountAt(v) = NoCount
  <1> DEFINE n == Newest(Plots(1, v))
  <1>0. Now \in Nat
    BY NowIsNat
  <1>1. Plots(1, v) \in SUBSET (1 .. v) /\ c \in Plots(1, v)
    BY <1>0 DEF Plots
  <1>2. n \in 1 .. v /\ n \in Plots(1, v) /\ c <= n
    BY <1>0, <1>1, NewestIs
  <1> HIDE DEF n
  <1>3. history[n].event # "NavRoute"
    BY <1>0, <1>2
  <1>4. history[n].route = <<>>
    BY <1>0, <1>2, <1>3 DEF HistoryOK
  <1>. QED
    BY <1>2, <1>4 DEF n, CountAt, RouteAt

\* Without a new plot the count is lost or gets no larger.
LEMMA CountFalls ==
  ASSUME HistoryOK, NEW u \in 0 .. Now, NEW v \in 0 .. Now, u <= v,
         Plots(1, u) # {}, RouteAt(u) # <<>>,
         \A t \in u + 1 .. v : history[t].event # "NavRoute"
  PROVE  CountAt(v) = NoCount \/ CountAt(v) <= CountAt(u)
  <1> DEFINE n == Newest(Plots(1, v))
             t == Newest(Plots(1, u))
  <1>0. Now \in Nat
    BY NowIsNat
  <1>1. /\ Plots(1, v) \in SUBSET (1 .. v) /\ Plots(1, u) \in SUBSET (1 .. u)
        /\ Plots(1, u) \subseteq Plots(1, v)
        /\ Plots(1, u) # {} /\ Plots(1, v) # {}
        /\ 1 \in Nat /\ u \in Nat /\ v \in Nat
    BY <1>0 DEF Plots
  <1>2. t \in 1 .. u /\ t \in Plots(1, u) /\ \A j \in Plots(1, u) : j <= t
    BY <1>0, <1>1, NewestIs
  <1>3. n \in 1 .. v /\ n \in Plots(1, v) /\ \A j \in Plots(1, v) : j <= n
    BY <1>0, <1>1, NewestIs
  <1>4. CASE n > u
    <2>1. history[n].event # "NavRoute" /\ n \in 1 .. Now
      BY <1>0, <1>3, <1>4
    <2>2. history[n].route = <<>>
      BY <2>1 DEF HistoryOK
    <2>. QED
      BY <1>3, <2>2 DEF CountAt, RouteAt
  <1>5. CASE n <= u
    <2>1. n \in Plots(1, u)
      BY <1>3, <1>5 DEF Plots
    <2>2. n = t
      BY <1>1, <1>2, <1>3, <2>1
    <2>3. RouteAt(v) = RouteAt(u) /\ RouteAt(u) \in Seq(Systems) /\ t \in Int
      BY <1>2, <1>3, <2>2, AtTypes DEF RouteAt
    <2>4. PICK r \in Seq(Systems) : r = RouteAt(u)
      BY <2>3
    <2>5. CountAt(v) = Left(r, v - t) /\ CountAt(u) = Left(r, u - t)
      BY <2>2, <2>3, <2>4 DEF CountAt, JumpsAt
    <2>6. Left(r, v - t) <= Left(r, u - t)
      BY <1>0, <1>2, <2>3, <2>4 DEF Left
    <2>. QED
      BY <2>5, <2>6
  <1>. QED
    BY <1>0, <1>3, <1>4, <1>5

LEMMA AgeInit == Init => AgeInv
<1> SUFFICES ASSUME Init PROVE AgeInv
  OBVIOUS
<1>1. history = <<>> /\ filed = 0 /\ wire = <<>> /\ seen = 0 /\ eventTime = 0
  BY DEF Init, FeedInit
<1>2. Len(wire) = 0
  BY <1>1, EmptySeq
<1>. QED
  BY <1>1, <1>2 DEF AgeInv, FiledInv, JournalInv, PlotsBy

-------------------------------------------------------------------------------
\* The steps of the sources.

\* Ranges that every step below needs.
LEMMA Ranges ==
  ASSUME RouteInv
  PROVE  /\ Now \in Nat /\ seen \in 0 .. Now /\ eventTime \in 0 .. Now
         /\ filed \in 0 .. Now /\ Len(wire) \in Nat /\ HistoryOK
         /\ \A i \in 1 .. Len(wire) : wire[i] \in Messages /\ wire[i].hi \in 0 .. Now
  <1>1. /\ Now \in Nat /\ seen \in 0 .. Now /\ eventTime \in 0 .. Now
        /\ filed \in 0 .. Now /\ Len(wire) \in Nat /\ HistoryOK
        /\ \A i \in 1 .. Len(wire) : wire[i] \in Messages
    BY NowIsNat DEF RouteInv, FeedInv, ShownOK
  <1>. QED
    BY <1>1, MessageShape

\* A journal message about all that is filed, or a live one if all plots are.
LEMMA PutAges ==
  ASSUME RouteInv, AgeInv, NEW m \in Messages, MessageOK(m), Put(<<m>>),
         UNCHANGED <<history, link, seen, eventTime>>,
         filed' \in 0 .. Now, filed <= filed',
         m.kind # "status", m.kind = "journal" => m.hi = filed',
         PlotsBy(history, filed', m.hi)
  PROVE  AgeInv'
  <1>0. /\ Now \in Nat /\ seen \in 0 .. Now /\ eventTime \in 0 .. Now
        /\ filed \in 0 .. Now /\ Len(wire) \in Nat
        /\ \A i \in 1 .. Len(wire) : wire[i].hi \in 0 .. Now
        /\ filed \in Nat /\ filed' \in Nat
    BY Ranges
  <1>1. /\ Len(wire') = Len(wire) + 1
        /\ \A i \in 1 .. Len(wire) : wire'[i] = wire[i]
        /\ wire'[Len(wire) + 1] = m
    BY PutFacts DEF RouteInv
  <1>2. m.hi \in 0 .. Now
    BY MessageShape, Ranges
  <1>3. \A i \in 1 .. Len(wire) + 1 : i \in 1 .. Len(wire) \/ i = Len(wire) + 1
    BY <1>0
  <1>4. PlotsBy(history, filed', seen)
    BY <1>0, PlotsByLater DEF AgeInv, FiledInv
  <1>5. ASSUME NEW j \in 1 .. Len(wire) + 1 PROVE PlotsBy(history, filed', wire'[j].hi)
    <2>1. CASE j \in 1 .. Len(wire)
      BY <1>0, <1>1, <2>1, PlotsByLater DEF AgeInv, FiledInv
    <2>2. CASE j = Len(wire) + 1
      BY <1>1, <2>2
    <2>. QED
      BY <1>3, <2>1, <2>2
  <1>6. FiledInv'
    BY <1>1, <1>4, <1>5 DEF FiledInv
  <1>7. JournalInv'
    <2> SUFFICES ASSUME NEW i \in 1 .. Len(wire) + 1, wire'[i].kind = "journal"
                 PROVE  /\ PlotsBy(history, wire'[i].hi, seen)
                        /\ \A j \in 1 .. i : PlotsBy(history, wire'[i].hi, wire'[j].hi)
      BY <1>1 DEF JournalInv
    <2>1. CASE i \in 1 .. Len(wire)
      <3>1. \A j \in 1 .. i : j \in 1 .. Len(wire)
        BY <1>0, <2>1
      <3>. QED
        BY <1>1, <2>1, <3>1 DEF AgeInv, JournalInv
    <2>2. CASE i = Len(wire) + 1
      BY <1>1, <1>4, <1>5, <2>2
    <2>. QED
      BY <1>3, <2>1, <2>2
  <1>. QED
    BY <1>6, <1>7 DEF AgeInv

\* A step of the wire alone that keeps the messages, or has none left.
LEMMA KeptAges ==
  ASSUME RouteInv, AgeInv, wire' \in {wire, <<>>},
         UNCHANGED <<history, seen, eventTime>>, filed' \in Nat, filed <= filed'
  PROVE  AgeInv'
  <1>0. /\ Now \in Nat /\ seen \in 0 .. Now /\ filed \in Nat
        /\ \A i \in 1 .. Len(wire) : wire[i].hi \in 0 .. Now
    BY Ranges
  <1>1. \A i \in 1 .. Len(wire') : i \in 1 .. Len(wire) /\ wire'[i] = wire[i] /\ wire' = wire
    <2>1. Len(<<>>) = 0 /\ 1 .. 0 = {}
      BY EmptySeq
    <2>. QED
      BY <2>1
  <1>2. FiledInv'
    BY <1>0, <1>1, PlotsByLater DEF AgeInv, FiledInv
  <1>3. JournalInv'
    BY <1>1 DEF AgeInv, JournalInv
  <1>. QED
    BY <1>2, <1>3 DEF AgeInv

\* The game goes on: earlier events stay what they are.
LEMMA HappenAges ==
  ASSUME RouteInv, AgeInv, NEW e, history' = Append(history, e),
         UNCHANGED <<filed, wire, seen, eventTime>>
  PROVE  AgeInv'
  <1>0. /\ Now \in Nat /\ seen \in 0 .. Now /\ eventTime \in 0 .. Now
        /\ \A i \in 1 .. Len(wire) : wire[i].hi \in 0 .. Now
    BY Ranges
  <1>1. \A t \in 1 .. Now : history'[t] = history[t]
    <2>1. Now \in 0 .. Now /\ HistoryOK
      BY <1>0, Ranges
    <2>. QED
      BY <2>1, PastStays
  <1>2. ASSUME NEW a, NEW b \in 0 .. Now, PlotsBy(history, a, b)
        PROVE  PlotsBy(history', a, b)
    <2>1. \A t \in 1 .. b : t \in 1 .. Now
      BY <1>0
    <2>. QED
      BY <1>1, <1>2, <2>1 DEF PlotsBy
  <1>3. FiledInv'
    BY <1>0, <1>2 DEF AgeInv, FiledInv
  <1>4. JournalInv'
    <2> SUFFICES ASSUME NEW i \in 1 .. Len(wire), wire[i].kind = "journal"
                 PROVE  /\ PlotsBy(history', wire[i].hi, seen)
                        /\ \A j \in 1 .. i : PlotsBy(history', wire[i].hi, wire[j].hi)
      BY DEF JournalInv
    <2>1. Len(wire) \in Nat
      BY Ranges
    <2>2. \A j \in 1 .. i : j \in 1 .. Len(wire) /\ wire[j].hi \in 0 .. Now
      BY <1>0, <2>1
    <2>. QED
      BY <1>0, <1>2, <2>2 DEF AgeInv, JournalInv
  <1>. QED
    BY <1>3, <1>4 DEF AgeInv

LEMMA FeedAges ==
  ASSUME "NavRoute" \notin Late, RouteInv, AgeInv, Feed, ShownStays
  PROVE  AgeInv'
  <1>0. /\ Now \in Nat /\ filed \in 0 .. Now /\ HistoryOK /\ seen \in 0 .. Now
        /\ UNCHANGED <<seen, eventTime>> /\ FeedInv
    BY Ranges DEF ShownStays, RouteInv
  <1>1. CASE Plot \/ Jump \/ Clear
    <2>1. PICK e : history' = Append(history, e)
      BY <1>1 DEF Plot, Jump, Clear, Happen
    <2>2. UNCHANGED <<filed, wire>>
      BY <1>1 DEF Plot, Jump, Clear, Happen
    <2>. QED
      BY <1>0, <2>1, <2>2, HappenAges
  <1>2. CASE File
    <2>1. /\ filed' = filed + 1 /\ filed' \in 0 .. Now /\ filed' \in 1 .. Now + 1
          /\ filed' \in Nat /\ filed <= filed' /\ UNCHANGED <<history, link>>
      BY <1>0, <1>2 DEF File
    <2>2. CASE UNCHANGED wire
      BY <1>0, <2>1, <2>2, KeptAges
    <2>3. CASE Put(<<Journal(filed', filed')>>)
      <3>1. PICK f \in 0 .. Now : f = filed' /\ f \in 1 .. Now + 1
        BY <2>1
      <3>2. Journal(f, f) \in Messages /\ MessageOK(Journal(f, f))
        BY <1>0, <3>1, JournalFacts
      <3>3. PICK m \in Messages : m = Journal(f, f)
        BY <3>2
      <3>4. m.hi = f /\ m.kind = "journal"
        BY <3>3 DEF Journal
      <3>5. PlotsBy(history, filed', m.hi)
        BY <2>1, <3>1, <3>4, PlotsByAll
      <3>. QED
        BY <1>0, <2>1, <2>3, <3>1, <3>2, <3>3, <3>4, <3>5, PutAges
    <2>. QED
      BY <1>2, <2>2, <2>3 DEF File
  <1>3. ASSUME LiveAllowed PROVE PlotsBy(history, filed, Now)
    BY <1>0, <1>3 DEF LiveAllowed, PlotsBy
  <1>4. CASE PushTarget
    <2>1. PICK m \in Messages :
            MessageOK(m) /\ m.kind = "target" /\ m.hi = Now /\ Put(<<m>>)
      BY <1>0, <1>4, TargetPushed
    <2>2. UNCHANGED <<history, filed, link>> /\ LiveAllowed
      BY <1>4 DEF PushTarget
    <2>. QED
      BY <1>0, <1>3, <2>1, <2>2, PutAges
  <1>5. CASE PushClear
    <2> DEFINE n == [kind |-> "clear", hi |-> Now]
    <2>1. n.kind = "clear" /\ n.hi = Now
      OBVIOUS
    <2>2. /\ Put(<<n>>) /\ UNCHANGED <<history, filed, link>> /\ LiveAllowed
          /\ Now > 0 /\ history[Now].event = "NavRouteClear"
      BY <1>5 DEF PushClear
    <2>3. n \in Messages /\ MessageOK(n)
      BY <1>0, <2>2 DEF Messages, MessageOK
    <2> HIDE DEF n
    <2>4. PICK m \in Messages : m = n
      BY <2>3
    <2>. QED
      BY <1>0, <1>3, <2>1, <2>2, <2>3, <2>4, PutAges
  <1>6. CASE Reply
    <2>1. /\ Recent(filed) \in Messages /\ MessageOK(Recent(filed))
          /\ Recent(filed).kind = "journal" /\ Recent(filed).hi = filed
      BY <1>0, RecentFacts
    <2>2. Put(<<Recent(filed)>>) /\ UNCHANGED <<history, filed, link>>
      BY <1>6 DEF Reply
    <2>3. PlotsBy(history, filed', filed)
      BY <1>0, <2>2, PlotsByAll
    <2>4. PICK m \in Messages : m = Recent(filed)
      BY <2>1
    <2>. QED
      BY <1>0, <2>1, <2>2, <2>3, <2>4, PutAges
  <1>7. CASE Connect
    <2>1. /\ Len(wire') = 2 /\ wire'[1].hi = Now /\ wire'[2].hi = filed
          /\ history' = history /\ filed' = filed /\ LiveAllowed
      <3>1. LiveAllowed
        BY <1>7 DEF Connect
      <3>. QED
        BY <1>0, <1>7, <3>1, ConnectFacts
    <2>2. ASSUME NEW b \in 0 .. Now PROVE PlotsBy(history, filed, b)
      BY <1>0, <1>3, <2>1 DEF PlotsBy
    <2>3. \A i \in 1 .. 2 : wire'[i].hi \in 0 .. Now
      BY <1>0, <2>1
    <2>4. FiledInv'
      BY <1>0, <2>1, <2>2, <2>3 DEF FiledInv
    <2>5. JournalInv'
      <3> SUFFICES ASSUME NEW i \in 1 .. 2, wire'[i].kind = "journal"
                   PROVE  /\ PlotsBy(history, wire'[i].hi, seen)
                          /\ \A j \in 1 .. i : PlotsBy(history, wire'[i].hi, wire'[j].hi)
        BY <1>0, <2>1 DEF JournalInv
      <3>1. CASE i = 1
        BY <1>0, <2>1, <3>1, PlotsByAll
      <3>2. CASE i = 2
        BY <1>0, <2>1, <2>2, <2>3, <3>2
      <3>. QED
        BY <3>1, <3>2
    <2>. QED
      BY <2>4, <2>5 DEF AgeInv
  <1>8. CASE Lose
    <2>1. wire' = <<>> /\ UNCHANGED <<history, filed>>
      BY <1>8 DEF Lose
    <2>2. filed' \in Nat /\ filed <= filed'
      BY <1>0, <2>1
    <2>. QED
      BY <1>0, <2>1, <2>2, KeptAges
  <1>. QED
    BY <1>1, <1>2, <1>4, <1>5, <1>6, <1>7, <1>8 DEF Feed

-------------------------------------------------------------------------------
\* The steps of the device.  Each keeps the invariant, and shows the count of no
\* earlier event in place of a dated one.

StepAges ==
  /\ AgeInv' /\ (Dated => seen' >= seen)
  /\ UNCHANGED <<remaining, seen>> \/ seen' > 0

\* The message taken was the first.
LEMMA TakeAges ==
  ASSUME RouteInv, AgeInv, NEW kind, Take(kind), seen' \in {seen, wire[1].hi}
  PROVE  AgeInv'
  <1>1. /\ Len(wire) \in Nat \ {0} /\ Len(wire') = Len(wire) - 1
        /\ \A i \in 1 .. Len(wire') : wire'[i] = wire[i + 1] /\ i + 1 \in 1 .. Len(wire)
        /\ history' = history /\ filed' = filed
    BY TakeFacts DEF RouteInv, Take
  <1>2. 1 \in 1 .. Len(wire)
    BY <1>1
  <1>3. FiledInv'
    BY <1>1, <1>2 DEF AgeInv, FiledInv
  <1>4. JournalInv'
    <2> SUFFICES ASSUME NEW i \in 1 .. Len(wire'), wire'[i].kind = "journal"
                 PROVE  /\ PlotsBy(history, wire'[i].hi, seen')
                        /\ \A j \in 1 .. i : PlotsBy(history, wire'[i].hi, wire'[j].hi)
      BY <1>1 DEF JournalInv
    <2>1. /\ i + 1 \in 1 .. Len(wire) /\ wire'[i] = wire[i + 1] /\ 1 \in 1 .. i + 1
          /\ PlotsBy(history, wire[i + 1].hi, seen)
          /\ \A j \in 1 .. i + 1 : PlotsBy(history, wire[i + 1].hi, wire[j].hi)
      BY <1>1 DEF AgeInv, JournalInv
    <2>2. \A j \in 1 .. i : j + 1 \in 1 .. i + 1 /\ wire'[j] = wire[j + 1]
      BY <1>1
    <2>. QED
      BY <2>1, <2>2
  <1>. QED
    BY <1>3, <1>4 DEF AgeInv

\* A message that tells nothing of the count.
LEMMA QuietAges ==
  ASSUME RouteInv, AgeInv, NEW kind, Take(kind), UNCHANGED <<remaining, seen>>
  PROVE  StepAges
  <1>1. eventTime \in Nat /\ seen \in Nat
    BY Ranges
  <1>. QED
    BY <1>1, TakeAges DEF StepAges

\* A count, and thus an event.
LEMMA CountIsLater ==
  ASSUME NEW v \in Nat, CountAt(v) # NoCount
  PROVE  v > 0
  <1> SUFFICES ASSUME v = 0 PROVE FALSE
    OBVIOUS
  <1>1. Plots(1, 0) = {}
    BY DEF Plots
  <1>. QED
    BY <1>1 DEF CountAt, RouteAt

LEMMA StatusAges == ASSUME RouteInv, AgeInv, ReceiveStatus PROVE StepAges
  <1>1. PICK m : m = Head(wire)
    OBVIOUS
  <1>2. /\ Take("status") /\ eventTime' = eventTime
        /\ \/ m.count /\ See(m.hi)
           \/ UNCHANGED <<remaining, seen>>
    BY <1>1 DEF ReceiveStatus
  <1>3. /\ m = wire[1] /\ m.kind = "status" /\ MessageOK(m) /\ m.hi \in 0 .. Now
        /\ Now \in Nat /\ m.hi >= seen /\ seen \in 0 .. Now
    BY <1>1, <1>2, ReceiveFacts
  <1>4. CASE UNCHANGED <<remaining, seen>>
    BY <1>2, <1>4, QuietAges
  <1>5. CASE m.count /\ See(m.hi)
    <2>1. seen' = m.hi
      BY <1>3, <1>5 DEF See
    <2>2. AgeInv'
      BY <1>2, <1>3, <2>1, TakeAges
    <2>3. m.hi > 0
      BY <1>3, <1>5, CountIsLater DEF MessageOK
    <2>. QED
      BY <1>3, <2>1, <2>2, <2>3 DEF StepAges
  <1>. QED
    BY <1>2, <1>4, <1>5

\* A live message is about the event that is shown next.
LEMMA LiveAges ==
  ASSUME RouteInv, AgeInv, NEW kind \in {"target", "clear"}, Take(kind),
         See(Head(wire).hi)
  PROVE  StepAges
  <1>1. PICK m : m = Head(wire)
    OBVIOUS
  <1>2. /\ m = wire[1] /\ m \in Messages /\ m.kind = kind /\ m.hi \in 0 .. Now
        /\ Now \in Nat /\ m.hi >= seen /\ seen \in 0 .. Now
    BY <1>1, ReceiveFacts
  <1>3. m.hi > 0
    <2>1. HistoryOK
      BY Ranges
    <2>. QED
      BY <1>2, <2>1, MessageShape
  <1>4. seen' = m.hi
    BY <1>1, <1>2 DEF See
  <1>5. AgeInv'
    BY <1>2, <1>4, TakeAges
  <1>. QED
    BY <1>2, <1>3, <1>4, <1>5 DEF StepAges

\* An old journal message has all the plots that are shown.
LEMMA OldJournal ==
  ASSUME RouteInv, AgeInv, Take("journal"), NEW m, m = Head(wire), m.hi < seen
  PROVE  \A t \in m.hi + 1 .. seen : history[t].event # "NavRoute"
  <1>1. /\ m = wire[1] /\ m.kind = "journal" /\ m.hi \in 0 .. Now /\ Now \in Nat
        /\ seen \in 0 .. Now /\ Len(wire) \in Nat \ {0}
    BY ReceiveFacts, TakeFacts DEF RouteInv
  <1>2. PlotsBy(history, m.hi, seen)
    BY <1>1 DEF AgeInv, JournalInv
  <1>3. \A t \in m.hi + 1 .. seen : t \in 1 .. seen /\ ~(t <= m.hi)
    BY <1>1
  <1>. QED
    BY <1>2, <1>3 DEF PlotsBy

LEMMA JournalClearAges == ASSUME RouteInv, AgeInv, ReceiveJournalClear PROVE StepAges
  <1>1. PICK m, t : m = Head(wire) /\ t = Row(m)
    OBVIOUS
  <1>2. /\ Take("journal") /\ Found(m) # {} /\ history[t].event = "NavRouteClear"
        /\ Ignore \/ See(m.hi)
    BY <1>1 DEF ReceiveJournalClear
  <1>3. CASE Ignore
    BY <1>2, <1>3, QuietAges DEF Ignore, routeVars
  <1>4. CASE See(m.hi)
    <2>1. /\ m = wire[1] /\ m.hi \in 0 .. Now /\ Now \in Nat
          /\ seen \in 0 .. Now /\ HistoryOK
      BY <1>1, <1>2, ReceiveFacts, Ranges
    <2>2. /\ t \in 1 .. Now /\ t <= m.hi /\ RouteAt(m.hi) = history[t].route
          /\ \A k \in t + 1 .. m.hi : history[k].event # "NavRoute"
      BY <1>1, <1>2, JournalRow
    <2>3. CASE seen <= m.hi
      <3>1. seen' = m.hi
        BY <1>4, <2>1, <2>3 DEF See
      <3>2. AgeInv'
        BY <1>2, <2>1, <3>1, TakeAges
      <3>3. seen' >= seen /\ seen' > 0
        BY <2>1, <2>2, <2>3, <3>1
      <3>. QED
        BY <3>2, <3>3 DEF StepAges
    <2>4. CASE m.hi < seen
      <3>1. \A k \in m.hi + 1 .. seen : history[k].event # "NavRoute"
        BY <1>1, <1>2, <2>4, OldJournal
      <3>2. \A k \in t + 1 .. seen : history[k].event # "NavRoute"
        <4>1. \A k \in t + 1 .. seen : k \in t + 1 .. m.hi \/ k \in m.hi + 1 .. seen
          BY <2>1, <2>2
        <4>. QED
          BY <2>2, <3>1, <4>1
      <3>3. t <= seen
        BY <2>1, <2>2, <2>4
      <3>4. CountAt(seen) = NoCount
        BY <1>2, <2>1, <2>2, <3>2, <3>3, NoRouteSince
      <3>5. CountAt(m.hi) = NoCount
        BY <1>2, <2>1, <2>2 DEF HistoryOK, CountAt
      <3>6. seen' = seen
        BY <1>4, <2>4, <3>4, <3>5 DEF See
      <3>7. AgeInv'
        BY <1>2, <3>6, TakeAges
      <3>8. seen' >= seen /\ seen' > 0
        BY <2>1, <2>2, <3>3, <3>6
      <3>. QED
        BY <3>7, <3>8 DEF StepAges
    <2>. QED
      BY <2>1, <2>3, <2>4
  <1>. QED
    BY <1>2, <1>3, <1>4

\* An old route that is applied in place of a dated one has the count that is
\* shown: a cleared route is not older, a larger count is obsolete, and without a
\* plot none is smaller.
LEMMA OldRoute ==
  ASSUME RouteInv, AgeInv, Take("journal"), NEW m, m = Head(wire), Found(m) # {},
         NEW t, t = Row(m), history[t].event = "NavRoute", m.hi < seen,
         ~Obsolete(t, CountAt(m.hi)), Dated
  PROVE  CountAt(m.hi) = CountAt(seen)
  <1>1. /\ m = wire[1] /\ m.kind = "journal" /\ m.hi \in 0 .. Now /\ Now \in Nat
        /\ seen \in 0 .. Now /\ eventTime \in 0 .. Now /\ HistoryOK
        /\ \A v \in 0 .. Now : v = seen => remaining = CountAt(v)
    BY ReceiveFacts, Ranges
  <1>2. /\ t \in 1 .. Now /\ t <= m.hi /\ RouteAt(m.hi) = history[t].route
    BY JournalRow
  <1>3. RouteAt(m.hi) # <<>> /\ Plots(1, m.hi) # {}
    <2>1. RouteAt(m.hi) \in Routes
      BY <1>1, <1>2 DEF HistoryOK
    <2>2. t \in Plots(1, m.hi)
      BY <1>1, <1>2 DEF Plots
    <2>. QED
      BY <2>1, <2>2, FeedAssumption
  <1>4. remaining = CountAt(seen)
    BY <1>1
  <1>5. t \in eventTime + 1 .. seen \/ t <= eventTime
    BY <1>1, <1>2
  <1>6. ~NewerRoute(t)
    BY <1>1, <1>2, <1>5 DEF NewerRoute, Dated
  <1>7. remaining >= 0 /\ CountAt(m.hi) <= remaining
    <2>1. remaining \in Nat \cup {NoCount} /\ CountAt(m.hi) \in Nat \cup {NoCount}
      BY <1>1, AtTypes DEF RouteInv, ShownOK
    <2>. QED
      BY <1>6, <2>1 DEF Obsolete, NoCount
  <1>8. CountAt(seen) = NoCount \/ CountAt(seen) <= CountAt(m.hi)
    <2>1. \A k \in m.hi + 1 .. seen : history[k].event # "NavRoute"
      BY OldJournal
    <2>2. m.hi <= seen
      BY <1>1
    <2>. QED
      BY <1>1, <1>3, <2>1, <2>2, CountFalls
  <1>9. CountAt(m.hi) \in Nat \cup {NoCount} /\ CountAt(seen) \in Nat \cup {NoCount}
    BY <1>1, AtTypes
  <1>. QED
    BY <1>4, <1>7, <1>8, <1>9 DEF NoCount

LEMMA JournalRouteAges == ASSUME RouteInv, AgeInv, ReceiveJournalRoute PROVE StepAges
  <1>1. PICK m, t : m = Head(wire) /\ t = Row(m)
    OBVIOUS
  <1>2. /\ Take("journal") /\ Found(m) # {} /\ history[t].event = "NavRoute"
        /\ \/ Ignore
           \/ ~Obsolete(t, Left(history[t].route, m.hi - t)) /\ See(m.hi)
    BY <1>1 DEF ReceiveJournalRoute
  <1>3. CASE Ignore
    BY <1>2, <1>3, QuietAges DEF Ignore, routeVars
  <1>4. CASE ~Obsolete(t, Left(history[t].route, m.hi - t)) /\ See(m.hi)
    <2>1. /\ m = wire[1] /\ m.hi \in 0 .. Now /\ Now \in Nat
          /\ seen \in 0 .. Now /\ HistoryOK
      BY <1>1, <1>2, ReceiveFacts, Ranges
    <2>2. /\ t \in 1 .. Now /\ t <= m.hi /\ RouteAt(m.hi) = history[t].route
          /\ JumpsAt(m.hi) = m.hi - t
      BY <1>1, <1>2, JournalRow
    <2>3. CountAt(m.hi) = Left(history[t].route, m.hi - t)
      <3>1. history[t].route # <<>>
        BY <1>2, <2>1, <2>2, FeedAssumption DEF HistoryOK
      <3>. QED
        BY <2>2, <3>1 DEF CountAt
    <2>4. seen' \in {seen, m.hi} /\ seen' > 0 /\ AgeInv'
      <3>1. seen' = m.hi \/ (seen' = seen /\ m.hi < seen)
        BY <1>4 DEF See
      <3>2. seen' > 0
        BY <2>1, <2>2, <3>1
      <3>3. AgeInv'
        BY <1>2, <2>1, <3>1, TakeAges
      <3>. QED
        BY <3>1, <3>2, <3>3
    <2>5. CASE seen <= m.hi
      BY <2>1, <2>4, <2>5 DEF StepAges
    <2>6. CASE m.hi < seen
      <3> SUFFICES ASSUME Dated PROVE seen' >= seen
        BY <2>4 DEF StepAges
      <3>1. CountAt(m.hi) = CountAt(seen)
        BY <1>1, <1>2, <1>4, <2>3, <2>6, OldRoute
      <3>2. seen' = seen
        BY <1>4, <2>6, <3>1 DEF See
      <3>. QED
        BY <2>1, <3>2
    <2>. QED
      BY <2>1, <2>5, <2>6
  <1>. QED
    BY <1>2, <1>3, <1>4

-------------------------------------------------------------------------------
\* The theorems.

Counts == [v \in 1 .. Now |-> CountAt(v)]

\* A step of the game adds one count, any other keeps them.
LEMMA CountsGrow ==
  ASSUME HistoryOK, NEW e, history' = Append(history, e)
  PROVE  Len(Counts') = Len(Counts) + 1 /\ \A v \in 1 .. Len(Counts) : Counts'[v] = Counts[v]
  <1>1. Now \in Nat /\ Now \in 0 .. Now
    BY NowIsNat
  <1>2. Now' = Now + 1
    BY <1>1, PastStays
  <1>3. \A v \in 1 .. Now : CountAt(v)' = CountAt(v)
    BY <1>1, PastStays
  <1>4. Len(Counts) = Now /\ Len(Counts') = Now + 1
    BY <1>1, <1>2 DEF Counts
  <1>. QED
    BY <1>1, <1>2, <1>3, <1>4 DEF Counts

LEMMA CountsStay ==
  ASSUME history' = history
  PROVE  Counts' = Counts
BY HistoryStays DEF Counts

\* The steps of RouteView.
ViewStep ==
  \/ /\ Len(Counts') = Len(Counts) + 1
     /\ \A v \in 1 .. Len(Counts) : Counts'[v] = Counts[v]
     /\ UNCHANGED <<seen, remaining>>
  \/ /\ seen' \in (IF Dated THEN seen ELSE 1) .. Len(Counts) /\ seen' > 0 /\ remaining' = Counts[seen']
     /\ UNCHANGED Counts
  \/ seen' = 0 /\ remaining' = NoCount /\ UNCHANGED Counts
  \/ UNCHANGED <<Counts, seen, remaining>>

LEMMA FeedView ==
  ASSUME HistoryOK, Feed, ShownStays
  PROVE  ViewStep
  <1>1. UNCHANGED <<seen, remaining>>
    BY DEF ShownStays
  <1>2. CASE Plot \/ Jump \/ Clear
    <2>1. PICK e : history' = Append(history, e)
      BY <1>2 DEF Plot, Jump, Clear, Happen
    <2>. QED
      BY <1>1, <2>1, CountsGrow DEF ViewStep
  <1>3. CASE File \/ PushTarget \/ PushClear \/ Reply \/ Connect \/ Lose
    <2>1. history' = history
      BY <1>3 DEF File, PushTarget, PushClear, Reply, Connect, Lose
    <2>. QED
      BY <1>1, <2>1, CountsStay DEF ViewStep
  <1>. QED
    BY <1>2, <1>3 DEF Feed

LEMMA ReceiveView ==
  ASSUME RouteInv, RouteInv', history' = history, StepAges
  PROVE  ViewStep
  <1>1. Counts' = Counts
    BY CountsStay
  <1>2. CASE UNCHANGED <<remaining, seen>>
    BY <1>1, <1>2 DEF ViewStep
  <1>3. CASE seen' > 0 /\ (Dated => seen' >= seen)
    <2>1. /\ Now' = Now /\ Now \in Nat /\ seen \in 0 .. Now
          /\ \A v : CountAt(v)' = CountAt(v)
      BY HistoryStays, Ranges
    <2>2. seen' \in 0 .. Now' /\ \A v \in 0 .. Now' : v = seen' => remaining' = CountAt(v)'
      BY DEF RouteInv, ShownOK, SeenInv
    <2>3. /\ seen' \in 1 .. Now /\ remaining' = CountAt(seen')
          /\ seen' \in (IF Dated THEN seen ELSE 1) .. Now
      BY <1>3, <2>1, <2>2
    <2>4. Len(Counts) = Now /\ Counts[seen'] = CountAt(seen')
      BY <2>1, <2>3 DEF Counts
    <2>. QED
      BY <1>1, <1>3, <2>3, <2>4 DEF ViewStep
  <1>. QED
    BY <1>2, <1>3 DEF StepAges

LEMMA AgeNext ==
  ASSUME "NavRoute" \notin Late, RouteInv, AgeInv, [Next]_vars
  PROVE  AgeInv' /\ ViewStep /\ (Dated => seen' >= seen \/ seen' = 0)
  <1>0. RouteInv' /\ HistoryOK /\ seen \in Nat /\ filed \in Nat
    BY RouteNext, Ranges
  <1>1. CASE FeedStep
    <2>1. ShownStays /\ Feed
      BY <1>1 DEF FeedStep, ShownStays, routeVars
    <2>. QED
      BY <1>0, <2>1, FeedAges, FeedView DEF ShownStays
  <1>2. CASE Receive
    <2>1. StepAges
      <3>1. CASE ReceiveNoRow
        BY <3>1, QuietAges DEF ReceiveNoRow, Ignore, routeVars
      <3>2. CASE ReceiveTarget
        <4>1. Take("target") /\ (See(Head(wire).hi) \/ UNCHANGED <<remaining, seen>>)
          BY <3>2 DEF ReceiveTarget, TargetTaken
        <4>. QED
          BY <4>1, LiveAges, QuietAges
      <3>3. CASE ReceiveClear
        BY <3>3, LiveAges DEF ReceiveClear
      <3>. QED
        BY <1>2, <3>1, <3>2, <3>3, StatusAges, JournalClearAges, JournalRouteAges DEF Receive
    <2>2. history' = history
      BY <1>2 DEF Receive, ReceiveStatus, ReceiveTarget, ReceiveClear, ReceiveNoRow,
        ReceiveJournalClear, ReceiveJournalRoute, Take
    <2>. QED
      BY <1>0, <2>1, <2>2, ReceiveView DEF StepAges
  <1>3. CASE Restart
    <2>1. /\ seen' = 0 /\ eventTime' = 0 /\ remaining' = NoCount
          /\ wire' = <<>> /\ history' = history /\ filed' = filed
      BY <1>3 DEF Restart
    <2>2. 1 .. Len(wire') = {}
      <3>1. Len(wire') = 0
        BY <2>1, EmptySeq
      <3>. QED
        BY <3>1
    <2>3. AgeInv'
      BY <2>1, <2>2 DEF AgeInv, FiledInv, JournalInv, PlotsBy
    <2>. QED
      BY <2>1, <2>3, CountsStay DEF ViewStep
  <1>4. CASE UNCHANGED vars
    <2>1. UNCHANGED <<history, filed, wire, seen, eventTime, remaining>>
      BY <1>4 DEF vars, feedVars, routeVars
    <2>2. AgeInv'
      BY <1>0, <2>1, KeptAges
    <2>. QED
      BY <1>0, <2>1, <2>2, CountsStay DEF ViewStep
  <1>. QED
    BY <1>1, <1>2, <1>3, <1>4 DEF Next

\* No message brings back the count of an earlier event in place of a dated one,
\* if plots are filed before the live pushes and status replies about them.
THEOREM NeverObsolete ==
  ASSUME "NavRoute" \notin Late
  PROVE  Spec => NoObsoleteCount
<1>1. Init => RouteInv /\ AgeInv
  BY RouteInit, AgeInit
<1>2. RouteInv /\ AgeInv /\ [Next]_vars => RouteInv' /\ AgeInv'
  BY RouteNext, AgeNext
<1>3. RouteInv /\ AgeInv /\ [Next]_vars => [Dated => seen' >= seen \/ seen' = 0]_vars
  BY AgeNext
<1>. QED
  BY <1>1, <1>2, <1>3, PTL DEF Spec, NoObsoleteCount

\* Then every count shown is that of an event of the game, and a dated one is
\* followed by those of later events only: every step is one of RouteView or a
\* stutter.
THEOREM AlwaysShowsHistory ==
  ASSUME "NavRoute" \notin Late
  PROVE  Spec => ShowsHistory
<1>1. Init => RouteInv /\ AgeInv
  BY RouteInit, AgeInit
<1>2. Init => View!Init
  <2> SUFFICES ASSUME Init PROVE View!Init
    OBVIOUS
  <2>1. Now = 0 /\ seen = 0 /\ remaining = NoCount
    BY DEF Init, FeedInit, Now
  <2>2. [v \in 1 .. Now |-> CountAt(v)] = <<>>
    BY <2>1
  <2>. QED
    BY <2>1, <2>2 DEF View!Init
<1>3. RouteInv /\ AgeInv /\ [Next]_vars => RouteInv' /\ AgeInv'
  BY RouteNext, AgeNext
<1>4. RouteInv /\ AgeInv /\ [Next]_vars => [View!Next]_(View!viewVars)
  <2>1. RouteInv /\ AgeInv /\ [Next]_vars => ViewStep
    BY AgeNext
  <2>2. ViewStep => [View!Next]_(View!viewVars)
    BY DEF ViewStep, Counts, View!Next, View!Happen, View!Learn, View!Forget, View!viewVars
  <2>. QED
    BY <2>1, <2>2
<1>. QED
  BY <1>1, <1>2, <1>3, <1>4, PTL DEF Spec, ShowsHistory, View!Spec
===============================================================================
