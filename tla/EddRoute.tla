-------------------------------- MODULE EddRoute --------------------------------
(***************************************************************************)
(* PicoDeck-ED-Display/src/edd_state.c: how the route shown is kept from   *)
(* status replies, live events and journal rows.  Every message is handled *)
(* at once, inside receive_cb.                                             *)
(*                                                                         *)
(* The other fields of edd_state_t are copies of single values of one      *)
(* message and have no part in this.                                       *)
(***************************************************************************)
EXTENDS RouteFeed, FiniteSets

VARIABLES
  target,      \* route_target
  next,        \* next_system
  remaining,   \* remaining_jumps
  eventTime,   \* route_event_time, 0 when empty
  generation,  \* generation, modulo 2
  seen         \* history: the event whose count is shown

routeVars == <<target, next, remaining, eventTime>>
feedVars  == <<history, filed, link, wire>>
vars      == <<feedVars, routeVars, generation, seen>>

\* The count shown is that of event v, and of any later one with the same.
See(v) == seen' = IF v < seen /\ CountAt(v) = CountAt(seen) THEN seen ELSE v

Recognized == generation' = 1 - generation

Take(kind) ==
  /\ wire # <<>> /\ Head(wire).kind = kind
  /\ wire' = Tail(wire)
  /\ UNCHANGED <<history, filed, link>>

-------------------------------------------------------------------------------

\* parse_status.  A null FSDJumpNextSystemName is not copied.
ReceiveStatus ==
  /\ Take("status")
  /\ LET m == Head(wire) IN
       /\ next' = IF m.next THEN NextAt(m.hi) ELSE next
       /\ \/ m.count /\ remaining' = CountAt(m.hi) /\ See(m.hi)
          \/ ~m.count /\ UNCHANGED <<remaining, seen>>
  /\ UNCHANGED <<target, eventTime>>
  /\ Recognized

\* The time of a live event replaces an older one.
LiveTime(t) == eventTime' = IF eventTime = 0 \/ t > eventTime THEN t ELSE eventTime

\* Without RemainingJumpsInRoute the count stays, and with it the event shown.
TargetTaken(m) ==
  /\ \/ m.count /\ remaining' = CountAt(m.hi) /\ See(m.hi)
     \/ ~m.count /\ UNCHANGED <<remaining, seen>>
  /\ next' = IF remaining' = 0 THEN NoName
             ELSE IF m.count THEN NextAt(m.hi) ELSE Stray
  /\ LiveTime(m.hi)
  /\ UNCHANGED target

\* Seeded bug: the handler of FSDTarget does not report that it changed anything.
ReceiveTargetUnnoticed ==
  Take("target") /\ TargetTaken(Head(wire)) /\ UNCHANGED generation

\* parse_generic_ui, FSDTarget.
ReceiveTarget == Take("target") /\ TargetTaken(Head(wire)) /\ Recognized

ClearRoute == remaining' = NoCount /\ target' = NoName /\ next' = NoName

\* Seeded bug: a live clear does not set the time of the route.
ReceiveClearUntimed ==
  /\ Take("clear")
  /\ ClearRoute /\ See(Head(wire).hi)
  /\ UNCHANGED eventTime
  /\ Recognized

\* parse_generic_ui, NavRouteClear: whatever its time.
ReceiveClear ==
  /\ Take("clear")
  /\ ClearRoute /\ See(Head(wire).hi)
  /\ LiveTime(Head(wire).hi)
  /\ Recognized

\* parse_journal_route goes through the rows, newest first, as far as the first
\* one that is not a jump; it counts the jumps before it.
Found(m) == Plots(m.lo, m.hi)
Row(m) == Newest(Found(m))

Ignore == UNCHANGED <<routeVars, generation, seen>>

ReceiveNoRow ==
  /\ Take("journal")
  /\ Found(Head(wire)) = {}
  /\ Ignore

\* apply_journal_clear.
ClearIsOlder(t) == eventTime # 0 /\ t < eventTime

ReceiveJournalClear ==
  /\ Take("journal")
  /\ LET m == Head(wire) IN
       /\ Found(m) # {} /\ history[Row(m)].event = "NavRouteClear"
       /\ \/ ClearIsOlder(Row(m)) /\ Ignore
          \/ /\ ~ClearIsOlder(Row(m))
             /\ ClearRoute /\ See(m.hi)
             /\ eventTime' = Row(m)
             /\ Recognized

\* The summary's list of systems.
Summary(route) ==
  IF Len(route) <= Listed THEN route
  ELSE <<Head(route), Gap, route[Len(route)]>>

\* One item of the list for every jump, then the next one.
NextListed(route, jumps) ==
  LET list == Summary(route)
  IN  IF Left(route, jumps) > 0 /\ jumps < Len(list) /\ list[jumps + 1] # Gap
      THEN list[jumps + 1] ELSE NoName

\* apply_journal_route.
NewerRoute(t) == eventTime = 0 \/ t > eventTime

\* Seeded bug: the count of an older route may increase.
ObsoleteWhenCleared(t, count) == ~NewerRoute(t) /\ remaining < 0

\* Seeded bug: the count has to decrease.
ObsoleteUnlessLower(t, count) ==
  ~NewerRoute(t) /\ (remaining < 0 \/ count >= remaining)

Obsolete(t, count) ==
  ~NewerRoute(t) /\ (remaining < 0 \/ count > remaining)

NextAfterRoute(count, name) ==
  IF count = 0 THEN NoName ELSE IF name # NoName THEN name ELSE next

ApplyRoute(t, route, jumps) ==
  /\ remaining' = Left(route, jumps)
  /\ target' = route[Len(route)]
  /\ next' = NextAfterRoute(Left(route, jumps), NextListed(route, jumps))
  /\ eventTime' = IF NewerRoute(t) THEN t ELSE eventTime
  /\ Recognized

ReceiveJournalRoute ==
  /\ Take("journal")
  /\ LET m == Head(wire)
         t == Row(m)
         jumps == m.hi - t
     IN  /\ Found(m) # {} /\ history[t].event = "NavRoute"
         /\ \/ Obsolete(t, Left(history[t].route, jumps)) /\ Ignore
            \/ /\ ~Obsolete(t, Left(history[t].route, jumps))
               /\ ApplyRoute(t, history[t].route, jumps)
               /\ See(m.hi)

\* The device restarts: edd_state_init.
Restart ==
  /\ target' = NoName /\ next' = NoName /\ remaining' = NoCount
  /\ eventTime' = 0 /\ generation' = 0 /\ seen' = 0
  /\ link' = FALSE /\ wire' = <<>>
  /\ UNCHANGED <<history, filed>>

-------------------------------------------------------------------------------

Init ==
  /\ FeedInit
  /\ target = NoName /\ next = NoName /\ remaining = NoCount
  /\ eventTime = 0 /\ generation = 0 /\ seen = 0

Receive ==
  \/ ReceiveStatus \/ ReceiveTarget \/ ReceiveClear
  \/ ReceiveNoRow \/ ReceiveJournalClear \/ ReceiveJournalRoute

FeedStep == Feed /\ UNCHANGED <<routeVars, generation, seen>>

Next == FeedStep \/ Receive \/ Restart

Spec == Init /\ [][Next]_vars

(***************************************************************************)
(* Fairness: messages arrive, events get filed, and the periodic request   *)
(* is answered (SF: pushes may fill the wire in between).                  *)
(***************************************************************************)
LiveSpec ==
  /\ Spec
  /\ WF_vars(Receive)
  /\ WF_vars(File /\ UNCHANGED <<routeVars, generation, seen>>)
  /\ SF_vars(Reply /\ UNCHANGED <<routeVars, generation, seen>>)

-------------------------------------------------------------------------------
\* Properties.

Events == [event : {"NavRoute", "FSDJump", "NavRouteClear"},
           route : Routes \cup {<<>>}]

Messages ==
  [kind : {"target"}, hi : 1 .. Now, count : BOOLEAN]
    \cup [kind : {"clear"}, hi : 1 .. Now]
    \cup [kind : {"journal"}, lo : 1 .. Now + 1, hi : 0 .. Now]
    \cup [kind : {"status"}, hi : 0 .. Now, count : BOOLEAN, next : BOOLEAN]

\* Every variable has its type.
TypeOK ==
  /\ history \in Seq(Events) /\ filed \in 0 .. Now
  /\ link \in BOOLEAN /\ wire \in Seq(Messages)
  /\ target \in Systems \cup {NoName} /\ next \in Systems \cup {NoName}
  /\ remaining \in Nat \cup {NoCount}
  /\ eventTime \in 0 .. Now /\ seen \in 0 .. Now /\ generation \in 0 .. 1

\* route_event_time is not before the plot of the route shown: the count came
\* from a live event or a journal row.  A status brings a count without a time,
\* and what it tells of a later plot, or after a restart, is not dated.
Dated == \A t \in eventTime + 1 .. seen : history[t].event # "NavRoute"

\* README.md:61-63 (Display) and edd_state.c:235-237: whatever live events,
\* replies and pushes cross each other, every count shown is that of an event
\* of the game, and no count of an earlier event replaces a dated one.
View ==
  INSTANCE RouteView WITH counts <- [v \in 1 .. Now |-> CountAt(v)],
                          count <- remaining, dated <- Dated
ShowsHistory == View!Spec

\* The same promise, for the count alone: an old journal reply does not bring
\* back the count of an earlier event.
NoObsoleteCount == [][Dated => seen' >= seen \/ seen' = 0]_vars

\* And for a count that only a status told: an old journal reply does not bring
\* back the count of an earlier event either.
NoObsoleteStatus == [][~Dated => seen' >= seen \/ seen' = 0]_vars

\* A route that was cleared comes back only with news of a later event, also when
\* everything is filed late.
ClearStays ==
  [][remaining = NoCount /\ remaining' # NoCount => seen' > seen]_vars

\* The dashboard draws when generation has changed: no change of the route goes
\* without one.
ChangesAreShown ==
  [][<<target, next, remaining>>' # <<target, next, remaining>>
       => generation' # generation \/ seen' = 0]_vars

\* The event that set or cleared the route is in the next reply.
InReply == Plots(Recent(Now).lo, Now) # {}

\* edd_state.c:335: the middle of a long route is not listed.
InSummary == Len(RouteAt(Now)) <= Listed

ShowsTruth ==
  /\ remaining = CountAt(Now) /\ target = TargetAt(Now)
  /\ InSummary => next = NextAt(Now)

Counted == \A i \in 1 .. Len(wire) : wire[i].kind = "target" => wire[i].count

\* README.md:61 (Display): the recent journal rows recover the route from missed
\* pushes, lost connections and restarts.  Not so after an FSDTarget off the route
\* that is later than the plot or clear: the rows then count as older.
Recovers ==
  <>[][history' = history]_vars /\ <>[]link /\ <>[]InReply /\ []Counted
    => <>[]ShowsTruth

\* edd_state.c:318-319: each jump advances one item of the saved route list, so
\* that the next system is the one after the jumps made.
NextIsOnRoute ==
  [][ReceiveJournalRoute /\ next' \notin {next, NoName}
       => next' = NextAt(Head(wire).hi)]_vars
===============================================================================
