------------------------------- MODULE Telemetry -------------------------------
(***************************************************************************)
(* The messages of EDDiscovery at both firmwares: edd_state_handle_json    *)
(* with parse_status, parse_indicator and parse_generic_ui of the Display, *)
(* edd_buttons_handle_json of the Keyboard.  Which rows of a journal       *)
(* answer make which route, and the times of the events, are in EddRoute.  *)
(*                                                                         *)
(* A message is the sequence of its members <<key, value>>; a value is a   *)
(* sequence of lexemes.                                                    *)
(***************************************************************************)
EXTENDS JsonTokens

CONSTANTS
  Texts,        \* every string, name and number
  Responses,    \* values of responsetype
  Members,      \* the other members a message may have
  FirstMessages,\* messages a history may begin with
  RouteRows,    \* what the rows of a journal answer say: jumps, next system
  MaxMembers    \* bound: members of a message besides responsetype

VARIABLES
  fields,     \* the texts of edd_state_t
  jumps,      \* remaining_jumps
  flags,      \* its flags
  pips,       \* pips
  lit,        \* s_active_mask, as the set of its bits
  changed,    \* what edd_buttons_handle_json returned, and s_dirty_buttons got
  recognized, \* what edd_state_handle_json returned
  message,    \* history: the message, or <<>>
  before      \* history: fields, flags, pips and lit before it

telemetryVars ==
  <<fields, jumps, flags, pips, lit, changed, recognized, message, before>>

-------------------------------------------------------------------------------
\* The text of a message.

Joined(parts) ==
  LET upTo[n \in 0 .. Len(parts)] ==
        IF n = 0 THEN <<>> ELSE IF n = 1 THEN parts[1]
        ELSE upTo[n - 1] \o <<Mark("comma")>> \o parts[n]
  IN  upTo[Len(parts)]
ObjectText(members) ==
  <<Mark("object")>> \o
  Joined([i \in 1 .. Len(members) |->
            <<Str(members[i][1]), Mark("colon")>> \o members[i][2]]) \o
  <<Mark("endobject")>>
ArrayText(items) == <<Mark("array")>> \o Joined(items) \o <<Mark("endarray")>>

-------------------------------------------------------------------------------
\* edd_state.c

TextFields ==
  { "system", "allegiance", "economy", "security", "ship", "fuel", "tank_size",
    "jump_range", "cargo", "travel_dist", "travel_jumps", "travel_time", "body",
    "station", "commander", "mode", "game_mode", "home_dist", "sol_dist",
    "credits", "next_system", "legal_state" }
Flags == {"mass_locked", "shields_up", "low_fuel", "overheat", "danger", "interdicted"}

\* The fields of a status: the object a field is in, "" for the whole, and its key.
StatusKeys ==
  [ system |-> <<"SystemData", "System">>,   allegiance |-> <<"EDDB", "Allegiance">>,
    economy |-> <<"EDDB", "Economy">>,       security |-> <<"EDDB", "Security">>,
    ship |-> <<"Ship", "Ship">>,             fuel |-> <<"Ship", "Fuel">>,
    tank_size |-> <<"Ship", "TankSize">>,    jump_range |-> <<"Ship", "Range">>,
    cargo |-> <<"Ship", "Cargo">>,           travel_dist |-> <<"Travel", "Dist">>,
    travel_jumps |-> <<"Travel", "Jumps">>,  travel_time |-> <<"Travel", "Time">>,
    body |-> <<"", "Bodyname">>,             station |-> <<"", "StationName">>,
    commander |-> <<"", "Commander">>,       mode |-> <<"", "Mode">>,
    game_mode |-> <<"", "GameMode">>,        home_dist |-> <<"", "HomeDist">>,
    sol_dist |-> <<"", "SolDist">>,          credits |-> <<"", "Credits">> ]

FlagKeys ==
  [ mass_locked |-> "FsdMassLocked", shields_up |-> "ShieldsUp", low_fuel |-> "LowFuel",
    overheat |-> "OverHeating", danger |-> "IsInDanger", interdicted |-> "BeingInterdicted" ]

Root == 1

\* Seeded bug: the name is copied whatever it is.
NextSystemCopied(t) == CopyKey(t, Root, "FSDJumpNextSystemName", fields["next_system"])
NextSystemOf(t) == CopyStringKey(t, Root, "FSDJumpNextSystemName", fields["next_system"])

ParseStatus(t) ==
  /\ fields' = [f \in TextFields |->
       IF f = "next_system" THEN NextSystemOf(t)
       ELSE IF f = "legal_state" THEN fields[f]
       ELSE CopyKey(t, IF StatusKeys[f][1] = "" THEN Root
                       ELSE FindKey(t, Root, StatusKeys[f][1]),
                    StatusKeys[f][2], fields[f])]
  /\ jumps' = IntegerKey(t, Root, "RemainingJumps", jumps)
  /\ UNCHANGED <<flags, pips>>

PipsOf(t) ==
  LET array == FindKey(t, Root, "Pips")
      item(i) == ArrayItem(t, array, i - 1)
  IN  IF ~BoolKey(t, Root, "ValidPips", TRUE) THEN <<0, 0, 0>>
      ELSE [i \in 1 .. 3 |-> IF item(i) # NoToken THEN Atoi(t[item(i)].text) ELSE pips[i]]

ParseIndicator(t) ==
  /\ flags' = [f \in Flags |-> BoolKey(t, Root, FlagKeys[f], flags[f])]
  /\ pips' = PipsOf(t)
  /\ fields' = [fields EXCEPT !["legal_state"] = CopyKey(t, Root, "LegalState", @)]
  /\ UNCHANGED jumps

\* Route and next system are cleared, or taken from the new target.
ParseGenericUi(t) ==
  LET data == FindKey(t, Root, "data")
      event == FindKey(t, data, "EventTypeID")
      target == FindKey(t, data, "FSDTarget")
      cleared == event # NoToken /\ TokenEquals(t, event, "NavRouteClear")
      remaining == IntegerKey(t, target, "RemainingJumpsInRoute", jumps)
  IN  /\ jumps' = IF cleared THEN -1 ELSE IF target = NoToken THEN jumps ELSE remaining
      /\ fields' = [fields EXCEPT !["next_system"] =
           IF cleared THEN "" ELSE IF target = NoToken THEN @
           ELSE IF remaining = 0 THEN "" ELSE CopyStringKey(t, target, "StarSystem", @)]
      /\ UNCHANGED <<flags, pips>>

\* Nothing in the rows applies, they clear the route (-1 jumps), or they give it;
\* an abbreviated name is "" and keeps the old one.
ParseJournalRoute ==
  \/ /\ recognized' = FALSE
     /\ UNCHANGED <<fields, jumps, flags, pips>>
  \/ /\ recognized' = TRUE
     /\ \E row \in RouteRows :
          /\ jumps' = row[1]
          /\ fields' = [fields EXCEPT !["next_system"] =
               IF row[1] <= 0 THEN "" ELSE IF row[2] # "" THEN row[2] ELSE @]
     /\ UNCHANGED <<flags, pips>>

IndicatorResponses == {"indicator", "indicatorpush"}
JournalResponses == {"journalrequest", "journalpush", "journalrefresh"}

\* edd_state_handle_json, by the tokens of the message and its responsetype.
HandleTokens(t) ==
  LET response == IF t = <<>> THEN NoToken ELSE FindKey(t, Root, "responsetype")
      is(names) == response # NoToken /\ \E n \in names : TokenEquals(t, response, n)
  IN  \/ /\ is({"status"}) /\ recognized' = TRUE
         /\ ParseStatus(t)
      \/ /\ is(IndicatorResponses) /\ recognized' = TRUE
         /\ ParseIndicator(t)
      \/ /\ is({"genericui"}) /\ recognized' = TRUE
         /\ ParseGenericUi(t)
      \/ is(JournalResponses) /\ ParseJournalRoute
      \/ /\ ~is({"status", "genericui"} \cup IndicatorResponses \cup JournalResponses)
         /\ recognized' = FALSE
         /\ UNCHANGED <<fields, jumps, flags, pips>>

HandleState(text) == \E t \in {Tokens(text)} : HandleTokens(t)

-------------------------------------------------------------------------------
\* edd_buttons.c

\* Fields that are a flag, or a part of the game that is in front.
FlagTiles ==
  { <<0, "LandingGear">>, <<2, "Supercruise">>, <<2, "FsdCharging">>, <<2, "FsdJump">>,
    <<3, "Lights">>, <<4, "SilentRunning">>, <<5, "NightVision">>,
    <<6, "HardpointsDeployed">>, <<10, "HUDInAnalysisMode">>, <<16, "CargoScoopDeployed">> }
FocusTiles ==
  { <<11, "FSSMode">>, <<18, "TargetPanel">>, <<19, "CommsPanel">>, <<20, "RolePanel">>,
    <<21, "SystemPanel">>, <<22, "GalaxyMap">>, <<23, "SystemMap">> }

Mask(text) ==
  {f[1] : f \in {f \in FlagTiles : JsonBool(text, f[2])}} \cup
  {f[1] : f \in {f \in FocusTiles : JsonStringIs(text, "GUIFocus", f[2])}}

IsIndicator(text) ==
  \/ JsonStringIs(text, "responsetype", "indicator")
  \/ JsonStringIs(text, "responsetype", "indicatorpush")

\* edd_buttons_handle_json
HandleButtons(text) ==
  LET next == IF IsIndicator(text) THEN Mask(text) ELSE lit
  IN  /\ lit' = next
      /\ changed' = (lit \ next) \cup (next \ lit)

-------------------------------------------------------------------------------

\* A message reaches on_websocket_message of both boards.
Receive(m) ==
  /\ HandleState(ObjectText(m)) /\ HandleButtons(ObjectText(m))
  /\ message' = m
  /\ before' = [fields |-> fields, flags |-> flags, pips |-> pips, lit |-> lit]

Orders(response, members) ==
  {<<<<"responsetype", <<Str(response)>>>>>> \o members,
   members \o <<<<"responsetype", <<Str(response)>>>>>>}

Distinct(members) ==
  \A i, j \in DOMAIN members : i # j => members[i][1] # members[j][1]

Messages ==
  UNION {UNION {Orders(r, ms) : r \in Responses} :
           ms \in {s \in UNION {[1 .. n -> Members] : n \in 0 .. MaxMembers} : Distinct(s)}}

-------------------------------------------------------------------------------
\* What EDDiscovery is taken to send.

Lexeme ==
  (Opening \cup Closing \cup {"comma", "colon", "string", "primitive"}) \X Texts

\* One value: a string, a primitive, or a container and what is in it.
Balanced(value) ==
  /\ value # <<>> /\ value[1][1] \in TokenKinds
  /\ \A i \in 1 .. Len(value) - 1 : Depth(value)[i] > 0
  /\ Depth(value)[Len(value)] = 0

Single(lexeme) == lexeme[1] \in {"string", "primitive"}

\* An object, none of whose n members is a container or has the key of another.
FlatObject(value, n) ==
  /\ Len(value) = 4 * n + 1
  /\ value[1] = Mark("object")
  /\ \A k \in 1 .. n :
       /\ value[4 * k - 2][1] = "string" /\ value[4 * k - 1] = Mark("colon")
       /\ Single(value[4 * k])
       /\ value[4 * k + 1] = IF k = n THEN Mark("endobject") ELSE Mark("comma")
  /\ \A k, l \in 1 .. n : value[4 * k - 2] = value[4 * l - 2] => k = l

\* An array of n primitives.
FlatArray(value, n) ==
  /\ Len(value) = 2 * n + 1
  /\ value[1] = Mark("array")
  /\ \A k \in 1 .. n :
       /\ value[2 * k][1] = "primitive"
       /\ value[2 * k + 1] = IF k = n THEN Mark("endarray") ELSE Mark("comma")

\* The keys of a status whose value is an object, those of an indicator whose
\* value is a primitive, and those the Keyboard searches for.
ObjectKeys == {StatusKeys[f][1] : f \in DOMAIN StatusKeys}
BoolKeys == {FlagKeys[f] : f \in Flags} \cup {"ValidPips"}
TileKeys == {f[2] : f \in FlagTiles} \cup {"GUIFocus", "responsetype"}

\* A member the Display can read.  Any key may be nested in its value.
WellFormed(member) ==
  LET key == member[1]
      value == member[2]
  IN  /\ Balanced(value)
      /\ key = "responsetype" => value[1][1] = "string"
      /\ key \in BoolKeys => value[1][1] = "primitive"
      /\ key = "Pips" => \E n \in 3 .. Len(value) : FlatArray(value, n)
      /\ key \in ObjectKeys /\ value[1][1] = "object" =>
           \E n \in 1 .. Len(value) : FlatObject(value, n)

ASSUME MessagesAssumption ==
  /\ Responses \cup {"", "responsetype"} \subseteq Texts
  /\ MaxMembers \in Nat
  /\ RouteRows \subseteq (Nat \cup {-1}) \X Texts
  /\ \A m \in Members :
       m \in Texts \X Seq(Lexeme) /\ m[1] # "responsetype" /\ WellFormed(m)
  /\ \A s \in FirstMessages :
       /\ s \in Seq(Texts \X Seq(Lexeme)) /\ Distinct(s)
       /\ \E i \in DOMAIN s : s[i][1] = "responsetype"
       /\ \A i \in DOMAIN s : WellFormed(s[i])

-------------------------------------------------------------------------------
ReceiveFirst == message = <<>> /\ \E m \in FirstMessages : Receive(m)
ReceiveNext == message \in FirstMessages /\ \E m \in Messages : Receive(m)

TelemetryInit ==
  /\ fields = [f \in TextFields |-> ""] /\ jumps = -1
  /\ flags = [f \in Flags |-> FALSE] /\ pips = <<0, 0, 0>>
  /\ lit = {} /\ changed = {} /\ recognized = FALSE
  /\ message = <<>>
  /\ before = [fields |-> fields, flags |-> flags, pips |-> pips, lit |-> lit]

\* Power is lost: edd_state_init and edd_buttons_init.
Restart ==
  /\ message # <<>> /\ message' = <<>>
  /\ fields' = [f \in TextFields |-> ""] /\ jumps' = -1
  /\ flags' = [f \in Flags |-> FALSE] /\ pips' = <<0, 0, 0>>
  /\ lit' = {} /\ changed' = {} /\ recognized' = FALSE
  /\ before' = [fields |-> fields', flags |-> flags', pips |-> pips', lit |-> lit']

TelemetryNext == ReceiveFirst \/ ReceiveNext \/ Restart

TelemetrySpec == TelemetryInit /\ [][TelemetryNext]_telemetryVars

-------------------------------------------------------------------------------
\* Properties.

Has(m, key) == \E i \in DOMAIN m : m[i][1] = key
Get(m, key) == m[CHOOSE i \in DOMAIN m : m[i][1] = key][2]
True(m, key) == Has(m, key) /\ Get(m, key) \in {<<Prim("true")>>, <<Prim("1")>>}

\* The Keyboard takes other numbers that begin with 1 for true as well.
On(m, key) ==
  Has(m, key) /\ Get(m, key)[1][1] = "primitive" /\ Get(m, key)[1][2] \in LooksTrue

\* The tiles that telemetry can light, in the places buttons.c gives them.
TileNames ==
  <<"LAND GEAR", "SPEED 0%", "FSD JUMP", "LIGHTS", "SILENT", "NIGHT VISION",
    "HARD PTS", "FIRE GROUP", "TARGET", "NEXT TARGET", "ANALYS COMBAT", "FSS SCAN",
    "SHIELD POWER", "ENGINE POWER", "WEAPON POWER", "BAL POWER", "CARGO SCOOP",
    "CARGO EJECT", "TARGET PANEL", "COMMS PANEL", "ROLE PANEL", "SYSTEM PANEL",
    "GALAXY MAP", "SYSTEM MAP">>

FocusNames ==
  [ FSSMode |-> "FSS SCAN", TargetPanel |-> "TARGET PANEL", CommsPanel |-> "COMMS PANEL",
    RolePanel |-> "ROLE PANEL", SystemPanel |-> "SYSTEM PANEL",
    GalaxyMap |-> "GALAXY MAP", SystemMap |-> "SYSTEM MAP" ]

ShouldLight(name, m) ==
  CASE name = "LAND GEAR" -> On(m, "LandingGear")
    [] name = "FSD JUMP" -> \E k \in {"Supercruise", "FsdCharging", "FsdJump"} : On(m, k)
    [] name = "LIGHTS" -> On(m, "Lights")
    [] name = "SILENT" -> On(m, "SilentRunning")
    [] name = "NIGHT VISION" -> On(m, "NightVision")
    [] name = "HARD PTS" -> On(m, "HardpointsDeployed")
    [] name = "ANALYS COMBAT" -> On(m, "HUDInAnalysisMode")
    [] name = "CARGO SCOOP" -> On(m, "CargoScoopDeployed")
    [] OTHER -> Has(m, "GUIFocus") /\ \E f \in DOMAIN FocusNames :
                  FocusNames[f] = name /\ Get(m, "GUIFocus") = <<Str(f)>>

Response(m) == Get(m, "responsetype")[1][2]
TooLong(m) == Tokens(ObjectText(m)) = <<>>

\* The key stands nested in the value of a member, and m has no member with that
\* key up to there: find_value takes what belongs to the nested one.
Nested(value, key) ==
  \E i \in 1 .. Len(value) - 1 : value[i] = Str(key) /\ value[i + 1][1] = "colon"
Shadowed(m, key) ==
  \E i \in DOMAIN m : Nested(m[i][2], key) /\ \A j \in 1 .. i : m[j][1] # key

\* No key that decides about this tile is shadowed.
Readable(i, m) ==
  /\ \A f \in FlagTiles : f[1] = i => ~Shadowed(m, f[2])
  /\ \A f \in FocusTiles : f[1] = i => ~Shadowed(m, "GUIFocus")

\* Both ways to read a message find the member meant and no other, whatever
\* stands before it, in it or in its values (find_value against find_key and
\* skip_token; the numbers in edd_buttons_handle_json).  After an indicator the
\* tiles lit are those whose names it says, each by its own member where no
\* nested key stands in front of it, and any other message leaves them alone.
\* The Display's flags and pips are the indicator's own at any depth of other
\* keys, or the old ones where it has none or has too many tokens.
MembersFound ==
  message # <<>> =>
    /\ ~Shadowed(message, "responsetype") =>
         IF Response(message) \in IndicatorResponses
           THEN \A i \in 0 .. 23 :
                  Readable(i, message) => (i \in lit <=> ShouldLight(TileNames[i + 1], message))
           ELSE lit = before.lit
    /\ Response(message) \in IndicatorResponses =>
         IF TooLong(message)
           THEN flags = before.flags /\ pips = before.pips /\ recognized = FALSE
           ELSE /\ \A f \in Flags :
                     flags[f] = IF Has(message, FlagKeys[f])
                                  THEN True(message, FlagKeys[f]) ELSE before.flags[f]
                /\ pips = IF Has(message, "ValidPips") /\ ~True(message, "ValidPips")
                            THEN <<0, 0, 0>>
                          ELSE IF Has(message, "Pips")
                            THEN [i \in 1 .. 3 |-> Atoi(Get(message, "Pips")[2 * i][2])]
                          ELSE before.pips
                /\ recognized = TRUE

NestedValue(value, key) ==
  LET found == {i \in 1 .. Len(value) - 2 :
                  value[1] = Mark("object") /\ value[i] = Str(key) /\ value[i + 1] = Mark("colon")}
  IN  IF found = {} THEN <<>> ELSE <<value[(CHOOSE i \in found : TRUE) + 2]>>
Own(m, f) ==
  LET at == StatusKeys[f]
  IN  IF at[1] = "" THEN IF Has(m, at[2]) THEN Get(m, at[2]) ELSE <<>>
      ELSE IF Has(m, at[1]) THEN NestedValue(Get(m, at[1]), at[2]) ELSE <<>>

\* A status changes a text to that of its own object and key, and no other message
\* changes one; the legal state follows the indicator alone.  The next system
\* changes by a message about the route, or by a status to a string: null outside
\* a jump erases nothing, as the comment in parse_status asks (edd_state.c:136).
\* A message with too many tokens changes nothing.
FieldsFollow ==
  message # <<>> =>
    /\ IF Response(message) = "status" /\ ~TooLong(message)
         THEN \A f \in DOMAIN StatusKeys :
                fields[f] = IF Own(message, f) = <<>> THEN before.fields[f]
                            ELSE Own(message, f)[1][2]
         ELSE \A f \in DOMAIN StatusKeys : fields[f] = before.fields[f]
    /\ fields["legal_state"] # before.fields["legal_state"] =>
         /\ Response(message) \in IndicatorResponses
         /\ fields["legal_state"] = Get(message, "LegalState")[1][2]
    /\ fields["next_system"] # before.fields["next_system"] =>
         \/ Response(message) \in {"genericui"} \cup JournalResponses
         \/ /\ Response(message) = "status"
            /\ Get(message, "FSDJumpNextSystemName") = <<Str(fields["next_system"])>>
    /\ fields # before.fields => ~TooLong(message)
===============================================================================
