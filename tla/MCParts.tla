-------------------------------- MODULE MCParts --------------------------------
(***************************************************************************)
(* NetUsb, Panel and Telemetry for TLC.  They share no state, and focus    *)
(* says which of them runs, so that one run checks each of them.           *)
(***************************************************************************)
EXTENDS NetUsb, Panel, Telemetry, TLC

VARIABLE focus

PartsInit ==
  /\ Init /\ PanelInit /\ TelemetryInit
  /\ focus \in {"usb", "panel", "telemetry"}
  /\ board = firmware /\ (focus = "telemetry" => board = "display")

UsbStep == focus = "usb" /\ Next /\ UNCHANGED <<panelVars, telemetryVars, focus>>
PanelStep == focus = "panel" /\ PanelNext /\ UNCHANGED <<vars, telemetryVars, focus>>
TelemetryStep ==
  focus = "telemetry" /\ TelemetryNext /\ UNCHANGED <<vars, panelVars, focus>>

PartsNext == UsbStep \/ PanelStep \/ TelemetryStep

PartsSpec ==
  /\ PartsInit /\ [][PartsNext]_<<vars, panelVars, telemetryVars, focus>>
  /\ focus = "usb" => WF_vars(Boot) /\ WF_vars(Task)

-------------------------------------------------------------------------------
\* Raw coordinates: corners, either side of a tile's edge, beyond the range.
MCFingers == {<<560, 3800>>, <<3700, 150>>, <<1100, 870>>, <<1130, 905>>, <<60, 2000>>}

MCTexts == STRING

\* More tokens than there is room for.
MCLong == ArrayText([i \in 1 .. 40 |-> <<Prim("1")>>])

\* Members of messages: every kind of value, keys that occur nested as well,
\* and values that are the names of keys.
Yes(key) == <<key, <<Prim("true")>>>>
FsdTarget(system, count) ==
  ObjectText(<<<<"FSDTarget", ObjectText(<<<<"StarSystem", <<Str(system)>>>>,
                                        <<"RemainingJumpsInRoute", <<Prim(count)>>>>>>)>>>>)
MCMembers ==
  { Yes("LandingGear"), <<"LandingGear", <<Prim("false")>>>>, <<"FsdJump", <<Prim("1")>>>>,
    <<"Lights", <<Prim("10")>>>>, <<"GUIFocus", <<Str("FSSMode")>>>>,
    <<"GUIFocus", <<Str("Lights")>>>>,
    Yes("LowFuel"), <<"ShieldsUp", <<Prim("0")>>>>,
    <<"LegalState", <<Str("LowFuel")>>>>,
    <<"Pips", ArrayText(<<<<Prim("2")>>, <<Prim("4")>>, <<Prim("8")>>>>)>>,
    <<"ValidPips", <<Prim("false")>>>>,
    <<"Inner", ObjectText(<<Yes("LowFuel"), Yes("LandingGear"),
                             <<"StationName", <<Str("Inner")>>>>>>)>>,
    <<"Pips", MCLong>>, <<"data", ObjectText(<<<<"EventTypeID", <<Str("NavRouteClear")>>>>>>)>>,
    <<"data", FsdTarget("Maia", "2")>>, <<"data", FsdTarget("Sol", "0")>>,
    <<"Ship", ObjectText(<<<<"Ship", <<Str("Asp")>>>>, <<"Fuel", <<Prim("8")>>>>>>)>>,
    <<"SystemData", ObjectText(<<<<"System", <<Str("Sol")>>>>>>)>>,
    <<"StationName", <<Prim("null")>>>>, <<"Fuel", <<Prim("4")>>>>,
    <<"FSDJumpNextSystemName", <<Prim("null")>>>>,
    <<"FSDJumpNextSystemName", <<Str("Deciat")>>>>,
    <<"RemainingJumps", <<Prim("2")>>>> }

Type(r) == <<"responsetype", <<Str(r)>>>>
MCEverything ==
  <<Type("indicator"), Yes("LandingGear"), Yes("Supercruise"), Yes("FsdCharging"), Yes("Lights"),
    Yes("SilentRunning"), Yes("NightVision"), Yes("HardpointsDeployed"),
    Yes("HUDInAnalysisMode"), Yes("CargoScoopDeployed"), <<"GUIFocus", <<Str("SystemMap")>>>>,
    Yes("FsdMassLocked"), Yes("ShieldsUp"), Yes("LowFuel"), Yes("OverHeating"), Yes("IsInDanger"),
    Yes("BeingInterdicted")>>
MCRoute == <<<<"FSDJumpNextSystemName", <<Str("Maia")>>>>, Type("status")>>
MCFirst == {MCEverything, MCRoute}
MCRows == {<<-1, "">>, <<0, "">>, <<2, "Deciat">>, <<4, "">>}
===============================================================================
