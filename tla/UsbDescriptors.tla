----------------------------- MODULE UsbDescriptors -----------------------------
(***************************************************************************)
(* The tables and callbacks of PicoDeck-ED-Display/src/usb_descriptors.c   *)
(* (NCM only) and PicoDeck-ED-Keyboard/src/usb_descriptors.c (HID and NCM),*)
(* as the host reads them, and what a host requires of them.               *)
(*                                                                         *)
(* A descriptor is the record of the fields by which descriptors refer to  *)
(* each other, and its length; a text is its number of characters.         *)
(***************************************************************************)
EXTENDS Naturals, Sequences

Boards == {"display", "keyboard"}

Stall == [stalled |-> TRUE]     \* NULL or false: TinyUSB stalls the endpoint

\* String descriptor indices, the same enumeration in both files; 0 is the
\* language.
Manufacturer == 1
Product == 2
Serial == 3
Interface == 4
Mac == 5

-------------------------------------------------------------------------------
\* TinyUSB's macros, as far as the tables use them.

ConfigLen == 9
HidLen == 25
NcmLen == 85
BosLen == 5
BosMsOsLen == 28

HidFunction(itf, ep) ==
  [itfs |-> {itf}, eps |-> {ep}, strings |-> {}, bytes |-> HidLen]

NcmFunction(itf, string, mac, notif, out, in) ==
  [itfs |-> {itf, itf + 1}, eps |-> {notif, out, in},
   strings |-> {string, mac}, bytes |-> NcmLen]

-------------------------------------------------------------------------------
\* Tables.

DisplayDevice ==
  [usb |-> 513, strings |-> {Manufacturer, Product, Serial}, configurations |-> 1]

KeyboardDevice ==
  [usb |-> 513, strings |-> {Manufacturer, Product, Serial}, configurations |-> 1]

DisplayConfiguration ==
  [total |-> ConfigLen + NcmLen, interfaces |-> 2,
   functions |-> <<NcmFunction(0, Interface, Mac, 129, 2, 130)>>]

KeyboardConfiguration ==
  [total |-> ConfigLen + HidLen + NcmLen, interfaces |-> 3,
   functions |-> <<HidFunction(0, 129),
                   NcmFunction(1, Interface, Mac, 130, 3, 131)>>]

\* tud_descriptor_configuration_cb
DisplayConfig(index) == IF index < 1 THEN DisplayConfiguration ELSE Stall
KeyboardConfig(index) == IF index = 0 THEN KeyboardConfiguration ELSE Stall

\* tud_descriptor_bos_cb: the Microsoft platform capability.
DisplayBos ==
  [total |-> BosLen + BosMsOsLen, capabilities |-> 1, msosLen |-> 178, vendor |-> 1]
KeyboardBos ==
  [total |-> BosLen + BosMsOsLen, capabilities |-> 1, msosLen |-> 178, vendor |-> 1]

(***************************************************************************)
(* The Microsoft OS 2.0 set: a set that holds a configuration subset that  *)
(* holds a function subset that holds a compatible ID and a registry       *)
(* property.  Every level states the length of all it holds; "property" is *)
(* the length stated, "text" the bytes written.                            *)
(***************************************************************************)
DisplayMsOs ==
  [total |-> 178, config |-> 178 - 10, function |-> 178 - 10 - 8, itf |-> 0,
   compatible |-> 20, property |-> 178 - 10 - 8 - 8 - 20,
   text |-> 2 + 2 + 2 + 2 + 42 + 2 + 80]

KeyboardMsOs ==
  [total |-> 178, config |-> 178 - 10, function |-> 178 - 10 - 8, itf |-> 1,
   compatible |-> 20, property |-> 178 - 10 - 8 - 8 - 20,
   text |-> 2 + 2 + 2 + 2 + 42 + 2 + 80]

\* tud_vendor_control_xfer_cb in the set-up stage; later stages return true.
DisplayVendor(type, request, index) ==
  IF type = "vendor" /\ request = 1 /\ index = 7 THEN DisplayMsOs ELSE Stall
KeyboardVendor(type, request, index) ==
  IF type = "vendor" /\ request = 1 /\ index = 7 THEN KeyboardMsOs ELSE Stall

-------------------------------------------------------------------------------
\* tud_descriptor_string_cb: a text of at most 32 characters in a static
\* buffer, or the MAC address as it is now.

StringMax == 32
Capped(n) == IF n > StringMax THEN StringMax ELSE n
SerialChars == 16     \* board_usb_get_serial: the eight bytes of the board's id
Text(n) == [chars |-> Capped(n), mac |-> "none"]

DisplayTexts == [i \in 0 .. 4 |-> <<1, 8, 19, 0, 20>>[i + 1]]
KeyboardTexts == [i \in 0 .. 4 |-> <<1, 6, 20, 0, 25>>[i + 1]]

DisplayString(index, mac) ==
  CASE index = Serial -> Text(SerialChars)
    [] index = Mac -> [chars |-> 12, mac |-> mac]
    [] index \in 0 .. 4 \ {Serial} -> Text(DisplayTexts[index])
    [] OTHER -> Stall

KeyboardString(index, mac) ==
  CASE index = Serial -> Text(SerialChars)
    [] index = Mac -> [chars |-> 12, mac |-> mac]
    [] index \in 0 .. 4 \ {Serial} -> Text(KeyboardTexts[index])
    [] OTHER -> Stall

-------------------------------------------------------------------------------
\* The answer to a request of the host.

Device(b) == IF b = "display" THEN DisplayDevice ELSE KeyboardDevice
Config(b, i) == IF b = "display" THEN DisplayConfig(i) ELSE KeyboardConfig(i)
Bos(b) == IF b = "display" THEN DisplayBos ELSE KeyboardBos
String(b, i, mac) ==
  IF b = "display" THEN DisplayString(i, mac) ELSE KeyboardString(i, mac)
Vendor(b, request, index) ==
  IF b = "display" THEN DisplayVendor("vendor", request, index)
                   ELSE KeyboardVendor("vendor", request, index)

(***************************************************************************)
(* What a host requires (external): every length is that of what follows,  *)
(* interfaces are numbered from 0 without gap, no two functions share an   *)
(* interface or an endpoint, and WINNCM is bound to the first interface of *)
(* a function that has two.                                                *)
(***************************************************************************)
Bytes(functions) ==
  LET Sum[i \in 0 .. Len(functions)] ==
        IF i = 0 THEN 0 ELSE Sum[i - 1] + functions[i].bytes
  IN  Sum[Len(functions)]

ConfigUsable(c) ==
  /\ c # Stall
  /\ c.total = ConfigLen + Bytes(c.functions)
  /\ UNION {c.functions[i].itfs : i \in DOMAIN c.functions} = 0 .. c.interfaces - 1
  /\ \A i, j \in DOMAIN c.functions :
       i # j => /\ c.functions[i].itfs \cap c.functions[j].itfs = {}
                /\ c.functions[i].eps \cap c.functions[j].eps = {}

BosUsable(bos) == bos.total = BosLen + bos.capabilities * BosMsOsLen

MsOsUsable(set, bos, c) ==
  /\ set # Stall
  /\ set.total = bos.msosLen
  /\ set.config = set.total - 10
  /\ set.function = set.config - 8
  /\ set.function = 8 + set.compatible + set.property
  /\ set.property = set.text
  /\ \E i \in DOMAIN c.functions : c.functions[i].itfs = {set.itf, set.itf + 1}
===============================================================================
