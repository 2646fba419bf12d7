----------------------------- MODULE UsbDrivers -----------------------------
(***************************************************************************)
(* usb.rs, keyboard.rs, the driver of tablet.rs and Xhci::run (xhci.rs):   *)
(* from an addressed device to the loop of its driver.  Each step is one   *)
(* request on the control endpoint, whose transfer Xhci models, with what  *)
(* the driver does with the answer; a failed request ends the task, since  *)
(* every one is followed by `?`.  While a request is on its way the user   *)
(* presses keys and moves the pointer.                                     *)
(*                                                                         *)
(* The device (external) reads the setup packets as USB and HID have it.   *)
(* One thing it does not do is refuse a Get_Report for the wrong type of   *)
(* report, or before it is configured.                                     *)
(***************************************************************************)
EXTENDS Integers, Sequences, FiniteSets

CONSTANTS
  DescriptorLists, \* what devices answer to GET_DESCRIPTOR(Config)
  InterfaceNumber, \* a byte in the code; the driver always asks interface 0
  Key,             \* usage ids of keys
  SLOTS,           \* keys a boot report has room for, 6 in the code
  Pos,             \* reports of the tablet
  RollOver,        \* usage id 1, in every slot when more keys are down
  None,
  BOOT_LAYOUT      \* the keyboard's report protocol has the boot layout too

KEYBOARD == <<3, 1, 1>>
TABLET == <<3, 0, 0>>

\* UsbDescriptor, as far as the drivers look into it.
Byte == 0..255
Triple == Byte \X Byte \X Byte
Descriptor ==
  [type : {"Config"}, config_value : Byte]
    \union [type : {"Interface"}, interface_number : InterfaceNumber, alt_setting : Byte,
            triple : Triple]
    \union [type : {"Hid", "Endpoint", "Unknown"}]

ASSUME UsbAssumption ==
  /\ 0 \in InterfaceNumber
  /\ DescriptorLists \subseteq Seq(Descriptor) /\ None \notin Descriptor
  /\ RollOver \notin Key /\ SLOTS \in Nat
  /\ BOOT_LAYOUT \in BOOLEAN

VARIABLES
  pc,           \* where the task is
  strings,      \* strings still to be read
  descriptors,  \* what request_config_descriptor_and_rest has returned
  picked,       \* what pick_interface_with_triple has returned
  report,       \* the report in the driver's buffer
  prev,         \* prev_pressed or prev_report
  shown,        \* what the lines printed so far add up to
  device,       \* device: its list, and whether it is QEMU's tablet
  state,        \* device: configuration, alternate settings, protocols
  keys, pos     \* device: the keys that are down, the pointer

driver == <<strings, descriptors, picked, report, prev, shown>>
input == <<keys, pos>>
vars == <<pc, driver, device, state, input>>

Init ==
  /\ pc = "device_descriptor"
  /\ strings \in 0..3
  /\ descriptors = <<>> /\ picked = None /\ report = None
  /\ prev = None /\ shown = {}
  /\ device \in [list : DescriptorLists, qemu_tablet : BOOLEAN]
  /\ state = [config |-> 0, alt |-> [n \in InterfaceNumber |-> 0],
              boot |-> [n \in InterfaceNumber |-> FALSE]]
  /\ keys = {} /\ pos = (CHOOSE p \in Pos : TRUE)

-----------------------------------------------------------------------------
(* The device (external)                                                   *)

REQ_SET_CONFIGURATION == 9
REQ_SET_INTERFACE == 11
REQ_SET_PROTOCOL == 11

Packet(class, to, request, value, index) ==
  [class |-> class, to |-> to, request |-> request, value |-> value, index |-> index]

\* A new configuration resets settings and protocols.  Only its type,
\* standard or class, tells request 11 for an interface from request 11.
After(s, p) ==
  IF p.to = "device" /\ ~p.class /\ p.request = REQ_SET_CONFIGURATION
  THEN [config |-> p.value, alt |-> [n \in InterfaceNumber |-> 0],
        boot |-> [n \in InterfaceNumber |-> FALSE]]
  ELSE IF p.to = "interface" /\ ~p.class /\ p.request = REQ_SET_INTERFACE
  THEN [s EXCEPT !.alt = [@ EXCEPT ![p.index] = p.value]]
  ELSE IF p.to = "interface" /\ p.class /\ p.request = REQ_SET_PROTOCOL
  THEN [s EXCEPT !.boot = [@ EXCEPT ![p.index] = (p.value = 0)]]
  ELSE s

Interface(n) == {device.list[i] : i \in {j \in 1..Len(device.list) :
                    /\ device.list[j].type = "Interface"
                    /\ device.list[j].interface_number = n}}
HasKeyboard == \E n \in InterfaceNumber : \E d \in Interface(n) : d.triple = KEYBOARD

\* The interface is a keyboard with the setting it is set to.
IsKeyboard(n) == \E d \in Interface(n) : d.triple = KEYBOARD /\ d.alt_setting = state.alt[n]

\* The bytes behind the first two of a keyboard's boot report, as a set.
BootReport == IF Cardinality(keys) > SLOTS THEN {RollOver} ELSE keys

\* What Get_Report for interface n returns to a keyboard driver: a report of
\* another layout, setting or interface can have any ids in it.
KeyboardReports(n) ==
  IF IsKeyboard(n) /\ (state.boot[n] \/ BOOT_LAYOUT) THEN {BootReport} ELSE SUBSET Key

\* A user has what the device has.
Press(k) ==
  /\ k \notin keys /\ HasKeyboard
  /\ keys' = keys \union {k}
  /\ UNCHANGED <<pc, driver, device, state, pos>>

Release(k) ==
  /\ k \in keys
  /\ keys' = keys \ {k}
  /\ UNCHANGED <<pc, driver, device, state, pos>>

Move(p) ==
  /\ p # pos /\ device.qemu_tablet
  /\ pos' = p
  /\ UNCHANGED <<pc, driver, device, state, keys>>

User == (\E k \in Key : Press(k) \/ Release(k)) \/ (\E p \in Pos : Move(p))

-----------------------------------------------------------------------------
(* Xhci::run: the descriptors                                              *)

\* A request fails: the `?` behind it, or `if let Ok` for string zero.  The
\* device may or may not have done what it was asked.
Fail ==
  /\ pc \notin {"ended", "panic", "start_driver", "hid_descriptor", "keyboard_decode", "tablet_decode"}
  /\ pc' = "ended"
  /\ UNCHANGED <<driver, device, state, input>>

GetDeviceDescriptor ==
  /\ pc = "device_descriptor"
  /\ pc' = "string_zero"
  /\ UNCHANGED <<driver, device, state, input>>

GetStringZero ==
  /\ pc = "string_zero"
  /\ pc' = IF strings = 0 THEN "config" ELSE "strings"
  /\ UNCHANGED <<driver, device, state, input>>

\* Vendor, product and serial, if their index is not 0.
GetString ==
  /\ pc = "strings"
  /\ strings' = strings - 1
  /\ pc' = IF strings = 1 THEN "config" ELSE "strings"
  /\ UNCHANGED <<descriptors, picked, report, prev, shown, device, state, input>>

\* DescriptorIterator over a buffer that has `whole` descriptors, and if cut, the
\* beginning of the next.  That one ends the iteration, unless its type is not
\* known: no more than its first two bytes is looked at then.
Iterated(list, whole, cut) ==
  SubSeq(list, 1, IF cut /\ whole < Len(list) /\ list[whole + 1].type = "Unknown"
                  THEN whole + 1 ELSE whole)

\* request_config_descriptor_and_rest.  total_length may end before the list
\* does.  It may leave a single byte of a descriptor, the type of which is then
\* read behind the slice.  And a length of 0, in a descriptor or in the zeroes
\* behind an answer that is too short, keeps the iterator where it is: the
\* vector grows until an allocation fails.
GetConfig ==
  /\ pc = "config"
  /\ \/ \E whole \in 0..Len(device.list), cut \in BOOLEAN :
          descriptors' = Iterated(device.list, whole, cut) /\ pc' = "start_driver"
     \/ pc' = "panic" /\ UNCHANGED descriptors
  /\ UNCHANGED <<strings, picked, report, prev, shown, device, state, input>>

-----------------------------------------------------------------------------
(* pick_interface_with_triple                                              *)

Picking == [config |-> None, interface |-> None, desc_list |-> <<>>, done |-> FALSE]

\* Mutant: a configuration behind the interface does not end the search.
PickStepNoBreak(p, d, triple) ==
  IF d.type = "Config" THEN [p EXCEPT !.config = d, !.desc_list = <<>>]
  ELSE IF d.type = "Interface"
  THEN IF d.triple = triple THEN [p EXCEPT !.interface = d] ELSE p
  ELSE IF p.interface # None THEN [p EXCEPT !.desc_list = Append(@, d)] ELSE p

\* The body of the loop.
PickStep(p, d, triple) ==
  IF p.done THEN p
  ELSE IF d.type = "Config"
  THEN IF p.interface # None THEN [p EXCEPT !.done = TRUE]
       ELSE [p EXCEPT !.config = d, !.desc_list = <<>>]
  ELSE IF d.type = "Interface"
  THEN IF d.triple = triple THEN [p EXCEPT !.interface = d] ELSE p
  ELSE IF p.interface # None THEN [p EXCEPT !.desc_list = Append(@, d)] ELSE p

\* What the loop has found in the first n descriptors.
PickLoop(list, triple) ==
  LET found[n \in 0..Len(list)] ==
        IF n = 0 THEN Picking ELSE PickStep(found[n - 1], list[n], triple)
  IN found

pick_interface_with_triple(list, triple) ==
  LET p == PickLoop(list, triple)[Len(list)]
  IN IF p.config # None /\ p.interface # None THEN p ELSE None

\* UsbKeyboardDriver::is_compatible, UsbTabletDriver::is_compatible
KeyboardCompatible == pick_interface_with_triple(descriptors, KEYBOARD) # None
TabletCompatible ==
  device.qemu_tablet /\ pick_interface_with_triple(descriptors, TABLET) # None

\* start_device_driver: the keyboard is asked first.
StartDeviceDriver ==
  /\ pc = "start_driver"
  /\ \/ /\ KeyboardCompatible
        /\ picked' = pick_interface_with_triple(descriptors, KEYBOARD)
        /\ pc' = "set_config"
     \/ /\ ~KeyboardCompatible /\ TabletCompatible
        /\ picked' = pick_interface_with_triple(descriptors, TABLET)
        /\ pc' = "hid_descriptor"
     \/ /\ ~KeyboardCompatible /\ ~TabletCompatible
        /\ pc' = "ended"
        /\ UNCHANGED picked
  /\ UNCHANGED <<strings, descriptors, report, prev, shown, device, state, input>>

-----------------------------------------------------------------------------
(* UsbKeyboardDriver::run                                                  *)

\* The device carries out a request without data.
Request(from, packet, to) ==
  /\ pc = from
  /\ state' = After(state, packet)
  /\ pc' = to
  /\ UNCHANGED <<strings, descriptors, picked, report, shown, device, input>>

SetConfig ==
  /\ Request("set_config",
             Packet(FALSE, "device", REQ_SET_CONFIGURATION, picked.config.config_value, 0),
             "set_interface")
  /\ UNCHANGED prev

SetInterface ==
  /\ Request("set_interface",
             Packet(FALSE, "interface", REQ_SET_INTERFACE,
                    picked.interface.alt_setting, picked.interface.interface_number),
             "set_protocol")
  /\ UNCHANGED prev

\* BootProtocol is 0.
SetProtocol ==
  /\ Request("set_protocol",
             Packet(FALSE, "interface", REQ_SET_PROTOCOL, 0, picked.interface.interface_number),
             "keyboard_report")
  /\ prev' = {}

\* The device fills the buffer.  request_report_bytes asks interface 0.
KeyboardReport ==
  /\ pc = "keyboard_report"
  /\ \E r \in KeyboardReports(0) : report' = r
  /\ pc' = "keyboard_decode"
  /\ UNCHANGED <<strings, descriptors, picked, prev, shown, device, state, input>>

\* Mutant: prev_pressed stays empty.
KeyboardDecodeForgetting ==
  /\ pc = "keyboard_decode"
  /\ LET diff == (report \ prev) \union (prev \ report)
     IN shown' = (shown \ (diff \ report)) \union (diff \intersect report)
  /\ pc' = "keyboard_report"
  /\ UNCHANGED <<strings, descriptors, picked, report, prev, device, state, input>>

\* The task resumes: a line for every id of the symmetric difference.
KeyboardDecode ==
  /\ pc = "keyboard_decode"
  /\ LET diff == (report \ prev) \union (prev \ report)
     IN shown' = (shown \ (diff \ report)) \union (diff \intersect report)
  /\ prev' = report
  /\ pc' = "keyboard_report"
  /\ UNCHANGED <<strings, descriptors, picked, report, device, state, input>>

-----------------------------------------------------------------------------
(* UsbTabletDriver::run                                                    *)

\* The first HID descriptor behind the interface.
FindHid ==
  /\ pc = "hid_descriptor"
  /\ pc' = IF \E i \in 1..Len(picked.desc_list) : picked.desc_list[i].type = "Hid"
           THEN "report_descriptor" ELSE "ended"
  /\ UNCHANGED <<driver, device, state, input>>

\* The report descriptor is read and parsed (HidReport); a field that is not
\* found ends the driver.  prev_report is as long as the fields are, the
\* reports are eight bytes: they are equal at first only if the fields fill
\* eight bytes and are all zero.
TabletStart ==
  /\ pc = "report_descriptor"
  /\ \/ pc' = "ended" /\ UNCHANGED prev
     \/ pc' = "tablet_report" /\ prev' \in Pos \union {None}
  /\ UNCHANGED <<strings, descriptors, picked, report, shown, device, state, input>>

TabletReport ==
  /\ pc = "tablet_report"
  /\ report' = pos
  /\ pc' = "tablet_decode"
  /\ UNCHANGED <<strings, descriptors, picked, prev, shown, device, state, input>>

TabletDecode ==
  /\ pc = "tablet_decode"
  /\ shown' = IF report = prev THEN shown ELSE {report}
  /\ prev' = report
  /\ pc' = "tablet_report"
  /\ UNCHANGED <<strings, descriptors, picked, report, device, state, input>>

Driver ==
  \/ GetDeviceDescriptor \/ GetStringZero \/ GetString \/ GetConfig
  \/ StartDeviceDriver
  \/ SetConfig \/ SetInterface \/ SetProtocol \/ KeyboardReport \/ KeyboardDecode
  \/ FindHid \/ TabletStart \/ TabletReport \/ TabletDecode

Next == Driver \/ Fail \/ User

\* A request that does not fail is answered, and the executor polls the task.
Spec == Init /\ [][Next]_vars /\ WF_vars(Driver)

-----------------------------------------------------------------------------
(* Properties                                                              *)

InKeyboardLoop == pc \in {"keyboard_report", "keyboard_decode"}
InTabletLoop == pc \in {"tablet_report", "tablet_decode"}

\* Once the driver reads reports, the interface it has picked is a boot keyboard,
\* and the device is set to the configuration in whose part of the list that
\* interface stands.
ConfiguredForInterface ==
  InKeyboardLoop =>
    \E i, j \in 1..Len(descriptors) :
      /\ i < j /\ descriptors[i].type = "Config"
      /\ descriptors[j] = picked.interface /\ descriptors[j].triple = KEYBOARD
      /\ \A k \in (i + 1)..j : descriptors[k].type # "Config"
      /\ state.config = descriptors[i].config_value

\* When the user holds still, what the driver has printed becomes what the
\* device's input is: no key that was pressed or released between two reports,
\* or hidden by a rollover, stays wrong.  (For a keyboard on interface 0, with
\* its setting 0.)
InputFollowed ==
  /\ \A k \in SUBSET Key :
       Cardinality(k) <= SLOTS =>
         (<>[](/\ InKeyboardLoop /\ keys = k
               /\ picked.interface.interface_number = 0 /\ picked.interface.alt_setting = 0)
            => <>[](shown = k))
  /\ \A p \in Pos :
       <>[](InTabletLoop /\ pos = p) => <>[](shown = {p} \/ (shown = {} /\ prev = p))

\* When the driver reads reports request_set_protocol has selected the boot
\* protocol, the only layout it knows, and nothing else: the interface is still
\* in the alternate setting request_set_interface has selected.
SetProtocolAsMeant ==
  InKeyboardLoop =>
    /\ state.boot[picked.interface.interface_number]
    /\ state.alt[picked.interface.interface_number] = picked.interface.alt_setting
=============================================================================
