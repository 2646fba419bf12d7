---------------------------- MODULE MCUsbDrivers ----------------------------
(***************************************************************************)
(* Devices with one or two configurations, keyboard interfaces, one with   *)
(* an alternate setting, a tablet interface, or both, and descriptors of   *)
(* no known type, in any order of up to four descriptors that starts with  *)
(* a configuration; two interfaces may have the same triple.               *)
(***************************************************************************)
EXTENDS UsbDrivers, SequencesExt

Config(n) == [type |-> "Config", config_value |-> n]
InterfaceDesc(n, alt, t) ==
  [type |-> "Interface", interface_number |-> n, alt_setting |-> alt, triple |-> t]
Other(t) == [type |-> t]

MCDescriptors ==
  {Config(2), InterfaceDesc(0, 0, KEYBOARD), InterfaceDesc(0, 1, KEYBOARD),
   InterfaceDesc(1, 0, KEYBOARD), InterfaceDesc(0, 0, TABLET), Other("Hid"), Other("Unknown")}

MCDescriptorLists ==
  {l \in {<<Config(1)>> \o s : s \in BoundedSeq(MCDescriptors, 3)} :
     ~\E i, j \in 1..Len(l) : i < j /\ l[i].type \in {"Config", "Interface"} /\ l[i] = l[j]}

MCAlternateKeyboards ==
  {l \in MCDescriptorLists : \A i \in 1..Len(l) : l[i].type = "Interface" => l[i].alt_setting = 1}
=============================================================================
