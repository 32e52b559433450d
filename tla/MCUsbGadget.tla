---------------------------- MODULE MCUsbGadget ----------------------------
(* The sets of functions that the instances of UsbGadget ask for.          *)
EXTENDS UsbGadget

(* Nothing, functions with and without descriptors, both, and a set with   *)
(* no product id.                                                          *)
Sets == {{}, {"NCM"}, {"ADB"}, {"MTP", "ADB"}, {"UVC"}, {"MTP", "NCM"}}
(* Two sets with descriptors of different daemons.                         *)
FfsSets == {{"MTP"}, {"ADB"}, {"MTP", "ADB"}}
=============================================================================
