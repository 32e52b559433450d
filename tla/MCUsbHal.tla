------------------------------ MODULE MCUsbHal ------------------------------
(* Instances of UsbHal: which requests the framework issues, and the       *)
(* settings an earlier run of the service left, which the runs do not      *)
(* vary.                                                                   *)
EXTENDS UsbHal

CONSTANTS cb1, cb2

Request(op, args) == [op : {op}, arg : args]

(* Mode switches that the kernel accepts and refuses, a data swap, the     *)
(* callback replaced and unregistered, and requests that query under or    *)
(* after a setting of their own or without one.                            *)
SafetyRequests ==
    Request("setCallback", {cb1, NULL})
      \cup Request("switchRole", {"sink", "none", "data"})
      \cup Request("limitPowerTransfer", {"enable"})
      \cup Request("enableUsbDataWhileDocked", {NULL})
      \cup Request("queryPortStatus", {NULL})
(* Requests of every shape but unregistering: a wait, two settings with a  *)
(* query, and a body without one.                                          *)
Registered ==
    Request("setCallback", {cb1})
      \cup Request("switchRole", {"sink"})
      \cup Request("enableUsbData", {"disable"})
      \cup Request("enableContaminantPresenceDetection", {"enable"})
      \cup Request("resetUsbPort", {NULL})
(* The registrations with one mode switch.                                 *)
Registrations == Request("setCallback", {cb1, cb2, NULL})
                   \cup Request("switchRole", {"sink"})

DefaultInit == Init /\ ~sinkLimit /\ ~contaminant /\ portType = "dual"
DefaultSpec == DefaultInit /\ [][Next]_vars
DefaultFair == DefaultSpec /\ Fairness
=============================================================================
