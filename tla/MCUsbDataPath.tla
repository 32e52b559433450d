--------------------------- MODULE MCUsbDataPath ---------------------------
(* Instances of UsbDataPath: the sets of functions asked for, which differ *)
(* in descriptors, adb and product id, and one value of the fields that    *)
(* these runs do not vary at the start.                                    *)
EXTENDS UsbDataPath

PathSets == {{"MTP"}, {"RNDIS"}, {"RNDIS", "ADB"}}

DefaultInit == /\ PathInit
               /\ ~uvcEnabled /\ ~mCurrentUsbFunctionsApplied
               /\ mCurrentUsbFunctions = {"RNDIS"} /\ vendor = "user"
DefaultSafe == DefaultInit /\ [][PathNext]_pathVars
DefaultFair == DefaultSafe /\ PathFairness
=============================================================================
