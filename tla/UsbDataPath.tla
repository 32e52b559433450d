---------------------------- MODULE UsbDataPath ----------------------------
(***************************************************************************)
(* The two services over one gadget: the USB HAL's enableUsbData() and     *)
(* resetUsbPort() (usb/usb/Usb.cpp) write the same PULLUP_PATH as the      *)
(* gadget HAL, which is another process and knows nothing of them.         *)
(* enableUsbData() reads the pull-up before it writes it, and keeps in     *)
(* mUsbDataEnabled, which is lost with the process, what it last did.      *)
(***************************************************************************)
EXTENDS UsbGadget

CONSTANT NodeFaults   \* may a write of the nodes of the USB HAL fail?

ASSUME DataPathAssumption == NodeFaults \in BOOLEAN

HalOps == {"enable", "disable", "resetUsbPort"}

VARIABLES
    halPc,            \* the next step of the USB HAL's binder thread
    halOp,            \* the request it serves
    halResult,        \* its result so far
    mUsbDataEnabled,
    usbData,          \* USB_DATA_PATH holds "1"
    toldEnabled,      \* the last answer was that data is enabled (ghost)
    stale             \* the HAL, or one before it, pulled the gadget down
                      \* while mUsbDataEnabled says enabled (ghost)

hal == <<halPc, halOp, halResult, mUsbDataEnabled, usbData, toldEnabled,
         stale>>
gadgetHal == <<pc, req, status, current, property, group, linked, pid, tuning,
               ffs, ready, budget, outcome>>
pathVars == <<vars, hal>>

PathInit ==
    /\ Init
    /\ halPc = "idle" /\ halOp = "none" /\ halResult = TRUE
    /\ mUsbDataEnabled = TRUE /\ usbData = TRUE
    /\ toldEnabled = FALSE /\ stale = FALSE

NodeOk == IF NodeFaults THEN BOOLEAN ELSE {TRUE}

(* The request ends: the callback is told.                                 *)
Answered(op, ok) == /\ halPc' = "idle" /\ halOp' = "none" /\ halResult' = TRUE
                    /\ toldEnabled' = (ok /\ op = "enable")

-----------------------------------------------------------------------------
(* Enabling data that the HAL believes enabled writes nothing.             *)
EnableSkipped ==
    /\ halPc = "idle" /\ mUsbDataEnabled
    /\ Answered("enable", TRUE)
    /\ UNCHANGED <<mUsbDataEnabled, usbData, stale>>
    /\ UNCHANGED vars

EnableUsbData(op) ==
    /\ halPc = "idle" /\ op \in {"enable", "disable"}
    /\ op = "enable" => ~mUsbDataEnabled
    /\ halPc' = "read" /\ halOp' = op /\ halResult' = TRUE
    /\ UNCHANGED <<mUsbDataEnabled, usbData, toldEnabled, stale>>
    /\ UNCHANGED vars

(* The pull-up is read; only one that differs from what is wanted is       *)
(* written, in a step of its own, and none if it cannot be read.           *)
M_NeedsPull == udc
NeedsPull == udc # (halOp = "enable")

ReadPullup ==
    /\ halPc = "read"
    /\ \E readable \in NodeOk :
         halPc' = IF readable /\ NeedsPull THEN "pull" ELSE "nodes"
    /\ UNCHANGED <<halOp, halResult, mUsbDataEnabled, usbData, toldEnabled,
                   stale>>
    /\ UNCHANGED vars

PullUp ==
    /\ halPc = "pull" /\ halOp = "enable"
    /\ \E wrote \in NodeOk :
         LET up == wrote /\ Bindable
         IN  /\ bound' = IF up THEN linked ELSE bound
             /\ wasUp' = (wasUp \/ up)
             /\ halResult' = up
    /\ halPc' = "nodes"
    /\ UNCHANGED <<halOp, mUsbDataEnabled, usbData, toldEnabled, stale>>
    /\ UNCHANGED gadgetHal

PullDown ==
    /\ halPc = "pull" /\ halOp = "disable"
    /\ \E wrote \in NodeOk :
         /\ halResult' = (wrote /\ udc)
         /\ bound' = IF wrote THEN {} ELSE bound
    /\ halPc' = "nodes"
    /\ UNCHANGED <<halOp, mUsbDataEnabled, usbData, toldEnabled, stale>>
    /\ UNCHANGED <<gadgetHal, wasUp>>

(* The other nodes are written whatever became of the pull-up; disabling   *)
(* also writes the id and vbus nodes.                                      *)
WriteNodes ==
    /\ halPc = "nodes"
    /\ \E dataOk \in NodeOk, othersOk \in (IF halOp = "disable" THEN NodeOk
                                           ELSE {TRUE}) :
         LET ok == halResult /\ dataOk /\ othersOk
             on == halOp = "enable"
         IN  /\ usbData' = IF dataOk THEN on ELSE usbData
             /\ mUsbDataEnabled' = IF ok THEN on ELSE mUsbDataEnabled
             /\ stale' = IF ok THEN FALSE ELSE stale
             /\ Answered(halOp, ok)
    /\ UNCHANGED vars

(* resetUsbPort() pulls the gadget down, and nothing in it pulls it up.    *)
ResetUsbPort ==
    /\ halPc = "idle"
    /\ \E wrote \in NodeOk :
         /\ bound' = IF wrote THEN {} ELSE bound
         /\ Answered("resetUsbPort", wrote /\ udc)
         /\ stale' = (stale \/ (wrote /\ udc /\ mUsbDataEnabled))
    /\ UNCHANGED <<mUsbDataEnabled, usbData>>
    /\ UNCHANGED <<gadgetHal, wasUp>>

(* init starts a service that died; its fields start afresh.               *)
HalRestart ==
    /\ budget > 0 /\ budget' = budget - 1
    /\ Answered("none", TRUE)
    /\ mUsbDataEnabled' = TRUE
    /\ stale' = (stale \/ ~mUsbDataEnabled \/ halPc # "idle")
    /\ UNCHANGED <<usbData, pc, req, status, current, property, gadget,
                   tuning, ffs, ready, outcome, wasUp>>

HalServe == ReadPullup \/ PullUp \/ PullDown \/ WriteNodes

PathNext ==
    \/ Next /\ UNCHANGED hal
    \/ EnableSkipped \/ \E op \in HalOps : EnableUsbData(op)
    \/ HalServe \/ ResetUsbPort \/ HalRestart

PathSpec == PathInit /\ [][PathNext]_pathVars

(* All three threads go on when they can.                                  *)
PathFairness == /\ WF_pathVars(Serve /\ UNCHANGED hal)
                /\ WF_pathVars(Monitor /\ UNCHANGED hal)
                /\ WF_pathVars(HalServe)
PathFair == PathSpec /\ PathFairness

-----------------------------------------------------------------------------
(* Properties.                                                             *)

(* MonitorFfs has nothing left to do.                                      *)
MonitorRests == IF linked \cap Ffs = {} THEN monitor = "off"
                ELSE monitor = "wait" /\ ~deleted /\ pulledUp

(* Two answers of SUCCESS together mean a working gadget: when the USB HAL *)
(* has last answered that data is enabled and the gadget HAL that its      *)
(* functions are set (or reset), the gadget is up, however the requests    *)
(* to the two services overlapped.  Excepted are a HAL that restarted in   *)
(* between and resetUsbPort(), after both of which enabling is skipped.    *)
UpWhenEnabled ==
    /\ halPc = "idle" /\ toldEnabled /\ ~stale
    /\ pc = "idle" /\ answers = <<"SUCCESS">> /\ mCurrentUsbFunctions # {}
    /\ MonitorRests
    => udc

(* A host can tell from the product id of a gadget that is complete        *)
(* whether adb is there, also when the vendor property changes between the *)
(* two times it is read.  (The USB HAL may pull up a gadget whose          *)
(* functions are only partly linked.  Such a gadget may by chance have the *)
(* functions of the next request, which changes mCurrentUsbFunctions       *)
(* before it tears the gadget down.)                                       *)
PidShowsAdb ==
    /\ udc /\ pc # "teardown"
    /\ bound \cap GadgetFunction = mCurrentUsbFunctions
    => \A p \in PlainPids \cup {<<q[2], q[3]>> : q \in VendorPids} :
           p[2] = pid => ("ADB" \in p[1]) = ("ADB" \in bound)

(* MonitorFfs "Monitors the ffs paths to pull up the gadget when           *)
(* descriptors are written": when all functions of the gadget have theirs  *)
(* it comes up, unless a daemon dies, a new request comes first or the USB *)
(* HAL keeps it down.                                                      *)
HalKeepsDown == halPc # "idle" \/ ~mUsbDataEnabled \/ stale
PullsUpWhenWritten ==
    (Complete /\ ~HalKeepsDown) ~> (udc \/ ~Complete \/ HalKeepsDown)

(* The framework is told that USB data is enabled only if the node that    *)
(* turns it on is on: Usb.h says of mUsbDataEnabled "Usb Data status".     *)
EnabledMeansOn == halPc = "idle" /\ toldEnabled => usbData

=============================================================================
