----------------------------- MODULE UsbGadget -----------------------------
(***************************************************************************)
(* The USB gadget HAL (usb/gadget/UsbGadget.cpp): its one binder thread    *)
(* (service_gadget.cpp sets the pool maximum to 0 and joins it), which     *)
(* changes the functions of the gadget, and the thread of MonitorFfs,      *)
(* which pulls the gadget up when the daemons of its functionfs functions  *)
(* have written their descriptors.  MonitorFfs, the configfs helpers and   *)
(* the kernel are not in the repository: they are modelled from how the    *)
(* HAL uses them.                                                          *)
(***************************************************************************)
EXTENDS Naturals, Sequences, FiniteSets

CONSTANTS
    Issued,         \* sets of GadgetFunctions the framework asks for
    Vendors,        \* what getVendorFunctions() may return
    ConfigfsFaults, \* may a write or a link of configfs fail?
    CallbackFaults, \* may a call of the IUsbGadgetCallback fail?
    MayRestart,     \* may the service die and be started again?
    MaxEvents       \* bound on deaths, daemons' steps and property changes

GadgetFunction == {"ADB", "MTP", "PTP", "RNDIS", "MIDI", "NCM", "ACCESSORY",
                   "AUDIO_SOURCE", "UVC"}
VendorFunction == {"dm.gs7", "acm.gs6", "etr_miu.gs11", "acm.uwb0"}
Ffs     == {"ADB", "MTP", "PTP"}         \* functions with descriptors to write
Results == {"SUCCESS", "ERROR", "CONFIGURATION_NOT_SUPPORTED"}

ASSUME ConstantsAssumption ==
    /\ Issued \subseteq SUBSET GadgetFunction
    /\ Vendors \subseteq {"user", "dm", "etr_miu", "uwb_acm", "other"}
    /\ ConfigfsFaults \in BOOLEAN /\ CallbackFaults \in BOOLEAN
    /\ MayRestart \in BOOLEAN
    /\ MaxEvents \in Nat

VARIABLES
    pc,         \* the next step of the binder thread
    req,        \* the request it serves: operation, functions, any callback?
    status, mCurrentUsbFunctions, mCurrentUsbFunctionsApplied,
    vendor,     \* what getVendorFunctions() returns, and the property that
    uvcEnabled, \* enables UVC
    group,      \* the groups of functions linked so far, see setupFunctions()
    linked,     \* the functions linked in the configuration
    pid,        \* the product id in configfs
    bound,      \* the functions it was pulled up with, {} when it is down
    irqCore,    \* the core that serves the gadget's interrupt
    accessoryLimit, \* the accessory current limit is voted
    monitor,    \* MonitorFfs: "off", "wait", "notifyUp" or "notifyDown"
    watched,    \* the functions whose descriptors MonitorFfs waits for
    pulledUp,   \* MonitorFfs has pulled the gadget up, see waitForPullUp()
    deleted,    \* MonitorFfs has been told that descriptors went away
    ready,      \* the functions whose daemon has written its descriptors
    budget,     \* steps the environment may still take
    answers,    \* what the callback was told of this request (ghost)
    failed,     \* a call of the callback failed in this request (ghost)
    wasUp       \* the gadget was pulled up since it was torn down (ghost)

gadget   == <<group, linked, pid, bound>>
tuning   == <<irqCore, accessoryLimit>>
ffs      == <<monitor, watched, pulledUp, deleted>>
current  == <<mCurrentUsbFunctions, mCurrentUsbFunctionsApplied>>
property == <<vendor, uvcEnabled>>
outcome  == <<answers, failed>>
vars     == <<pc, req, status, current, property, gadget, tuning, ffs, ready,
              budget, outcome, wasUp>>

(* PULLUP_PATH holds the gadget's name: it is pulled up.                   *)
udc == bound # {}

Requests == [op : {"set", "reset"}, functions : SUBSET GadgetFunction,
             callback : BOOLEAN]
Pcs == {"idle", "teardown", "stopMonitor", "sleep", "validate", "link",
        "pullup", "start", "wait", "finish", "error", "resetDown", "resetUp"}

Init ==
    /\ pc = "idle" /\ status = "SUCCESS"
    /\ req = [op |-> "reset", functions |-> {}, callback |-> FALSE]
    \* the two fields are not initialised
    /\ mCurrentUsbFunctions \in Issued
    /\ mCurrentUsbFunctionsApplied \in BOOLEAN
    /\ vendor \in Vendors /\ uvcEnabled \in BOOLEAN
    /\ group = 0 /\ linked = {} /\ pid = "none" /\ bound = {}
    /\ irqCore = "any" /\ accessoryLimit = FALSE
    /\ monitor = "off" /\ watched = {} /\ pulledUp = FALSE /\ deleted = FALSE
    /\ ready = {} /\ budget = MaxEvents
    /\ answers = <<>> /\ failed = FALSE /\ wasUp = FALSE

ConfigfsOk == IF ConfigfsFaults THEN BOOLEAN ELSE {TRUE}
(* "none" written to PULLUP_PATH; the kernel refuses it of a gadget that   *)
(* is down.                                                                *)
PullDownOk == IF udc THEN ConfigfsOk ELSE {FALSE}
CallbackOk == IF CallbackFaults THEN BOOLEAN ELSE {TRUE}

(* The kernel binds the gadget when it is not bound and has functions, all *)
(* with their descriptors.                                                 *)
Bindable == ~udc /\ linked # {} /\ (linked \cap Ffs) \subseteq ready

(* The callback is told s; a failed call tells it nothing.                 *)
Answer(s, ok) == /\ answers' = IF req.callback /\ ok THEN Append(answers, s)
                               ELSE answers
                 /\ failed' = (failed \/ (req.callback /\ ~ok))

-----------------------------------------------------------------------------
(* validateAndSetVidPid(): the product id of a set of functions.           *)

(* The ids of the sets of functions when there are no vendor functions.    *)
M_PlainPids == {<<{"RNDIS"}, "4ee3">>, <<{"ADB", "RNDIS"}, "4ee3">>}
PlainPids == {
    <<{"MTP"}, "4ee1">>,          <<{"ADB", "MTP"}, "4ee2">>,
    <<{"RNDIS"}, "4ee3">>,        <<{"ADB", "RNDIS"}, "4ee4">>,
    <<{"RNDIS", "NCM"}, "4ee3">>, <<{"ADB", "RNDIS", "NCM"}, "4ee4">>,
    <<{"PTP"}, "4ee5">>,          <<{"ADB", "PTP"}, "4ee6">>,
    <<{"ADB"}, "4ee7">>,
    <<{"MIDI"}, "4ee8">>,         <<{"ADB", "MIDI"}, "4ee9">>,
    <<{"ACCESSORY"}, "2d00">>,    <<{"ADB", "ACCESSORY"}, "2d01">>,
    <<{"AUDIO_SOURCE"}, "2d02">>, <<{"ADB", "AUDIO_SOURCE"}, "2d03">>,
    <<{"ACCESSORY", "AUDIO_SOURCE"}, "2d04">>,
    <<{"ADB", "ACCESSORY", "AUDIO_SOURCE"}, "2d05">>,
    <<{"NCM"}, "4eeb">>,          <<{"ADB", "NCM"}, "4eec">>,
    <<{"UVC"}, "4eed">>,          <<{"ADB", "UVC"}, "4eee">>}

(* The vendor functions that have an id of their own, "6862" being one of  *)
(* another vendor.                                                         *)
VendorPids ==
    {<<"dm", {"ADB"} \cup fs, "6862">> :
        fs \in {{}, {"RNDIS"}, {"RNDIS", "NCM"}, {"NCM"}}}
      \cup ({"etr_miu", "uwb_acm"} \X {{"ADB"}} \X {"4ee2"})

(* Sets for which vendor functions without an id are only logged.          *)
VendorIgnored(fs) == "ACCESSORY" \in fs \/ "AUDIO_SOURCE" \in fs
                       \/ fs \ {"ADB"} = {"NCM"}

PidsFor(fs, v, uvc) ==
    LET own == {p[3] : p \in {q \in VendorPids : q[1] = v /\ q[2] = fs}}
    IN  IF own # {} THEN own
        ELSE {p[2] : p \in {q \in PlainPids :
                /\ q[1] = fs
                /\ v = "user" \/ VendorIgnored(fs)
                /\ "UVC" \in fs => uvc}}

Validate ==
    /\ pc = "validate"
    /\ \E ok \in ConfigfsOk, p \in PidsFor(req.functions, vendor, uvcEnabled) :
         IF ok THEN pid' = p /\ pc' = "link" /\ status' = "SUCCESS"
               ELSE pid' = pid /\ pc' = "error" /\ status' = "ERROR"
    /\ UNCHANGED <<req, current, property, group, linked, bound, tuning, ffs,
                   ready, budget, outcome, wasUp>>

ValidateFails ==
    /\ pc = "validate"
    /\ PidsFor(req.functions, vendor, uvcEnabled) = {}
    /\ status' = "CONFIGURATION_NOT_SUPPORTED"
    /\ pc' = "error"
    /\ UNCHANGED <<req, current, property, gadget, tuning, ffs, ready,
                   budget, outcome, wasUp>>

-----------------------------------------------------------------------------
(* setCurrentUsbFunctions() and reset(), one request at a time.            *)

SetCurrentUsbFunctions(fs, cb) ==
    /\ pc = "idle"
    /\ req' = [op |-> "set", functions |-> fs, callback |-> cb]
    /\ mCurrentUsbFunctions' = fs
    /\ mCurrentUsbFunctionsApplied' = FALSE
    /\ pc' = "teardown"
    /\ answers' = <<>> /\ failed' = FALSE
    /\ UNCHANGED <<status, property, gadget, tuning, ffs, ready, budget,
                   wasUp>>

(* tearDownGadget(): resetGadget() pulls the gadget down and unlinks its   *)
(* functions, then the monitor is stopped.                                 *)
ResetGadget ==
    /\ pc = "teardown"
    /\ \/ /\ bound' = {} /\ linked' = {} /\ group' = 0 /\ wasUp' = FALSE
          /\ pc' = "stopMonitor"
          /\ UNCHANGED status
       \/ /\ ConfigfsFaults
          /\ status' = "ERROR" /\ pc' = "error"
          /\ UNCHANGED <<bound, linked, group, wasUp>>
    /\ UNCHANGED <<req, current, property, pid, tuning, ffs, ready, budget,
                   outcome>>

(* MonitorFfs::reset() joins the thread, which first ends what it is at.   *)
M_MonitorStopped == monitor
MonitorStopped == "off"
M_EndpointsLeft == watched
EndpointsLeft == IF monitor = "off" THEN watched ELSE {}

StopMonitor ==
    /\ pc = "stopMonitor" /\ monitor \in {"off", "wait"}
    /\ monitor' = MonitorStopped
    /\ watched' = EndpointsLeft
    /\ pulledUp' = FALSE /\ deleted' = FALSE
    /\ pc' = "sleep"
    /\ UNCHANGED <<req, status, current, property, gadget, tuning, ready,
                   budget, outcome, wasUp>>

(* After usleep(kDisconnectWaitUs): no functions are done already.         *)
Disconnected ==
    /\ pc = "sleep" /\ req.functions # {}
    /\ pc' = "validate"
    /\ UNCHANGED <<req, status, current, property, gadget, tuning, ffs,
                   ready, budget, outcome, wasUp>>

NoFunctions ==
    /\ pc = "sleep" /\ req.functions = {}
    /\ \E ok \in CallbackOk : Answer("SUCCESS", ok)
    /\ pc' = "idle"
    /\ UNCHANGED <<req, status, current, property, gadget, tuning, ffs,
                   ready, budget, wasUp>>

(* setupFunctions() links the functions in this order and stops at the     *)
(* first that fails, which may be in the middle of a group.                *)
(* getVendorFunctions() is called a second time.                           *)
M_VendorLinks(v) == {v}
VendorLinks(v) == CASE v = "dm"      -> {"dm.gs7", "acm.gs6"}
                    [] v = "etr_miu" -> {"etr_miu.gs11"}
                    [] v = "uwb_acm" -> {"acm.uwb0"}
                    [] OTHER         -> {}
LinkGroups == <<req.functions \ {"ADB", "NCM"}, VendorLinks(vendor),
                req.functions \cap {"ADB"}, req.functions \cap {"NCM"}>>

LinkGroup ==
    /\ pc = "link" /\ group < Len(LinkGroups)
    /\ \/ /\ linked' = linked \cup LinkGroups[group + 1]
          /\ group' = group + 1
          /\ watched' = watched \cup (LinkGroups[group + 1] \cap Ffs)
          /\ UNCHANGED <<pc, status>>
       \/ /\ ConfigfsFaults
          /\ \E part \in SUBSET LinkGroups[group + 1] :
               /\ part # LinkGroups[group + 1]
               /\ linked' = linked \cup part
               /\ watched' = watched \cup (part \cap Ffs)
          /\ status' = "ERROR" /\ pc' = "error"
          /\ UNCHANGED group
    /\ UNCHANGED <<req, current, property, pid, bound, tuning, monitor,
                   pulledUp, deleted, ready, budget, outcome, wasUp>>

FunctionsLinked ==
    /\ pc = "link" /\ group = Len(LinkGroups)
    /\ pc' = IF req.functions \cap Ffs = {} THEN "pullup" ELSE "start"
    /\ UNCHANGED <<req, status, current, property, gadget, tuning, ffs,
                   ready, budget, outcome, wasUp>>

(* Without functionfs functions the gadget is pulled up at once; the       *)
(* result of the callback is not looked at.                                *)
M_PullUpWorked(ok) == TRUE
PullUpWorked(ok) == ok

PullUpNow ==
    /\ pc = "pullup"
    /\ \E wrote \in ConfigfsOk, ok \in CallbackOk :
         /\ bound' = IF wrote /\ Bindable THEN linked ELSE bound
         /\ IF PullUpWorked(wrote /\ Bindable)
            THEN /\ mCurrentUsbFunctionsApplied' = TRUE
                 /\ Answer("SUCCESS", ok)
                 /\ pc' = "finish"
                 /\ UNCHANGED status
            ELSE /\ status' = "ERROR" /\ pc' = "error"
                 /\ UNCHANGED <<mCurrentUsbFunctionsApplied, answers, failed>>
    /\ wasUp' = (wasUp \/ bound' # {})
    /\ UNCHANGED <<req, mCurrentUsbFunctions, property, group, linked, pid,
                   tuning, ffs, ready, budget>>

StartMonitor ==
    /\ pc = "start"
    /\ monitor' = "wait"
    /\ pc' = IF req.callback THEN "wait" ELSE "finish"
    /\ UNCHANGED <<req, status, current, property, gadget, tuning, watched,
                   pulledUp, deleted, ready, budget, outcome, wasUp>>

(* waitForPullUp() returns at a pull-up or after the timeout; a failed     *)
(* callback is an error, although a timeout that was told is not.          *)
M_AfterAnswer(ok) == "error"
AfterAnswer(ok) == IF ok THEN "finish" ELSE "error"

M_PullUpSeen == {pulledUp} \ {FALSE}
PullUpSeen == {pulledUp, FALSE}

WaitForPullUp ==
    /\ pc = "wait"
    /\ \E up \in PullUpSeen, ok \in CallbackOk :
         /\ Answer(IF up THEN "SUCCESS" ELSE "ERROR", ok)
         /\ pc' = AfterAnswer(ok)
         /\ status' = IF ok THEN "SUCCESS" ELSE "ERROR"
    /\ UNCHANGED <<req, current, property, gadget, tuning, ffs, ready,
                   budget, wasUp>>

(* The interrupt is moved to a core, and the accessory current limit voted *)
(* at a downstream port of low current; what fails is only logged.  The    *)
(* request without functions and the failed one do not come here.          *)
Core == IF "NCM" \in req.functions THEN "big" ELSE "medium"

Finish ==
    /\ pc = "finish"
    /\ \E irqOk, limitOk \in ConfigfsOk, cdp \in BOOLEAN :
         LET vote == "ACCESSORY" \in req.functions /\ cdp
         IN  /\ irqCore' = IF irqOk THEN Core ELSE irqCore
             /\ accessoryLimit' = IF limitOk THEN vote ELSE accessoryLimit
    /\ pc' = "idle"
    /\ UNCHANGED <<req, status, current, property, gadget, ffs, ready,
                   budget, outcome, wasUp>>

SetFailed ==
    /\ pc = "error"
    /\ \E ok \in CallbackOk : Answer(status, ok)
    /\ pc' = "idle"
    /\ UNCHANGED <<req, status, current, property, gadget, tuning, ffs,
                   ready, budget, wasUp>>

(* reset(): down, a delay, up.                                             *)
Reset(cb) ==
    /\ pc = "idle"
    /\ req' = [op |-> "reset", functions |-> {}, callback |-> cb]
    /\ answers' = <<>> /\ failed' = FALSE
    /\ pc' = "resetDown"
    /\ UNCHANGED <<status, current, property, gadget, tuning, ffs, ready,
                   budget, wasUp>>

ResetDown ==
    /\ pc = "resetDown"
    /\ \E ok \in PullDownOk, told \in CallbackOk :
         IF ok THEN /\ bound' = {} /\ pc' = "resetUp"
                    /\ UNCHANGED outcome
               ELSE /\ bound' = bound /\ pc' = "idle"
                    /\ Answer("ERROR", told)
    /\ UNCHANGED <<req, status, current, property, group, linked, pid,
                   tuning, ffs, ready, budget, wasUp>>

ResetUp ==
    /\ pc = "resetUp"
    /\ \E wrote \in ConfigfsOk, told \in CallbackOk :
         LET up == wrote /\ Bindable
         IN  /\ bound' = IF up THEN linked ELSE bound
             /\ wasUp' = (wasUp \/ up)
             /\ Answer(IF up THEN "SUCCESS" ELSE "ERROR", told)
    /\ pc' = "idle"
    /\ UNCHANGED <<req, status, current, property, group, linked, pid,
                   tuning, ffs, ready, budget>>

Serve == \/ ResetGadget \/ StopMonitor \/ Disconnected \/ NoFunctions
         \/ Validate \/ ValidateFails \/ LinkGroup \/ FunctionsLinked
         \/ PullUpNow
         \/ StartMonitor \/ WaitForPullUp \/ Finish \/ SetFailed
         \/ ResetDown \/ ResetUp

-----------------------------------------------------------------------------
(* The thread of MonitorFfs.  It acts when the descriptors it waits for    *)
(* are all there, or no longer, then calls currentFunctionsAppliedCallback.*)

MonitorPullUp ==
    /\ monitor = "wait" /\ ~deleted /\ ~pulledUp
    /\ watched \subseteq ready /\ Bindable
    /\ bound' = linked /\ wasUp' = TRUE
    /\ monitor' = "notifyUp"
    /\ UNCHANGED <<pc, req, status, current, property, group, linked, pid,
                   tuning, watched, pulledUp, deleted, ready, budget, outcome>>

MonitorPullDown ==
    /\ monitor = "wait" /\ deleted
    /\ deleted' = FALSE
    /\ IF pulledUp THEN bound' = {} /\ monitor' = "notifyDown"
                   ELSE UNCHANGED <<bound, monitor>>
    /\ UNCHANGED <<pc, req, status, current, property, group, linked, pid,
                   tuning, watched, pulledUp, ready, budget, outcome, wasUp>>

CurrentFunctionsAppliedCallback ==
    /\ monitor \in {"notifyUp", "notifyDown"}
    /\ mCurrentUsbFunctionsApplied' = (monitor = "notifyUp")
    /\ pulledUp' = (monitor = "notifyUp")
    /\ monitor' = "wait"
    /\ UNCHANGED <<pc, req, status, mCurrentUsbFunctions, property, gadget,
                   tuning, watched, deleted, ready, budget, outcome, wasUp>>

Monitor == MonitorPullUp \/ MonitorPullDown \/ CurrentFunctionsAppliedCallback

(* A daemon writes its descriptors, or dies: the kernel then unbinds a     *)
(* gadget with its function.                                               *)
WriteDescriptors(f) ==
    /\ budget > 0 /\ f \notin ready
    /\ ready' = ready \cup {f} /\ budget' = budget - 1
    /\ UNCHANGED <<pc, req, status, current, property, gadget, tuning, ffs,
                   outcome, wasUp>>

DaemonDies(f) ==
    /\ budget > 0 /\ f \in ready
    /\ ready' = ready \ {f} /\ budget' = budget - 1
    /\ bound' = IF f \in bound THEN {} ELSE bound
    /\ deleted' = (deleted \/ (monitor # "off" /\ f \in watched))
    /\ UNCHANGED <<pc, req, status, current, property, group, linked, pid,
                   tuning, monitor, watched, pulledUp, outcome, wasUp>>

ChangeProperty(v) ==
    /\ budget > 0 /\ v # vendor
    /\ vendor' = v /\ budget' = budget - 1
    /\ UNCHANGED <<pc, req, status, current, uvcEnabled, gadget, tuning, ffs,
                   ready, outcome, wasUp>>

(* The service dies anywhere in its code and is started again: what is in  *)
(* configfs stays, its fields start uninitialised, MonitorFfs is idle.     *)
Restart ==
    /\ MayRestart /\ budget > 0 /\ budget' = budget - 1
    /\ pc' = "idle" /\ status' = "SUCCESS"
    /\ req' = [op |-> "reset", functions |-> {}, callback |-> FALSE]
    /\ mCurrentUsbFunctions' \in Issued
    /\ mCurrentUsbFunctionsApplied' \in BOOLEAN
    /\ monitor' = "off" /\ watched' = {}
    /\ pulledUp' = FALSE /\ deleted' = FALSE
    /\ answers' = <<>> /\ failed' = FALSE
    /\ UNCHANGED <<property, gadget, tuning, ready, wasUp>>

Next ==
    \/ Restart
    \/ \E fs \in Issued, cb \in BOOLEAN : SetCurrentUsbFunctions(fs, cb)
    \/ \E cb \in BOOLEAN : Reset(cb)
    \/ Serve \/ Monitor
    \/ \E f \in (UNION Issued) \cap Ffs : WriteDescriptors(f) \/ DaemonDies(f)
    \/ \E v \in Vendors : ChangeProperty(v)

Spec == Init /\ [][Next]_vars

(* The two threads go on when they can.                                    *)
FairSpec == Spec /\ WF_vars(Serve) /\ WF_vars(Monitor)

-----------------------------------------------------------------------------
(* Properties.                                                             *)

(* Every variable has its type.                                            *)
TypeOK ==
    /\ pc \in Pcs /\ req \in Requests /\ status \in Results
    /\ mCurrentUsbFunctions \subseteq GadgetFunction
    /\ mCurrentUsbFunctionsApplied \in BOOLEAN
    /\ vendor \in Vendors /\ uvcEnabled \in BOOLEAN
    /\ linked \subseteq GadgetFunction \cup VendorFunction
    /\ pid \in {"none", "6862"} \cup {p[2] : p \in PlainPids}
    /\ group \in 0..4 /\ wasUp \in BOOLEAN
    /\ bound \subseteq GadgetFunction \cup VendorFunction
    /\ irqCore \in {"any", "big", "medium"} /\ accessoryLimit \in BOOLEAN
    /\ monitor \in {"off", "wait", "notifyUp", "notifyDown"}
    /\ watched \subseteq Ffs /\ pulledUp \in BOOLEAN /\ deleted \in BOOLEAN
    /\ ready \subseteq Ffs
    /\ budget \in 0..MaxEvents
    /\ answers \in Seq(Results) /\ failed \in BOOLEAN

(* A request that carries a callback is answered exactly once on every     *)
(* path through setCurrentUsbFunctions(), setupFunctions() and reset(); a  *)
(* call that failed is repeated at most once, never after one that worked. *)
AnsweredOnce ==
    /\ Len(answers) <= 1
    /\ pc = "idle" /\ req.callback => failed \/ Len(answers) = 1

(* The framework is told SUCCESS for a set of functions only when the      *)
(* gadget was pulled up since the old functions were torn down.            *)
SuccessMeansUp ==
    answers = <<"SUCCESS">> /\ req.op = "set" /\ req.functions # {} => wasUp

(* "Leave the gadget pulled down to give time for the host to sense        *)
(* disconnect": from the teardown until the functions are linked nothing   *)
(* in this service pulls the gadget up, the monitor of the old functions   *)
(* included.  (The USB HAL may: it is false of UsbDataPath.)               *)
DownWhileSwitching ==
    pc \in {"sleep", "validate", "link", "pullup", "start"}
        => ~udc /\ monitor = "off"

(* All functionfs functions of the gadget have their descriptors.          *)
Complete == monitor # "off" /\ (linked \cap Ffs) \subseteq ready

(* Every request ends: the join of the monitor and the wait for a pull-up  *)
(* do not hold the binder thread for ever.                                 *)
RequestsEnd == (pc # "idle") ~> (pc = "idle")

(* "Monitors the ffs paths to pull up the gadget when descriptors are      *)
(* written": the monitor waits for the functions of the gadget and for no  *)
(* others, whose daemons may never run.                                    *)
MonitorsLinkedPaths ==
    monitor # "off" /\ pc # "stopMonitor" => watched \subseteq linked

=============================================================================
