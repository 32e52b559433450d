--------------------------- MODULE UsbPortStatus ---------------------------
(***************************************************************************)
(* What a port status is made of: queryVersionHelper() of Usb.cpp, read by *)
(* read.  Three threads query (the uevent worker, a binder thread and the  *)
(* data session monitor in its callback), one at a time under mLock, while *)
(* the Type-C, charger and pogo drivers change the nodes between two reads *)
(* and send a uevent for each change.  The monitor's warnings come from    *)
(* WarningSource, which UsbDataSessionMonitor implements; they are read    *)
(* without any lock of the monitor.  With NodeFaults, a node may also fail *)
(* to be read, or hold a role that the HAL does not know.                  *)
(***************************************************************************)
EXTENDS Naturals, FiniteSets

CONSTANTS
    Partners,        \* partners [accessory, pd] that may attach
    PowerLimitFlag,  \* the flags report "other" as INPUT_POWER_LIMITED
    NodeFaults,      \* reads of nodes may fail
    MaxEvents        \* bound on the events, requests and failed reads

Threads   == {"worker", "binder", "monitor"}
Free      == "free"
NoPartner == [accessory |-> "none", pd |-> FALSE, there |-> FALSE]
Attached(p) == [accessory |-> p.accessory, pd |-> p.pd, there |-> TRUE]

ASSUME PortStatusAssumption ==
    /\ Partners \subseteq [accessory : {"none", "analog_audio", "debug"},
                           pd : BOOLEAN]
    /\ PowerLimitFlag \in BOOLEAN /\ NodeFaults \in BOOLEAN
    /\ MaxEvents \in Nat

PowerRoles  == {"source", "sink"}
DataRoles   == {"device", "host"}
Roles       == DataRoles \cup {"none"}
DataWarning == {"ENUMERATION_FAIL", "FLAKY_CONNECTION", "MISSING_DATA_LINES"}
Possible(r) == CASE r = "none"   -> {}
                 [] r = "device" -> DataWarning \ {"MISSING_DATA_LINES"}
                 [] r = "host"   -> DataWarning \ {"FLAKY_CONNECTION"}

(* The values of the nodes that change by themselves.                      *)
Values == [usb_type |-> {"[D", "[U", "other"}, pogo |-> BOOLEAN,
           detected |-> BOOLEAN,
           reasons  |-> {{}, {"missing_rp"}, {"other", "unknown"}}]

VARIABLES
    node,            \* the sysfs nodes of the port, the charger and the dock
    mUsbDataEnabled,
    mLock, pc,       \* pc[t]: "idle", "lock" (waits for mLock) or "query"
    at,              \* the next read of the query in progress
    connected, status,     \* its locals
    uevents,         \* uevents the worker has not taken yet
    told,            \* the last notifyPortStatusChange()
    mDataRole, mWarningSet, notifying,    \* the monitor, see WarningSource
    assigning,       \* its set is being changed
    left,            \* the partner left during the query (ghost)
    fault,           \* a read of the query failed (ghost)
    leftTold, faultTold,   \* the same of the query that was told (ghosts)
    budget

query   == <<mLock, pc, at, connected, status, told, fault, leftTold,
             faultTold>>
monitor == <<mDataRole, mWarningSet, notifying, assigning>>
vars    == <<node, mUsbDataEnabled, query, uevents, monitor, left, budget>>

Source == INSTANCE WarningSource

(* The PortStatus that resize() makes.                                     *)
Blank == [result |-> "SUCCESS", power |-> "none", data |-> "none",
          mode |-> "none", canChangeData |-> FALSE, canChangePower |-> FALSE,
          usbData |-> {}, brick |-> "UNKNOWN", detection |-> "DISABLED",
          limited |-> FALSE, warnings |-> {}]

Init ==
    /\ node \in [partner : {NoPartner} \cup {Attached(p) : p \in Partners},
                 power : {"sink"}, data : {"device"}, usb_type : {"other"},
                 pogo : {FALSE}, detected : {FALSE}, reasons : {{}},
                 enabled : {TRUE}, limit : {FALSE}]
    /\ mUsbDataEnabled = TRUE
    /\ mLock = Free /\ at = "none" /\ connected = FALSE /\ status = Blank
    \* the framework has registered and queries the port
    /\ pc = [t \in Threads |-> IF t = "binder" THEN "lock" ELSE "idle"]
    /\ uevents = 0
    /\ told = Blank
    /\ Source!Init /\ assigning = FALSE
    /\ left = FALSE /\ fault = FALSE
    /\ leftTold = FALSE /\ faultTold = FALSE
    /\ budget = MaxEvents

-----------------------------------------------------------------------------
(* queryVersionHelper().                                                   *)

Spend == budget > 0 /\ budget' = budget - 1

BeginQuery(t) ==
    /\ pc[t] = "lock" /\ mLock = Free
    /\ mLock' = t /\ pc' = [pc EXCEPT ![t] = "query"]
    /\ at' = "names" /\ status' = Blank /\ left' = FALSE /\ fault' = FALSE
    /\ UNCHANGED <<node, mUsbDataEnabled, connected, uevents, told, leftTold,
                   faultTold, monitor, budget>>

(* getTypeCPortNamesHelper(): has the port a "-partner" link?  (If the     *)
(* directory cannot be opened, see Crash.)                                 *)
ListPorts ==
    /\ at = "names" /\ at' = "power"
    /\ connected' = node.partner.there
    /\ UNCHANGED <<node, mUsbDataEnabled, mLock, pc, status, uevents, told,
                   fault, leftTold, faultTold, monitor, left, budget>>

(* The query goes from l to next with the status s.                        *)
Step(l, next, s) ==
    /\ at = l /\ at' = next
    /\ status' = s
    /\ UNCHANGED <<node, mUsbDataEnabled, mLock, pc, connected, uevents, told,
                   leftTold, faultTold, monitor, left>>

Read(l, next, s) == Step(l, next, s) /\ UNCHANGED <<fault, budget>>

(* The read fails, which is only logged: the field keeps what it has.      *)
Skip(l, next) == NodeFaults /\ Spend /\ fault' = TRUE /\ Step(l, next, status)

(* getCurrentRoleHelper() cannot read its node (ERROR) or does not know    *)
(* what it holds (UNRECOGNIZED_ROLE): getPortStatusHelper() gives up.      *)
Failed == [status EXCEPT !.result = "ERROR"]
GiveUp(l) == /\ connected /\ NodeFaults /\ Spend /\ fault' = TRUE
             /\ Step(l, "moisture", Failed)

M_IfConnected(value) == value
IfConnected(value) == IF connected THEN value ELSE "none"

ReadPowerRole ==
    \/ Read("power", "data", [status EXCEPT !.power = IfConnected(node.power)])
    \/ GiveUp("power")
ReadDataRole ==
    \/ Read("data", "accessory",
            [status EXCEPT !.data = IfConnected(node.data)])
    \/ GiveUp("data")

(* The mode comes from the partner's accessory_mode, which is gone if the  *)
(* partner left (goto done), or else from data_role, read once more.       *)
AccessoryMode == [analog_audio |-> "AUDIO_ACCESSORY",
                  debug        |-> "DEBUG_ACCESSORY"]
ModeOf(data) == IF data = "host" THEN "DFP" ELSE "UFP"

M_Unreadable == ~node.partner.there
Unreadable == connected /\ ~node.partner.there

ReadAccessory ==
    LET accessory == node.partner.accessory
    IN  \/ Unreadable /\ Read("accessory", "moisture", Failed)
        \/ GiveUp("accessory")
        \/ /\ ~Unreadable /\ ~connected
           /\ Read("accessory", "data_pd", status)
        \/ /\ ~Unreadable /\ connected /\ accessory = "none"
           /\ Read("accessory", "mode", status)
        \/ /\ ~Unreadable /\ connected /\ accessory # "none"
           /\ Read("accessory", "data_pd",
                   [status EXCEPT !.mode = AccessoryMode[accessory]])

ReadMode ==
    \/ Read("mode", "data_pd", [status EXCEPT !.mode = ModeOf(node.data)])
    \/ GiveUp("mode")

(* canSwitchRoleHelper(), for each role of a connected port.               *)
CanSwitchRole == connected /\ node.partner.there /\ node.partner.pd

ReadCanChange ==
    \/ Read("data_pd", "power_pd",
            [status EXCEPT !.canChangeData = CanSwitchRole])
    \/ Read("power_pd", "pogo",
            [status EXCEPT !.canChangePower = CanSwitchRole])
    \/ connected /\ Skip("data_pd", "power_pd")
    \/ connected /\ Skip("power_pd", "pogo")

ReadPogo ==
    \/ Read("pogo", "enabled",
            [status EXCEPT !.usbData = IF node.pogo THEN {"DISABLED_DOCK"}
                                       ELSE {}])
    \/ Skip("pogo", "enabled")

ReadDataEnabled ==
    Read("enabled", "brick",
         [status EXCEPT !.usbData =
            IF ~mUsbDataEnabled THEN @ \cup {"DISABLED_FORCE"}
            ELSE IF @ = {} THEN {"ENABLED"} ELSE @])

BrickOf(type) == CASE type = "[D"    -> "CONNECTED"
                   [] type = "[U"    -> "UNKNOWN"
                   [] type = "other" -> "NOT_CONNECTED"

(* usb_type is read unless the port is known to be a source.               *)
ReadPowerBrick ==
    LET reads == connected /\ status.power # "source"
    IN  \/ Read("brick", "moisture",
                [status EXCEPT !.brick = IF reads THEN BrickOf(node.usb_type)
                                         ELSE "NOT_CONNECTED"])
        \/ reads /\ Skip("brick", "moisture")

(* contaminant_detection_status is read if contaminant_detection is on.    *)
DetectionOf(detected) == IF detected THEN "DETECTED" ELSE "NOT_DETECTED"

QueryMoistureDetectionStatus ==
    \/ ~node.enabled /\ Read("moisture", "limit", status)
    \/ node.enabled /\ Read("moisture", "detected", status)
    \/ Read("detected", "limit",
            [status EXCEPT !.detection = DetectionOf(node.detected)])
    \/ Skip("moisture", "limit") \/ Skip("detected", "limit")

QueryPowerTransferStatus ==
    \/ Read("limit", "reasons", [status EXCEPT !.limited = node.limit])
    \/ Skip("limit", "reasons")

(* queryNonCompliantChargerStatus(): a charger that is not seen as a       *)
(* partner makes the port a sink.  Unknown reasons are left out.           *)
PowerLimited == IF PowerLimitFlag THEN "INPUT_POWER_LIMITED" ELSE "OTHER"
WarningOf == [debug |-> "DEBUG_ACCESSORY", bc12 |-> "BC_1_2",
              missing_rp |-> "MISSING_RP", other |-> PowerLimited,
              input_power_limited |-> PowerLimited]
ReasonWarnings == {WarningOf[r] : r \in node.reasons \cap DOMAIN WarningOf}

AsCharger(s) == [s EXCEPT !.mode = "UFP", !.power = "sink", !.data = "none",
                          !.brick = "CONNECTED"]

QueryNonCompliantChargerStatus ==
    LET s == [status EXCEPT !.warnings = ReasonWarnings]
    IN  \/ Read("reasons", "warnings",
                IF s.warnings # {} /\ s.power = "none" THEN AsCharger(s)
                ELSE s)
        \/ Skip("reasons", "warnings")

(* getComplianceWarnings(): nothing unless the port's role is the one of   *)
(* the monitor's session.  A set that is being changed meanwhile may be    *)
(* read as anything.                                                       *)
SessionWarnings(role) ==
    IF role # mDataRole \/ role = "none" THEN {{}}
    ELSE IF assigning THEN SUBSET DataWarning ELSE {mWarningSet}

QueryUsbDataSession ==
    \E ws \in SessionWarnings(status.data) :
       Read("warnings", "notify", [status EXCEPT !.warnings = @ \cup ws])

(* notifyPortStatusChange(), before mLock is released.                     *)
EndQuery(t) ==
    /\ mLock = t /\ at = "notify"
    /\ told' = status /\ leftTold' = left /\ faultTold' = fault
    /\ mLock' = Free /\ pc' = [pc EXCEPT ![t] = "idle"]
    /\ at' = "none" /\ status' = Blank /\ connected' = FALSE
    /\ IF t = "monitor" THEN Source!Notify /\ UNCHANGED assigning
       ELSE UNCHANGED monitor
    /\ UNCHANGED <<node, mUsbDataEnabled, uevents, left, fault, budget>>

Query(t) ==
    \/ BeginQuery(t) \/ EndQuery(t)
    \/ /\ mLock = t
       /\ \/ ListPorts \/ ReadPowerRole \/ ReadDataRole \/ ReadAccessory
          \/ ReadMode \/ ReadCanChange \/ ReadPogo \/ ReadDataEnabled
          \/ ReadPowerBrick \/ QueryMoistureDetectionStatus
          \/ QueryPowerTransferStatus \/ QueryNonCompliantChargerStatus
          \/ QueryUsbDataSession

-----------------------------------------------------------------------------
(* Who queries.                                                            *)

(* uevent_event() takes a message and queries, waiting for mLock.          *)
M_AfterUevent == IF mLock = Free THEN "lock" ELSE "idle"
AfterUevent == "lock"

TakeUevent ==
    /\ pc["worker"] = "idle" /\ uevents > 0
    /\ uevents' = uevents - 1
    /\ pc' = [pc EXCEPT !["worker"] = AfterUevent]
    /\ UNCHANGED <<node, mUsbDataEnabled, mLock, at, connected, status, told,
                   fault, leftTold, faultTold, monitor, left, budget>>

(* queryPortStatus(), enableUsbData(), limitPowerTransfer(), which writes  *)
(* under mLock, and enableContaminantPresenceDetection(); all then query.  *)
Request ==
    /\ pc["binder"] = "idle" /\ Spend
    /\ pc' = [pc EXCEPT !["binder"] = "lock"]
    /\ \/ UNCHANGED <<node, mUsbDataEnabled>>
       \/ mUsbDataEnabled' = ~mUsbDataEnabled /\ UNCHANGED node
       \/ /\ mLock = Free
          /\ node' = [node EXCEPT !.limit = ~@]
          /\ UNCHANGED mUsbDataEnabled
       \/ node' = [node EXCEPT !.enabled = ~@] /\ UNCHANGED mUsbDataEnabled
    /\ UNCHANGED <<mLock, at, connected, status, told, fault, leftTold,
                   faultTold, uevents, monitor, left>>

(* The monitor changes its set, which takes a while; its callback then     *)
(* waits for mLock like everyone else.                                     *)
NewSession ==
    /\ ~assigning /\ Spend
    /\ \E r \in Roles : Source!NewSession(r)
    /\ assigning' = TRUE
    /\ UNCHANGED <<node, mUsbDataEnabled, query, uevents, left>>

ChangeWarnings ==
    /\ ~assigning /\ Spend
    /\ \E ws \in SUBSET Possible(mDataRole) : Source!Change(ws)
    /\ assigning' = TRUE
    /\ UNCHANGED <<node, mUsbDataEnabled, query, uevents, left>>

M_Callback == notifying /\ mLock = Free
Callback == notifying

Assigned ==
    /\ assigning /\ assigning' = FALSE
    /\ pc' = IF Callback THEN [pc EXCEPT !["monitor"] = "lock"] ELSE pc
    /\ UNCHANGED <<node, mUsbDataEnabled, mLock, at, connected, status, told,
                   fault, leftTold, faultTold, uevents, mDataRole,
                   mWarningSet, notifying, left, budget>>

(* The service dies if the ports cannot be listed, because all that        *)
(* follows uses the first element of an empty vector, and may die if the   *)
(* set of warnings is read while it is changed.  init starts it again, and *)
(* the framework then queries the port.                                    *)
Crash ==
    /\ \/ at = "names" /\ NodeFaults /\ Spend
       \/ /\ at = "warnings" /\ assigning
          /\ SessionWarnings(status.data) # {{}}
          /\ UNCHANGED budget
    /\ mLock' = Free /\ at' = "none" /\ connected' = FALSE /\ status' = Blank
    /\ pc' = [t \in Threads |-> IF t = "binder" THEN "lock" ELSE "idle"]
    /\ mUsbDataEnabled' = TRUE /\ uevents' = 0
    /\ mDataRole' \in Roles /\ mWarningSet' = {}
    /\ notifying' = FALSE /\ assigning' = FALSE
    /\ UNCHANGED <<node, told, fault, leftTold, faultTold, left>>

-----------------------------------------------------------------------------
(* The drivers.  Every change is announced by a uevent.                    *)

Announce(n) ==
    /\ Spend
    /\ node' = n
    /\ uevents' = uevents + 1
    /\ UNCHANGED <<mUsbDataEnabled, query, monitor>>

Attach ==
    /\ ~node.partner.there
    /\ \E p \in Partners, pw \in PowerRoles, d \in DataRoles :
         Announce([node EXCEPT !.partner = Attached(p), !.power = pw,
                               !.data = d])
    /\ UNCHANGED left

Detach ==
    /\ node.partner.there
    /\ Announce([node EXCEPT !.partner = NoPartner])
    /\ left' = (left \/ mLock # Free)

SwapRole ==
    /\ node.partner.there
    /\ \/ Announce([node EXCEPT !.power = CHOOSE r \in PowerRoles : r # @])
       \/ Announce([node EXCEPT !.data = CHOOSE r \in DataRoles : r # @])
    /\ UNCHANGED left

ChangeNode ==
    /\ \E f \in DOMAIN Values : \E v \in Values[f] \ {node[f]} :
         Announce([node EXCEPT ![f] = v])
    /\ UNCHANGED left

Drivers == Attach \/ Detach \/ SwapRole \/ ChangeNode

Next == \/ \E t \in Threads : Query(t)
        \/ TakeUevent \/ Request \/ NewSession \/ ChangeWarnings \/ Assigned
        \/ Crash \/ Drivers

Spec == Init /\ [][Next]_vars

(* The threads go on, and the bounded requests leave mLock to the others.  *)
Fairness == /\ \A t \in Threads : WF_vars(Query(t))
            /\ WF_vars(TakeUevent) /\ WF_vars(Assigned)
FairSpec == Spec /\ Fairness

-----------------------------------------------------------------------------
(* Properties.                                                             *)

(* The status of the port if all nodes were read at once.                  *)
Reference ==
    LET c    == node.partner.there
        solo == ~c /\ ReasonWarnings # {}      \* a charger without partner
        role == IF c THEN node.data ELSE "none"
    IN  [result    |-> "SUCCESS",
         power     |-> IF c THEN node.power
                       ELSE IF solo THEN "sink" ELSE "none",
         data      |-> role,
         mode      |-> IF solo THEN "UFP" ELSE IF ~c THEN "none"
                       ELSE IF node.partner.accessory = "none"
                       THEN ModeOf(node.data)
                       ELSE AccessoryMode[node.partner.accessory],
         canChangeData  |-> node.partner.pd,
         canChangePower |-> node.partner.pd,
         usbData   |-> IF ~node.pogo /\ mUsbDataEnabled THEN {"ENABLED"}
                       ELSE {s \in {"DISABLED_DOCK", "DISABLED_FORCE"} :
                               IF s = "DISABLED_DOCK" THEN node.pogo
                               ELSE ~mUsbDataEnabled},
         brick     |-> IF solo THEN "CONNECTED"
                       ELSE IF c /\ node.power = "sink"
                       THEN BrickOf(node.usb_type) ELSE "NOT_CONNECTED",
         detection |-> IF node.enabled THEN DetectionOf(node.detected)
                       ELSE "DISABLED",
         limited   |-> node.limit,
         warnings  |-> ReasonWarnings
                         \cup IF role = mDataRole THEN mWarningSet ELSE {}]

Quiet == /\ uevents = 0 /\ \A t \in Threads : pc[t] = "idle"
         /\ ~assigning /\ ~notifying

(* Once nothing is on its way, the framework has the status the nodes      *)
(* have, complete and not mixed from before and after a change, whichever  *)
(* threads queried, in whatever order, and wherever in a query the changes *)
(* fell, unless a read of the last query failed; the monitor's warnings    *)
(* are among it whenever it has any.  (A new session clears them without a *)
(* callback: old ones may then stay.)                                      *)
StatusIsCurrent ==
    Quiet => \/ told = Reference
             \/ /\ mWarningSet = {}
                /\ told = [Reference EXCEPT !.warnings =
                             @ \cup (told.warnings \cap DataWarning)]
             \/ faultTold

(* getPortStatusHelper() reports an error only if the partner left in the  *)
(* middle of that query or one of its reads failed: a port without partner *)
(* and one whose partner came or changed meanwhile are no errors.          *)
ErrorHasReason == told.result = "ERROR" => leftTold \/ faultTold

(* ... and the error of a partner that left is followed by a query without *)
(* one, unless that query has a failed read itself.                        *)
ErrorIsCorrected ==
    (told.result = "ERROR" /\ ~faultTold)
        ~> (told.result = "SUCCESS" \/ faultTold)

(* The warnings of a session reach the framework if the port agrees with   *)
(* the monitor on the role, although a query that was under way when they  *)
(* changed may have missed or garbled them.                                *)
WarningsReachFramework ==
    (mWarningSet # {})
        ~> \/ mWarningSet = {} \/ told.warnings \cap DataWarning = mWarningSet
           \/ ~node.partner.there \/ node.data # mDataRole
           \/ faultTold

=============================================================================
