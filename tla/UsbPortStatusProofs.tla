------------------------ MODULE UsbPortStatusProofs ------------------------
(***************************************************************************)
(* Proofs about UsbPortStatus, for every set of partners, every bound and  *)
(* every interleaving of the three threads, the drivers, the monitor and   *)
(* the failing reads: a query is an error only because its partner left or *)
(* a read failed, and the framework ends up with the status that the nodes *)
(* have, unless a read of the last query failed.                           *)
(***************************************************************************)
EXTENDS UsbPortStatus, TLAPS

(* The thread that holds mLock is the one that queries; a partner that was *)
(* there when the ports were listed is there still or has left since; only *)
(* then, or if a read failed, is the result an error.                      *)
QueryInv ==
    /\ mLock \in Threads \cup {Free}
    /\ (mLock = Free) <=> (at = "none")
    /\ "result" \in DOMAIN status
    /\ "partner" \in DOMAIN node
    /\ at \notin {"none", "names"} /\ connected => node.partner.there \/ left
    /\ status.result = "ERROR"
         => (left \/ fault) /\ at \notin {"none", "names"}
    /\ ErrorHasReason

Steps == {"power", "data", "accessory", "mode", "data_pd", "power_pd", "pogo",
          "enabled", "brick", "moisture", "detected", "limit", "reasons",
          "warnings", "notify"}

(* A step of the query that does not touch the result.                     *)
LEMMA StepKeeps ==
    ASSUME QueryInv, NEW t \in Threads, mLock = t,
           NEW l \in Steps, NEW n \in Steps, NEW s, Step(l, n, s),
           fault => fault',
           DOMAIN s = DOMAIN status, s.result = status.result
    PROVE  QueryInv'
<1>1. /\ at = l /\ at' = n /\ status' = s
      /\ UNCHANGED <<node, mLock, connected, told, leftTold, faultTold, left>>
  BY DEF Step
<1>2. l \notin {"none", "names"} /\ n \notin {"none", "names"}
  BY DEF Steps
<1> QED BY <1>1, <1>2 DEF QueryInv, ErrorHasReason

LEMMA ReadKeeps ==
    ASSUME QueryInv, NEW t \in Threads, mLock = t,
           NEW l \in Steps, NEW n \in Steps, NEW s, Read(l, n, s),
           DOMAIN s = DOMAIN status, s.result = status.result
    PROVE  QueryInv'
BY StepKeeps DEF Read

LEMMA SkipKeeps ==
    ASSUME QueryInv, NEW t \in Threads, mLock = t,
           NEW l \in Steps, NEW n \in Steps, Skip(l, n)
    PROVE  QueryInv'
BY StepKeeps DEF Skip

(* A query that gives up is an error, and has a failed read.               *)
LEMMA GiveUpKeeps ==
    ASSUME QueryInv, NEW t \in Threads, mLock = t, NEW l \in Steps, GiveUp(l)
    PROVE  QueryInv'
<1>1. /\ fault' /\ at = l /\ at' = "moisture" /\ status' = Failed
      /\ connected
      /\ UNCHANGED <<node, mLock, connected, told, leftTold, faultTold, left>>
  BY DEF GiveUp, Step
<1>2. "result" \in DOMAIN Failed
  BY DEF Failed, QueryInv
<1>3. l \notin {"none", "names"}
  BY DEF Steps
<1> QED BY <1>1, <1>2, <1>3 DEF QueryInv, ErrorHasReason

(* The exceptions of a status are statuses.                                *)
LEMMA ReadField ==
    ASSUME QueryInv, NEW t \in Threads, mLock = t,
           NEW l \in Steps, NEW n \in Steps, NEW f, NEW x, f # "result",
           Read(l, n, [status EXCEPT ![f] = x])
    PROVE  QueryInv'
<1>1. DOMAIN [status EXCEPT ![f] = x] = DOMAIN status
  OBVIOUS
<1>2. [status EXCEPT ![f] = x].result = status.result
  BY DEF QueryInv
<1> QED BY <1>1, <1>2, ReadKeeps

LEMMA QueryStep ==
    ASSUME QueryInv, NEW t \in Threads, Query(t) PROVE QueryInv'
<1>0. /\ {"power", "data", "accessory", "mode", "data_pd"} \subseteq Steps
      /\ {"power_pd", "pogo", "enabled", "brick", "moisture"} \subseteq Steps
      /\ {"detected", "limit", "reasons", "warnings", "notify"} \subseteq Steps
  BY DEF Steps
<1>1. CASE BeginQuery(t)
  <2>1. /\ mLock' = t /\ at' = "names" /\ status' = Blank
        /\ UNCHANGED <<node, told, leftTold, faultTold>>
    BY <1>1 DEF BeginQuery
  <2>2. Blank.result = "SUCCESS" /\ "result" \in DOMAIN Blank
    BY DEF Blank
  <2> QED BY <2>1, <2>2 DEF QueryInv, ErrorHasReason, Threads, Free
<1>2. CASE EndQuery(t)
  <2>1. /\ mLock = t /\ mLock' = Free /\ at = "notify" /\ at' = "none"
        /\ status' = Blank /\ told' = status /\ leftTold' = left
        /\ faultTold' = fault /\ UNCHANGED node
    BY <1>2 DEF EndQuery
  <2>2. Blank.result = "SUCCESS" /\ "result" \in DOMAIN Blank
    BY DEF Blank
  <2> QED BY <2>1, <2>2 DEF QueryInv, ErrorHasReason
<1> SUFFICES ASSUME mLock = t,
                    \/ ListPorts \/ ReadPowerRole \/ ReadDataRole
                    \/ ReadAccessory \/ ReadMode \/ ReadCanChange \/ ReadPogo
                    \/ ReadDataEnabled \/ ReadPowerBrick
                    \/ QueryMoistureDetectionStatus \/ QueryPowerTransferStatus
                    \/ QueryNonCompliantChargerStatus \/ QueryUsbDataSession
             PROVE  QueryInv'
  BY <1>1, <1>2 DEF Query
<1>3. CASE ListPorts
  BY <1>3 DEF ListPorts, QueryInv, ErrorHasReason
<1>4. CASE ReadPowerRole
  BY <1>4, <1>0, ReadField, GiveUpKeeps DEF ReadPowerRole
<1>5. CASE ReadDataRole
  BY <1>5, <1>0, ReadField, GiveUpKeeps DEF ReadDataRole
<1>6. CASE ReadAccessory
  <2>0. CASE GiveUp("accessory")
    BY <1>0, <2>0, GiveUpKeeps
  <2>1. CASE Unreadable /\ Read("accessory", "moisture", Failed)
    <3>1. /\ at = "accessory" /\ at' = "moisture"
          /\ status' = [status EXCEPT !.result = "ERROR"]
          /\ UNCHANGED <<node, mLock, connected, told, leftTold, faultTold,
                         left>>
      BY <2>1 DEF Read, Step, Failed
    <3>2. left
      BY <2>1, <3>1 DEF Unreadable, QueryInv
    <3> QED BY <3>1, <3>2 DEF QueryInv, ErrorHasReason
  <2>2. CASE \/ Read("accessory", "data_pd", status)
             \/ Read("accessory", "mode", status)
    BY <1>0, <2>2, ReadKeeps
  <2>3. CASE Read("accessory", "data_pd",
                  [status EXCEPT !.mode =
                     AccessoryMode[node.partner.accessory]])
    BY <2>3, <1>0, ReadField
  <2> QED BY <1>6, <2>0, <2>1, <2>2, <2>3 DEF ReadAccessory
<1>7. CASE ReadMode
  BY <1>7, <1>0, ReadField, GiveUpKeeps DEF ReadMode
<1>8. CASE ReadCanChange
  <2>1. \E n, l \in Steps, f \in {"canChangeData", "canChangePower"} :
          \/ Read(l, n, [status EXCEPT ![f] = CanSwitchRole])
          \/ Skip(l, n)
    BY <1>0, <1>8 DEF ReadCanChange
  <2> QED BY <2>1, <1>0, ReadField, SkipKeeps
<1>9. CASE ReadPogo
  BY <1>9, <1>0, ReadField, SkipKeeps DEF ReadPogo
<1>10. CASE ReadDataEnabled
  <2>1. \E x : Read("enabled", "brick", [status EXCEPT !.usbData = x])
    BY <1>10 DEF ReadDataEnabled
  <2> QED BY <2>1, <1>0, ReadField
<1>11. CASE ReadPowerBrick
  <2>1. \/ \E x : Read("brick", "moisture", [status EXCEPT !.brick = x])
        \/ Skip("brick", "moisture")
    BY <1>11 DEF ReadPowerBrick
  <2> QED BY <2>1, <1>0, ReadField, SkipKeeps
<1>12. CASE QueryMoistureDetectionStatus
  BY <1>12, <1>0, ReadKeeps, ReadField, SkipKeeps
     DEF QueryMoistureDetectionStatus
<1>13. CASE QueryPowerTransferStatus
  BY <1>13, <1>0, ReadField, SkipKeeps DEF QueryPowerTransferStatus
<1>14. CASE QueryNonCompliantChargerStatus
  <2> DEFINE s == [status EXCEPT !.warnings = ReasonWarnings]
  <2>1. DOMAIN s = DOMAIN status /\ s.result = status.result
    BY DEF QueryInv
  <2>2. /\ DOMAIN AsCharger(s) = DOMAIN status
        /\ AsCharger(s).result = status.result
    BY <2>1 DEF AsCharger, QueryInv
  <2>3. \/ Read("reasons", "warnings", s)
        \/ Read("reasons", "warnings", AsCharger(s))
        \/ Skip("reasons", "warnings")
    BY <1>14 DEF QueryNonCompliantChargerStatus
  <2> QED BY <2>1, <2>2, <2>3, <1>0, ReadKeeps, SkipKeeps
<1>15. CASE QueryUsbDataSession
  BY <1>15, <1>0, ReadField DEF QueryUsbDataSession
<1> QED BY <1>3, <1>4, <1>5, <1>6, <1>7, <1>8, <1>9, <1>10, <1>11, <1>12,
           <1>13, <1>14, <1>15

LEMMA DriverStep == ASSUME QueryInv, Drivers PROVE QueryInv'
<1>1. UNCHANGED query
  BY DEF Drivers, Attach, Detach, SwapRole, ChangeNode, Announce
<1>2. UNCHANGED <<mLock, at, connected, status, told, fault, leftTold,
                  faultTold>>
  BY <1>1 DEF query
<1>3. ASSUME "partner" \in DOMAIN node', left => left',
             at \notin {"none", "names"} /\ connected /\ node.partner.there
               => node'.partner.there \/ left'
      PROVE  QueryInv'
  BY <1>2, <1>3 DEF QueryInv, ErrorHasReason
<1>4. CASE Attach
  <2>1. PICK p \in Partners, pw \in PowerRoles, d \in DataRoles :
          node' = [node EXCEPT !.partner = Attached(p), !.power = pw,
                               !.data = d]
    BY <1>4 DEF Attach, Announce
  <2>2. "partner" \in DOMAIN node' /\ node'.partner = Attached(p)
    BY <2>1 DEF QueryInv
  <2>3. node'.partner.there
    BY <2>2 DEF Attached
  <2> QED BY <1>3, <1>4, <2>2, <2>3 DEF Attach
<1>5. CASE Detach
  <2>1. /\ node' = [node EXCEPT !.partner = NoPartner]
        /\ left' = (left \/ mLock # Free)
    BY <1>5 DEF Detach, Announce
  <2>2. at \notin {"none", "names"} => left'
    BY <2>1 DEF QueryInv
  <2> QED BY <1>2, <2>1, <2>2 DEF QueryInv, ErrorHasReason
<1>6. CASE SwapRole \/ ChangeNode
  <2>1. PICK f, x : node' = [node EXCEPT ![f] = x] /\ f # "partner"
    BY <1>6 DEF SwapRole, ChangeNode, Announce, Values
  <2>2. "partner" \in DOMAIN node' /\ node'.partner = node.partner
    BY <2>1 DEF QueryInv
  <2> QED BY <1>3, <1>6, <2>2 DEF SwapRole, ChangeNode
<1> QED BY <1>4, <1>5, <1>6 DEF Drivers

(* A status is reported as an error only when the partner left during the  *)
(* query it comes from or one of its reads failed: no interleaving of the  *)
(* three threads, the drivers and the monitor alone makes one.             *)
THEOREM ErrorHasCause == Spec => []ErrorHasReason
<1>1. Init => QueryInv
  <2> SUFFICES ASSUME Init PROVE QueryInv
    OBVIOUS
  <2>1. /\ mLock = Free /\ at = "none" /\ status = Blank /\ told = Blank
        /\ "partner" \in DOMAIN node
    BY DEF Init
  <2>2. Blank.result = "SUCCESS" /\ "result" \in DOMAIN Blank
    BY DEF Blank
  <2> QED BY <2>1, <2>2 DEF QueryInv, ErrorHasReason
<1>2. QueryInv /\ [Next]_vars => QueryInv'
  <2> SUFFICES ASSUME QueryInv, [Next]_vars PROVE QueryInv'
    OBVIOUS
  <2>1. ASSUME NEW t \in Threads, Query(t) PROVE QueryInv'
    BY <2>1, QueryStep
  <2>2. CASE TakeUevent
    BY <2>2 DEF TakeUevent, QueryInv, ErrorHasReason
  <2>3. CASE Request
    <3>1. UNCHANGED <<mLock, at, connected, status, told, fault, leftTold,
                      faultTold, left>>
      BY <2>3 DEF Request
    <3>2. "partner" \in DOMAIN node' /\ node'.partner = node.partner
      BY <2>3 DEF Request, QueryInv
    <3> QED BY <3>1, <3>2 DEF QueryInv, ErrorHasReason
  <2>4. CASE NewSession \/ ChangeWarnings \/ Assigned
    <3>1. UNCHANGED <<node, mLock, at, connected, status, told, fault,
                      leftTold, faultTold, left>>
      BY <2>4 DEF NewSession, ChangeWarnings, Assigned, query
    <3> QED BY <3>1 DEF QueryInv, ErrorHasReason
  <2>5. CASE Crash
    <3>1. /\ mLock' = Free /\ at' = "none" /\ status' = Blank
          /\ UNCHANGED <<node, told, leftTold, faultTold>>
      BY <2>5 DEF Crash
    <3>2. /\ Blank.result = "SUCCESS"
          /\ "result" \in DOMAIN Blank
      BY DEF Blank
    <3> QED BY <3>1, <3>2 DEF QueryInv, ErrorHasReason
  <2>6. CASE Drivers
    BY <2>6, DriverStep
  <2>7. CASE UNCHANGED vars
    BY <2>7 DEF vars, query, QueryInv, ErrorHasReason
  <2> QED BY <2>1, <2>2, <2>3, <2>4, <2>5, <2>6, <2>7 DEF Next
<1>3. QueryInv => ErrorHasReason
  BY DEF QueryInv
<1> QED BY <1>1, <1>2, <1>3, PTL DEF Spec
-----------------------------------------------------------------------------
(* The status is current.  A query is still to come as long as a uevent or *)
(* a thread waits for it; every change of a node causes one.  So if none   *)
(* is to come, nothing changed since the query in progress began, and its  *)
(* locals are what an undisturbed query has read at the same place, unless *)
(* one of its reads failed.                                                *)

QueryToCome == uevents > 0 \/ \E t \in Threads : pc[t] = "lock"

Accessories == {"none", "analog_audio", "debug"}
NodeOK ==
    /\ node \in [partner : [accessory : Accessories, pd : BOOLEAN,
                            there : BOOLEAN],
                 power : PowerRoles, data : DataRoles,
                 usb_type : Values.usb_type, pogo : BOOLEAN,
                 detected : BOOLEAN, reasons : Values.reasons,
                 enabled : BOOLEAN, limit : BOOLEAN]
    /\ node.partner.pd => node.partner.there
    /\ mUsbDataEnabled \in BOOLEAN

(* The monitor calls back after each change but those of a new session.    *)
MonitorOK ==
    /\ mDataRole \in Roles
    /\ notifying \in BOOLEAN /\ assigning \in BOOLEAN
    /\ mWarningSet \subseteq DataWarning
    /\ mDataRole = "none" => mWarningSet = {}
    /\ assigning /\ ~notifying => mWarningSet = {}
    /\ (pc["monitor"] # "idle") <=> (notifying /\ ~assigning)

LockOK ==
    /\ pc \in [Threads -> {"idle", "lock", "query"}]
    /\ mLock \in Threads \cup {Free}
    /\ \A t \in Threads : (pc[t] = "query") <=> (mLock = t)
    /\ uevents \in Nat
    /\ at \in Steps \cup {"none", "names"}
    /\ (mLock = Free) <=> (at = "none")

(* What an undisturbed query reads, field by field.                        *)
There     == node.partner.there
Pd        == node.partner.pd
PowerRead == IF There THEN node.power ELSE "none"
RoleRead  == IF There THEN node.data ELSE "none"
ModeRead  == IF ~There THEN "none"
             ELSE IF node.partner.accessory = "none" THEN ModeOf(node.data)
             ELSE AccessoryMode[node.partner.accessory]
PogoRead  == IF node.pogo THEN {"DISABLED_DOCK"} ELSE {}
DataRead  == IF ~mUsbDataEnabled THEN PogoRead \cup {"DISABLED_FORCE"}
             ELSE IF PogoRead = {} THEN {"ENABLED"} ELSE PogoRead
BrickRead == IF There /\ node.power # "source" THEN BrickOf(node.usb_type)
             ELSE "NOT_CONNECTED"
Detection == IF node.enabled THEN DetectionOf(node.detected) ELSE "DISABLED"
Solo      == ReasonWarnings # {} /\ ~There

(* A status with these fields, and what it is at each place of the query.  *)
Filled(p, d, m, cd, cp, u, b, det, lim, w) ==
    [result |-> "SUCCESS", power |-> p, data |-> d, mode |-> m,
     canChangeData |-> cd, canChangePower |-> cp, usbData |-> u, brick |-> b,
     detection |-> det, limited |-> lim, warnings |-> w]

Early(p, d, m, cd, cp, u) ==
    Filled(p, d, m, cd, cp, u, Blank.brick, Blank.detection, Blank.limited,
           Blank.warnings)
Late(b, det, lim) ==
    Filled(PowerRead, RoleRead, ModeRead, Pd, Pd, DataRead, b, det, lim,
           Blank.warnings)
Complete(ws) ==
    IF Solo THEN Filled("sink", "none", "UFP", Pd, Pd, DataRead, "CONNECTED",
                        Detection, node.limit, ws)
    ELSE Filled(PowerRead, RoleRead, ModeRead, Pd, Pd, DataRead, BrickRead,
                Detection, node.limit, ws)

(* The warnings are the reference's, or those of a session that is over.   *)
WarningsRead(ws) ==
    \/ ws = ReasonWarnings \cup IF RoleRead = mDataRole THEN mWarningSet
                                ELSE {}
    \/ mWarningSet = {} /\ ws = ReasonWarnings \cup (ws \cap DataWarning)

(* A complete status s.  While the monitor changes its set and is going to *)
(* call back, the warnings in it do not matter.                            *)
CompleteStatus(s) ==
    /\ s = Complete(s.warnings)
    /\ ~(assigning /\ notifying) => WarningsRead(s.warnings)

(* The status at each place a up to "warnings".                            *)
AtData   == Early(PowerRead, Blank.data, Blank.mode, Blank.canChangeData,
                  Blank.canChangePower, Blank.usbData)
AtMode   == Early(PowerRead, RoleRead, Blank.mode, Blank.canChangeData,
                  Blank.canChangePower, Blank.usbData)
AtDataPd == Early(PowerRead, RoleRead, ModeRead, Blank.canChangeData,
                  Blank.canChangePower, Blank.usbData)
AtPowerPd == Early(PowerRead, RoleRead, ModeRead, Pd, Blank.canChangePower,
                   Blank.usbData)
AtPogo    == Early(PowerRead, RoleRead, ModeRead, Pd, Pd, Blank.usbData)
AtEnabled == Early(PowerRead, RoleRead, ModeRead, Pd, Pd, PogoRead)
AtBrick   == Early(PowerRead, RoleRead, ModeRead, Pd, Pd, DataRead)
AtMoisture == Late(BrickRead, Blank.detection, Blank.limited)
AtLimit    == Late(BrickRead, Detection, Blank.limited)
AtReasons  == Late(BrickRead, Detection, node.limit)

Expected(a) ==
    CASE a \in {"names", "power"}    -> Blank
      [] a = "data"                  -> AtData
      [] a \in {"accessory", "mode"} -> AtMode
      [] a = "data_pd"               -> AtDataPd
      [] a = "power_pd"              -> AtPowerPd
      [] a = "pogo"                  -> AtPogo
      [] a = "enabled"               -> AtEnabled
      [] a = "brick"                 -> AtBrick
      [] a \in {"moisture", "detected"} -> AtMoisture
      [] a = "limit"                 -> AtLimit
      [] a = "reasons"               -> AtReasons
      [] a = "warnings"              -> Complete(ReasonWarnings)

Undisturbed(a, c, s) ==
    /\ a \notin {"none", "names"} => c = There
    /\ a = "mode" => There /\ node.partner.accessory = "none"
    /\ a = "detected" => node.enabled
    /\ a \notin {"none", "notify"} => s = Expected(a)
    /\ a = "notify" => CompleteStatus(s)

StatusInv ==
    /\ NodeOK /\ MonitorOK /\ LockOK
    /\ fault \in BOOLEAN /\ faultTold \in BOOLEAN
    /\ ~QueryToCome
         => /\ ~fault => Undisturbed(at, connected, status)
            /\ mLock = Free /\ ~faultTold => CompleteStatus(told)

(* A status with a charger that is not seen as a partner.                  *)
LEMMA FillCharger ==
    ASSUME NEW p, NEW d, NEW m, NEW cd, NEW cp, NEW u, NEW b, NEW det,
           NEW lim, NEW w, NEW s,
           s = Filled(p, d, m, cd, cp, u, b, det, lim, w)
    PROVE  AsCharger(s) = Filled("sink", "none", "UFP", cd, cp, u,
                                 "CONNECTED", det, lim, w)
<1>1. [s EXCEPT !.mode = "UFP"]
        = Filled(p, d, "UFP", cd, cp, u, b, det, lim, w)
  BY DEF Filled
<1>2. [Filled(p, d, "UFP", cd, cp, u, b, det, lim, w) EXCEPT !.power = "sink"]
        = Filled("sink", d, "UFP", cd, cp, u, b, det, lim, w)
  BY DEF Filled
<1>3. [Filled("sink", d, "UFP", cd, cp, u, b, det, lim, w)
         EXCEPT !.data = "none"]
        = Filled("sink", "none", "UFP", cd, cp, u, b, det, lim, w)
  BY DEF Filled
<1>4. [Filled("sink", "none", "UFP", cd, cp, u, b, det, lim, w)
         EXCEPT !.brick = "CONNECTED"]
        = Filled("sink", "none", "UFP", cd, cp, u, "CONNECTED", det, lim, w)
  BY DEF Filled
<1> QED BY <1>1, <1>2, <1>3, <1>4 DEF AsCharger

(* The nodes keep their types: no thread and no driver writes another      *)
(* value, and only a partner that is there can be a PD partner.            *)
LEMMA NodeStep == ASSUME NodeOK, [Next]_vars PROVE NodeOK'
<1>1. ASSUME UNCHANGED <<node, mUsbDataEnabled>> PROVE NodeOK'
  BY <1>1 DEF NodeOK
<1>2. ASSUME NEW t \in Threads, Query(t) PROVE NodeOK'
  BY <1>1, <1>2 DEF Query, BeginQuery, EndQuery, ListPorts, Read,
     Step, Skip, GiveUp, ReadPowerRole, ReadDataRole, ReadAccessory,
     ReadMode, ReadCanChange,
     ReadPogo, ReadDataEnabled, ReadPowerBrick, QueryMoistureDetectionStatus,
     QueryPowerTransferStatus, QueryNonCompliantChargerStatus,
     QueryUsbDataSession
<1>3. CASE TakeUevent \/ NewSession \/ ChangeWarnings \/ Assigned
  BY <1>1, <1>3 DEF TakeUevent, NewSession, ChangeWarnings, Assigned
<1>4. CASE Crash
  BY <1>4 DEF Crash, NodeOK
<1>5. CASE Request
  BY <1>1, <1>5 DEF Request, NodeOK
<1>6. CASE Attach
  <2>1. PICK p \in Partners, pw \in PowerRoles, d \in DataRoles :
          node' = [node EXCEPT !.partner = Attached(p), !.power = pw,
                               !.data = d]
    BY <1>6 DEF Attach, Announce
  <2>2. UNCHANGED mUsbDataEnabled
    BY <1>6 DEF Attach, Announce
  <2>3. /\ Attached(p) \in [accessory : Accessories, pd : BOOLEAN,
                            there : BOOLEAN]
        /\ Attached(p).there
    BY PortStatusAssumption DEF Attached, Accessories
  <2>4. node' \in [partner : [accessory : Accessories, pd : BOOLEAN,
                              there : BOOLEAN],
                   power : PowerRoles, data : DataRoles,
                   usb_type : Values.usb_type, pogo : BOOLEAN,
                   detected : BOOLEAN, reasons : Values.reasons,
                   enabled : BOOLEAN, limit : BOOLEAN]
    BY <2>1, <2>3 DEF NodeOK
  <2>5. node'.partner = Attached(p)
    BY <2>1 DEF NodeOK
  <2> QED BY <2>2, <2>3, <2>4, <2>5 DEF NodeOK
<1>7. CASE Detach
  <2>1. /\ node' = [node EXCEPT !.partner = NoPartner]
        /\ UNCHANGED mUsbDataEnabled
    BY <1>7 DEF Detach, Announce
  <2>2. NoPartner \in [accessory : Accessories, pd : BOOLEAN,
                       there : BOOLEAN] /\ ~NoPartner.pd
    BY DEF NoPartner, Accessories
  <2> QED BY <2>1, <2>2 DEF NodeOK
<1>8. CASE SwapRole
  <2>1. \E pw \in PowerRoles, d \in DataRoles :
          \/ node' = [node EXCEPT !.power = pw]
          \/ node' = [node EXCEPT !.data = d]
    <3>1. /\ (CHOOSE r \in PowerRoles : r # node.power) \in PowerRoles
          /\ (CHOOSE r \in DataRoles : r # node.data) \in DataRoles
      <4>1. /\ \E r \in PowerRoles : r # node.power
            /\ \E r \in DataRoles : r # node.data
        BY DEF PowerRoles, DataRoles
      <4> QED BY <4>1
    <3> QED BY <1>8, <3>1 DEF SwapRole, Announce
  <2>2. UNCHANGED mUsbDataEnabled
    BY <1>8 DEF SwapRole, Announce
  <2> QED BY <2>1, <2>2 DEF NodeOK
<1>9. CASE ChangeNode
  <2>1. PICK f \in DOMAIN Values : \E v \in Values[f] :
          node' = [node EXCEPT ![f] = v]
    BY <1>9 DEF ChangeNode, Announce
  <2>2. UNCHANGED mUsbDataEnabled
    BY <1>9 DEF ChangeNode, Announce
  <2>3. f \in {"usb_type", "pogo", "detected", "reasons"}
    BY DEF Values
  <2>4. PICK v \in Values[f] : node' = [node EXCEPT ![f] = v]
    BY <2>1
  <2>5. /\ f \in {"pogo", "detected"} => v \in BOOLEAN
        /\ f = "usb_type" => v \in Values.usb_type
        /\ f = "reasons" => v \in Values.reasons
    BY DEF Values
  <2> QED BY <2>2, <2>3, <2>4, <2>5 DEF NodeOK
<1>10. CASE UNCHANGED vars
  BY <1>1, <1>10 DEF vars
<1> QED BY <1>2, <1>3, <1>4, <1>5, <1>6, <1>7, <1>8, <1>9, <1>10
        DEF Next, Drivers

Reads == \/ ReadPowerRole \/ ReadDataRole \/ ReadAccessory \/ ReadMode
         \/ ReadCanChange \/ ReadPogo \/ ReadDataEnabled \/ ReadPowerBrick
         \/ QueryMoistureDetectionStatus \/ QueryPowerTransferStatus
         \/ QueryNonCompliantChargerStatus \/ QueryUsbDataSession

(* A read changes nothing but the place and the locals of the query.       *)
LEMMA ReadFrame ==
    ASSUME ListPorts \/ Reads
    PROVE  /\ UNCHANGED <<node, mUsbDataEnabled, mLock, pc, uevents, told,
                          leftTold, faultTold, monitor, left>>
           /\ fault => fault'
           /\ at \in Steps \cup {"names"} /\ at' \in Steps
BY DEF Reads, ListPorts, Read, Step, Skip, GiveUp, ReadPowerRole,
   ReadDataRole, ReadAccessory,
   ReadMode, ReadCanChange, ReadPogo, ReadDataEnabled, ReadPowerBrick,
   QueryMoistureDetectionStatus, QueryPowerTransferStatus,
   QueryNonCompliantChargerStatus, QueryUsbDataSession, Steps

LEMMA DriverFrame ==
    ASSUME Drivers
    PROVE  /\ uevents' = uevents + 1
           /\ UNCHANGED <<mUsbDataEnabled, mLock, pc, at, connected, status,
                          told, fault, leftTold, faultTold, monitor>>
<1>1. \E n : Announce(n)
  BY DEF Drivers, Attach, Detach, SwapRole, ChangeNode
<1> QED BY <1>1 DEF Announce, query

LEMMA QueryCases ==
    ASSUME NEW t \in Threads, Query(t)
    PROVE  \/ BeginQuery(t) \/ EndQuery(t)
           \/ mLock = t /\ (ListPorts \/ Reads)
BY DEF Query, Reads

(* One thread at a time is in a query, the one that has mLock.             *)
LEMMA LockStep ==
    ASSUME LockOK, MonitorOK, [Next]_vars PROVE LockOK'
<1>1. ASSUME NEW t \in Threads, Query(t) PROVE LockOK'
  <2>1. CASE BeginQuery(t)
    BY <2>1 DEF BeginQuery, LockOK, Threads, Free
  <2>2. CASE EndQuery(t)
    BY <2>2 DEF EndQuery, LockOK, Threads, Free
  <2>3. CASE mLock = t /\ (ListPorts \/ Reads)
    <3>1. UNCHANGED <<mLock, pc, uevents>> /\ at' \in Steps
      BY <2>3, ReadFrame
    <3>2. "none" \notin Steps /\ t # Free
      BY DEF Steps, Threads, Free
    <3> QED BY <2>3, <3>1, <3>2 DEF LockOK
  <2> QED BY <1>1, <2>1, <2>2, <2>3, QueryCases
<1>2. CASE TakeUevent
  BY <1>2 DEF TakeUevent, AfterUevent, LockOK, Threads, Free
<1>3. CASE Request
  BY <1>3 DEF Request, LockOK, Threads, Free
<1>4. CASE NewSession \/ ChangeWarnings
  BY <1>4 DEF NewSession, ChangeWarnings, query, LockOK
<1>5. CASE Assigned
  <2>1. /\ UNCHANGED <<mLock, at, uevents>>
        /\ \/ pc' = [pc EXCEPT !["monitor"] = "lock"] \/ pc' = pc
    BY <1>5 DEF Assigned
  <2>2. pc["monitor"] = "idle"
    BY <1>5 DEF Assigned, MonitorOK
  <2> QED BY <2>1, <2>2 DEF LockOK, Threads, Free
<1>6. CASE Crash
  <2>1. /\ mLock' = Free /\ at' = "none" /\ uevents' = 0
        /\ pc' = [t \in Threads |-> IF t = "binder" THEN "lock" ELSE "idle"]
    BY <1>6 DEF Crash
  <2> QED BY <2>1 DEF LockOK, Threads, Free
<1>7. CASE Drivers
  BY <1>7, DriverFrame DEF LockOK
<1>8. CASE UNCHANGED vars
  BY <1>8 DEF vars, query, LockOK
<1> QED BY <1>1, <1>2, <1>3, <1>4, <1>5, <1>6, <1>7, <1>8 DEF Next

(* The monitor waits in its callback, and changes nothing meanwhile.       *)
LEMMA MonitorStep ==
    ASSUME LockOK, MonitorOK, [Next]_vars PROVE MonitorOK'
<1>1. ASSUME UNCHANGED monitor,
             (pc'["monitor"] = "idle") <=> (pc["monitor"] = "idle")
      PROVE  MonitorOK'
  BY <1>1 DEF monitor, MonitorOK
<1>2. ASSUME NEW t \in Threads, Query(t) PROVE MonitorOK'
  <2>1. CASE BeginQuery(t)
    BY <1>1, <2>1 DEF BeginQuery, LockOK, Threads
  <2>2. CASE EndQuery(t)
    <3>1. CASE t = "monitor"
      BY <2>2, <3>1 DEF EndQuery, Source!Notify, LockOK, MonitorOK, Threads
    <3>2. CASE t # "monitor"
      BY <1>1, <2>2, <3>2 DEF EndQuery, LockOK, Threads
    <3> QED BY <3>1, <3>2
  <2>3. CASE ListPorts \/ Reads
    BY <1>1, <2>3, ReadFrame
  <2> QED BY <1>2, <2>1, <2>2, <2>3, QueryCases
<1>3. CASE TakeUevent \/ Request
  BY <1>1, <1>3 DEF TakeUevent, Request, LockOK, Threads
<1>4. CASE NewSession
  <2>1. ~notifying /\ ~assigning /\ assigning' = TRUE
        /\ UNCHANGED <<notifying, pc>> /\ mWarningSet' = {}
        /\ mDataRole' \in Roles
    BY <1>4 DEF NewSession, Source!NewSession, query
  <2> QED BY <2>1 DEF MonitorOK
<1>5. CASE ChangeWarnings
  <2>1. PICK ws \in SUBSET Possible(mDataRole) : mWarningSet' = ws
    BY <1>5 DEF ChangeWarnings, Source!Change
  <2>2. /\ ~notifying /\ ~assigning /\ assigning' = TRUE /\ notifying' = TRUE
        /\ UNCHANGED <<mDataRole, pc>>
    BY <1>5 DEF ChangeWarnings, Source!Change, query
  <2>3. /\ Possible(mDataRole) \subseteq DataWarning
        /\ mDataRole = "none" => Possible(mDataRole) = {}
    BY DEF Possible, DataWarning, Roles, DataRoles, MonitorOK
  <2> QED BY <2>1, <2>2, <2>3 DEF MonitorOK
<1>6. CASE Assigned
  <2>1. /\ assigning /\ assigning' = FALSE
        /\ UNCHANGED <<mDataRole, mWarningSet, notifying>>
        /\ pc' = IF notifying THEN [pc EXCEPT !["monitor"] = "lock"] ELSE pc
    BY <1>6 DEF Assigned, Callback
  <2> QED BY <2>1 DEF MonitorOK, LockOK, Threads
<1>7. CASE Crash
  BY <1>7 DEF Crash, MonitorOK, Threads
<1>8. CASE Drivers
  BY <1>1, <1>8, DriverFrame
<1>9. CASE UNCHANGED vars
  BY <1>1, <1>9 DEF vars, query
<1> QED BY <1>2, <1>3, <1>4, <1>5, <1>6, <1>7, <1>8, <1>9 DEF Next

(* Nothing that an undisturbed query reads has changed.                    *)
LEMMA SameReads ==
    ASSUME UNCHANGED <<node, mUsbDataEnabled>>
    PROVE  /\ UNCHANGED <<There, Pd, PowerRead, RoleRead, ModeRead>>
           /\ UNCHANGED <<PogoRead, DataRead, BrickRead>>
           /\ UNCHANGED <<Detection, ReasonWarnings, Solo>>
           /\ \A ws : Complete(ws)' = Complete(ws)
<1>1. UNCHANGED <<There, Pd, PowerRead, RoleRead, ModeRead>>
  BY DEF There, Pd, PowerRead, RoleRead, ModeRead
<1>2. UNCHANGED <<PogoRead, BrickRead, Detection>>
  BY <1>1 DEF PogoRead, BrickRead, Detection, DetectionOf, There
<1>3. UNCHANGED DataRead
  BY <1>2 DEF DataRead
<1>4. UNCHANGED ReasonWarnings
  BY DEF ReasonWarnings
<1>5. UNCHANGED Solo
  BY <1>1, <1>4 DEF Solo
<1>6. ASSUME NEW ws PROVE Complete(ws)' = Complete(ws)
  BY <1>1, <1>2, <1>3, <1>5 DEF Complete
<1> QED BY <1>1, <1>2, <1>3, <1>4, <1>5, <1>6

LEMMA SameExpected ==
    ASSUME UNCHANGED <<node, mUsbDataEnabled>>
    PROVE  \A a : Expected(a)' = Expected(a)
<1>1. /\ UNCHANGED <<There, Pd, PowerRead, RoleRead, ModeRead>>
      /\ UNCHANGED <<PogoRead, DataRead, BrickRead>>
      /\ UNCHANGED <<Detection, ReasonWarnings, Solo>>
  BY SameReads
<1>2. Complete(ReasonWarnings)' = Complete(ReasonWarnings)
  BY <1>1 DEF Complete
<1> TAKE a
<1> QED BY <1>1, <1>2 DEF Expected, Early, Late, Filled, AtData, AtMode,
           AtDataPd, AtPowerPd, AtPogo, AtEnabled, AtBrick, AtMoisture,
           AtLimit, AtReasons

(* If the monitor does not change either, the status in progress is judged *)
(* as before.                                                              *)
LEMMA SameJudgement ==
    ASSUME UNCHANGED <<node, mUsbDataEnabled, mDataRole, mWarningSet,
                       notifying, assigning>>
    PROVE  /\ \A s : CompleteStatus(s)' <=> CompleteStatus(s)
           /\ \A a, c, s :
                Undisturbed(a, c, s)' <=> Undisturbed(a, c, s)
<1>1. /\ UNCHANGED <<There, Pd, PowerRead, RoleRead, ModeRead>>
      /\ UNCHANGED <<PogoRead, DataRead, BrickRead>>
      /\ UNCHANGED <<Detection, ReasonWarnings>>
      /\ \A ws : Complete(ws)' = Complete(ws)
  BY SameReads
<1>2. ASSUME NEW ws PROVE WarningsRead(ws)' <=> WarningsRead(ws)
  BY <1>1 DEF WarningsRead
<1>3. ASSUME NEW s PROVE CompleteStatus(s)' <=> CompleteStatus(s)
  BY <1>1, <1>2 DEF CompleteStatus
<1>4. ASSUME NEW a, NEW c, NEW s
      PROVE  Undisturbed(a, c, s)' <=> Undisturbed(a, c, s)
  <2>1. Expected(a)' = Expected(a)
    BY SameExpected
  <2> QED BY <1>1, <1>3, <2>1 DEF Undisturbed
<1> QED BY <1>3, <1>4

LEMMA BlankFields ==
    Blank = Early(Blank.power, Blank.data, Blank.mode, Blank.canChangeData,
                  Blank.canChangePower, Blank.usbData)
BY DEF Blank, Early, Filled

(* An undisturbed query stays one with each read that does not fail.       *)
LEMMA UndisturbedRead ==
    ASSUME NodeOK, MonitorOK, Undisturbed(at, connected, status),
           ListPorts \/ Reads, ~fault'
    PROVE  Undisturbed(at, connected, status)'
<1>0. ASSUME NEW l, NEW n PROVE ~Skip(l, n) /\ ~GiveUp(l)
  BY DEF Skip, GiveUp
<1>1. UNCHANGED <<node, mUsbDataEnabled, mDataRole, mWarningSet, notifying,
                  assigning>>
  BY ReadFrame DEF monitor
<1> SUFFICES Undisturbed(at', connected', status')
  BY <1>1, SameJudgement
<1>2. ASSUME NEW l, NEW n, NEW s, Read(l, n, s),
             l \notin {"none", "names", "notify"},
             n \notin {"none", "names", "mode", "detected", "notify"},
             connected = There /\ status = Expected(l) => s = Expected(n)
      PROVE  Undisturbed(at', connected', status')
  <2>1. /\ at = l /\ at' = n /\ status' = s /\ connected' = connected
    BY <1>2 DEF Read, Step
  <2> QED BY <1>2, <2>1 DEF Undisturbed
<1>3. CASE ListPorts
  <2>1. Expected("names") = Blank /\ Expected("power") = Blank
    BY DEF Expected
  <2> QED BY <1>3, <2>1 DEF ListPorts, Undisturbed, There
<1>4. CASE ReadPowerRole
  <2>1. ASSUME status = Blank PROVE [status EXCEPT !.power = PowerRead] = AtData
    BY <2>1, BlankFields DEF AtData, Early, Filled
  <2>2. connected = There => IfConnected(node.power) = PowerRead
    BY DEF IfConnected, PowerRead
  <2>3. Expected("power") = Blank /\ Expected("data") = AtData
    BY DEF Expected
  <2> QED BY <1>0, <1>2, <1>4, <2>1, <2>2, <2>3 DEF ReadPowerRole
<1>5. CASE ReadDataRole
  <2>1. ASSUME status = AtData PROVE [status EXCEPT !.data = RoleRead] = AtMode
    BY <2>1 DEF AtData, AtMode, Early, Filled
  <2>2. connected = There => IfConnected(node.data) = RoleRead
    BY DEF IfConnected, RoleRead
  <2>3. Expected("data") = AtData /\ Expected("accessory") = AtMode
    BY DEF Expected
  <2> QED BY <1>0, <1>2, <1>5, <2>1, <2>2, <2>3 DEF ReadDataRole
<1>6. CASE ReadAccessory
  <2>1. at = "accessory" /\ connected = There /\ status = Expected(at)
    BY <1>0, <1>6 DEF ReadAccessory, Read, Step, Undisturbed
  <2>2. ~Unreadable
    BY <2>1 DEF Unreadable, There
  <2>3. /\ Expected("accessory") = AtMode /\ Expected("mode") = AtMode
        /\ Expected("data_pd") = AtDataPd
    BY DEF Expected
  <2>4. CASE Read("accessory", "data_pd", status) /\ ~connected
    <3>1. ModeRead = Blank.mode
      BY <2>1, <2>4 DEF ModeRead, Blank
    <3>2. status = Expected("data_pd")
      BY <2>1, <2>3, <3>1 DEF AtMode, AtDataPd
    <3> QED BY <1>2, <2>4, <3>2
  <2>5. CASE Read("accessory", "mode", status) /\ connected
             /\ node.partner.accessory = "none"
    <3>1. /\ at' = "mode" /\ connected' = connected /\ status' = status
      BY <2>5 DEF Read, Step
    <3> QED BY <2>1, <2>3, <2>5, <3>1 DEF Undisturbed
  <2>6. CASE /\ connected /\ node.partner.accessory # "none"
             /\ Read("accessory", "data_pd",
                     [status EXCEPT !.mode =
                        AccessoryMode[node.partner.accessory]])
    <3>1. ModeRead = AccessoryMode[node.partner.accessory]
      BY <2>1, <2>6 DEF ModeRead
    <3>2. ASSUME status = AtMode
          PROVE  [status EXCEPT !.mode = ModeRead] = AtDataPd
      BY <3>2 DEF AtMode, AtDataPd, Early, Filled
    <3> QED BY <1>2, <2>1, <2>3, <2>6, <3>1, <3>2
  <2> QED BY <1>0, <1>6, <2>2, <2>4, <2>5, <2>6 DEF ReadAccessory
<1>7. CASE ReadMode
  <2>1. at = "mode" /\ status = Expected("mode")
    BY <1>0, <1>7 DEF ReadMode, Read, Step, Undisturbed
  <2>2. There /\ node.partner.accessory = "none"
    BY <2>1 DEF Undisturbed
  <2>3. ModeRead = ModeOf(node.data)
    BY <2>2 DEF ModeRead
  <2>4. ASSUME status = AtMode
        PROVE  [status EXCEPT !.mode = ModeRead] = AtDataPd
    BY <2>4 DEF AtMode, AtDataPd, Early, Filled
  <2>5. Expected("mode") = AtMode /\ Expected("data_pd") = AtDataPd
    BY DEF Expected
  <2> QED BY <1>0, <1>2, <1>7, <2>1, <2>3, <2>4, <2>5 DEF ReadMode
<1>8. CASE ReadCanChange
  <2>1. connected = There => CanSwitchRole = Pd
    BY DEF CanSwitchRole, There, Pd, NodeOK
  <2>2. ASSUME status = AtDataPd
        PROVE  [status EXCEPT !.canChangeData = Pd] = AtPowerPd
    BY <2>2 DEF AtDataPd, AtPowerPd, Early, Filled
  <2>3. ASSUME status = AtPowerPd
        PROVE  [status EXCEPT !.canChangePower = Pd] = AtPogo
    BY <2>3 DEF AtPowerPd, AtPogo, Early, Filled
  <2>4. /\ Expected("data_pd") = AtDataPd /\ Expected("power_pd") = AtPowerPd
        /\ Expected("pogo") = AtPogo
    BY DEF Expected
  <2>5. CASE Read("data_pd", "power_pd",
                  [status EXCEPT !.canChangeData = CanSwitchRole])
    BY <1>2, <2>1, <2>2, <2>4, <2>5
  <2>6. CASE Read("power_pd", "pogo",
                  [status EXCEPT !.canChangePower = CanSwitchRole])
    BY <1>2, <2>1, <2>3, <2>4, <2>6
  <2> QED BY <1>0, <1>8, <2>5, <2>6 DEF ReadCanChange
<1>9. CASE ReadPogo
  <2>1. ASSUME status = AtPogo
        PROVE  [status EXCEPT !.usbData = PogoRead] = AtEnabled
    BY <2>1 DEF AtPogo, AtEnabled, Early, Filled
  <2>2. Expected("pogo") = AtPogo /\ Expected("enabled") = AtEnabled
    BY DEF Expected
  <2>3. Read("pogo", "enabled", [status EXCEPT !.usbData = PogoRead])
    BY <1>0, <1>9 DEF ReadPogo, PogoRead
  <2> QED BY <1>2, <2>1, <2>2, <2>3
<1>10. CASE ReadDataEnabled
  <2>1. at = "enabled" /\ status = Expected("enabled")
    BY <1>10 DEF ReadDataEnabled, Read, Step, Undisturbed
  <2>2. Expected("enabled") = AtEnabled /\ Expected("brick") = AtBrick
    BY DEF Expected
  <2>3. status.usbData = PogoRead
    BY <2>1, <2>2 DEF AtEnabled, Early, Filled
  <2>4. ASSUME status = AtEnabled
        PROVE  [status EXCEPT !.usbData = DataRead] = AtBrick
    BY <2>4 DEF AtEnabled, AtBrick, Early, Filled
  <2>5. Read("enabled", "brick", [status EXCEPT !.usbData = DataRead])
    BY <1>10, <2>3 DEF ReadDataEnabled, DataRead
  <2> QED BY <1>2, <2>1, <2>2, <2>4, <2>5
<1>11. CASE ReadPowerBrick
  <2>1. at = "brick" /\ status = Expected("brick") /\ connected = There
    BY <1>0, <1>11 DEF ReadPowerBrick, Read, Step, Undisturbed
  <2>2. Expected("brick") = AtBrick /\ Expected("moisture") = AtMoisture
    BY DEF Expected
  <2>3. status.power = PowerRead
    BY <2>1, <2>2 DEF AtBrick, Early, Filled
  <2>4. ASSUME status = AtBrick
        PROVE  [status EXCEPT !.brick = BrickRead] = AtMoisture
    BY <2>4 DEF AtBrick, AtMoisture, Early, Late, Filled
  <2>5. BrickRead = IF connected /\ status.power # "source"
                    THEN BrickOf(node.usb_type) ELSE "NOT_CONNECTED"
    BY <2>1, <2>3 DEF BrickRead, PowerRead
  <2>6. Read("brick", "moisture", [status EXCEPT !.brick = BrickRead])
    BY <1>0, <1>11, <2>5 DEF ReadPowerBrick
  <2> QED BY <1>2, <2>1, <2>2, <2>4, <2>6
<1>12. CASE QueryMoistureDetectionStatus
  <2>1. ASSUME status = AtMoisture
        PROVE  [status EXCEPT !.detection = Detection] = AtLimit
    BY <2>1 DEF AtMoisture, AtLimit, Late, Filled
  <2>2. /\ Expected("moisture") = AtMoisture /\ Expected("limit") = AtLimit
        /\ Expected("detected") = AtMoisture
    BY DEF Expected
  <2>3. CASE ~node.enabled /\ Read("moisture", "limit", status)
    <3>1. Detection = Blank.detection
      BY <2>3 DEF Detection, Blank
    <3>2. AtLimit = AtMoisture
      BY <3>1 DEF AtMoisture, AtLimit
    <3> QED BY <1>2, <2>2, <2>3, <3>2
  <2>4. CASE node.enabled /\ Read("moisture", "detected", status)
    <3>1. /\ at = "moisture" /\ at' = "detected" /\ status' = status
          /\ connected' = connected
      BY <2>4 DEF Read, Step
    <3> QED BY <2>2, <2>4, <3>1 DEF Undisturbed
  <2>5. CASE Read("detected", "limit",
                  [status EXCEPT !.detection = DetectionOf(node.detected)])
    <3>1. at = "detected"
      BY <2>5 DEF Read, Step
    <3>2. DetectionOf(node.detected) = Detection
      BY <3>1 DEF Undisturbed, Detection
    <3> QED BY <1>2, <2>1, <2>2, <2>5, <3>2
  <2> QED BY <1>0, <1>12, <2>3, <2>4, <2>5 DEF QueryMoistureDetectionStatus
<1>13. CASE QueryPowerTransferStatus
  <2>1. ASSUME status = AtLimit
        PROVE  [status EXCEPT !.limited = node.limit] = AtReasons
    BY <2>1 DEF AtLimit, AtReasons, Late, Filled
  <2>2. Expected("limit") = AtLimit /\ Expected("reasons") = AtReasons
    BY DEF Expected
  <2> QED BY <1>0, <1>2, <1>13, <2>1, <2>2 DEF QueryPowerTransferStatus
<1>14. CASE QueryNonCompliantChargerStatus
  <2> DEFINE s == [status EXCEPT !.warnings = ReasonWarnings]
             F == Filled(PowerRead, RoleRead, ModeRead, Pd, Pd, DataRead,
                         BrickRead, Detection, node.limit, ReasonWarnings)
  <2>1. at = "reasons" /\ status = Expected("reasons")
    BY <1>0, <1>14 DEF QueryNonCompliantChargerStatus, Read, Step, Undisturbed
  <2>2. /\ Expected("reasons") = AtReasons
        /\ Expected("warnings") = Complete(ReasonWarnings)
    BY DEF Expected
  <2>3. ASSUME status = AtReasons PROVE s = F
    BY <2>3 DEF AtReasons, Late, Filled
  <2>4. s = F
    BY <2>1, <2>2, <2>3
  <2>5. F.warnings = ReasonWarnings /\ F.power = PowerRead
    BY DEF Filled
  <2>6. AsCharger(s) = Filled("sink", "none", "UFP", Pd, Pd, DataRead,
                              "CONNECTED", Detection, node.limit,
                              ReasonWarnings)
    BY <2>4, FillCharger
  <2> HIDE DEF s, F
  <2>7. (s.warnings # {} /\ s.power = "none") <=> Solo
    BY <2>4, <2>5 DEF Solo, PowerRead, NodeOK, PowerRoles
  <2>8. (IF s.warnings # {} /\ s.power = "none" THEN AsCharger(s) ELSE s)
          = Expected("warnings")
    BY <2>2, <2>4, <2>6, <2>7 DEF Complete, F
  <2>9. Read("reasons", "warnings",
             IF s.warnings # {} /\ s.power = "none" THEN AsCharger(s) ELSE s)
    BY <1>0, <1>14 DEF QueryNonCompliantChargerStatus, s
  <2> QED BY <1>2, <2>8, <2>9
<1>15. CASE QueryUsbDataSession
  <2>1. at = "warnings" /\ status = Complete(ReasonWarnings)
    BY <1>15 DEF QueryUsbDataSession, Read, Step, Undisturbed, Expected
  <2>2. /\ status.data = RoleRead
        /\ status.warnings = ReasonWarnings
    BY <2>1 DEF Complete, Filled, Solo, RoleRead
  <2>3. PICK ws \in SessionWarnings(RoleRead) :
          Read("warnings", "notify",
               [status EXCEPT !.warnings = ReasonWarnings \cup ws])
    BY <1>15, <2>2 DEF QueryUsbDataSession
  <2>4. [status EXCEPT !.warnings = ReasonWarnings \cup ws]
          = Complete(ReasonWarnings \cup ws)
    BY <2>1 DEF Complete, Filled
  <2>5. Complete(ReasonWarnings \cup ws).warnings = ReasonWarnings \cup ws
    BY DEF Complete, Filled
  <2>6. ~(assigning /\ notifying) => WarningsRead(ReasonWarnings \cup ws)
    <3>1. CASE RoleRead # mDataRole \/ RoleRead = "none"
      BY <2>3, <3>1 DEF SessionWarnings, WarningsRead, MonitorOK
    <3>2. CASE ~(RoleRead # mDataRole \/ RoleRead = "none") /\ ~assigning
      BY <2>3, <3>2 DEF SessionWarnings, WarningsRead
    <3>3. CASE /\ ~(RoleRead # mDataRole \/ RoleRead = "none")
               /\ assigning /\ ~notifying
      <4>1. mWarningSet = {} /\ ws \subseteq DataWarning
        BY <2>3, <3>3 DEF SessionWarnings, MonitorOK
      <4> QED BY <4>1 DEF WarningsRead
    <3> QED BY <3>1, <3>2, <3>3 DEF MonitorOK
  <2>7. /\ at' = "notify" /\ connected' = connected
        /\ status' = Complete(ReasonWarnings \cup ws)
    BY <2>3, <2>4 DEF Read, Step
  <2> QED BY <2>1, <2>5, <2>6, <2>7 DEF Undisturbed, CompleteStatus
<1> QED BY <1>3, <1>4, <1>5, <1>6, <1>7, <1>8, <1>9, <1>10, <1>11, <1>12,
           <1>13, <1>14, <1>15 DEF Reads

(* A session's change outdates only warnings that it cleared, or ones for  *)
(* which the callback is to come.                                          *)
LEMMA SessionKeeps ==
    ASSUME MonitorOK, LockOK, NewSession \/ ChangeWarnings \/ Assigned,
           ~QueryToCome', NEW s, CompleteStatus(s)
    PROVE  CompleteStatus(s)'
<1>1. UNCHANGED <<node, mUsbDataEnabled>>
  BY DEF NewSession, ChangeWarnings, Assigned
<1>2. /\ UNCHANGED <<RoleRead, ReasonWarnings>>
      /\ \A ws : Complete(ws)' = Complete(ws)
  BY <1>1, SameReads
<1>3. s = Complete(s.warnings)'
  BY <1>2 DEF CompleteStatus
<1>4. CASE NewSession
  <2>1. ~assigning /\ ~notifying /\ ~notifying' /\ mWarningSet' = {}
    BY <1>4 DEF NewSession, Source!NewSession
  <2>2. WarningsRead(s.warnings)
    BY <2>1 DEF CompleteStatus
  <2>3. s.warnings = ReasonWarnings \cup (s.warnings \cap DataWarning)
    BY <2>2 DEF WarningsRead, MonitorOK
  <2> QED BY <1>2, <1>3, <2>1, <2>3 DEF CompleteStatus, WarningsRead
<1>5. CASE ChangeWarnings
  <2>1. assigning' /\ notifying'
    BY <1>5 DEF ChangeWarnings, Source!Change
  <2> QED BY <1>3, <2>1 DEF CompleteStatus
<1>6. CASE Assigned
  <2>1. /\ UNCHANGED <<mDataRole, mWarningSet, notifying>>
        /\ notifying => pc' = [pc EXCEPT !["monitor"] = "lock"]
    BY <1>6 DEF Assigned, Callback
  <2>2. CASE notifying
    BY <2>1, <2>2 DEF QueryToCome, LockOK, Threads
  <2>3. CASE ~notifying
    <3>1. WarningsRead(s.warnings)
      BY <2>3 DEF CompleteStatus
    <3> QED BY <1>2, <1>3, <2>1, <3>1 DEF CompleteStatus, WarningsRead
  <2> QED BY <2>2, <2>3
<1> QED BY <1>4, <1>5, <1>6

(* Every step but the start of a query leaves one to come, or found none   *)
(* to come and changed no node.                                            *)
LEMMA StatusStep ==
    ASSUME StatusInv, [Next]_vars, ~QueryToCome'
    PROVE  /\ ~fault' => Undisturbed(at, connected, status)'
           /\ (mLock = Free)' /\ ~faultTold' => CompleteStatus(told)'
<1>0. NodeOK /\ MonitorOK /\ LockOK
  BY DEF StatusInv
<1>1. ASSUME ~QueryToCome
      PROVE  /\ ~fault => Undisturbed(at, connected, status)
             /\ mLock = Free /\ ~faultTold => CompleteStatus(told)
  BY <1>1 DEF StatusInv
<1>2. ASSUME UNCHANGED <<uevents, pc>> PROVE ~QueryToCome
  BY <1>2 DEF QueryToCome
<1>3. ASSUME NEW t \in Threads, BeginQuery(t)
      PROVE  /\ ~fault' => Undisturbed(at, connected, status)'
             /\ (mLock = Free)' /\ ~faultTold' => CompleteStatus(told)'
  <2>1. at' = "names" /\ status' = Blank /\ mLock' # Free
    BY <1>3 DEF BeginQuery, Threads, Free
  <2>2. Expected("names")' = Blank
    BY DEF Expected
  <2> QED BY <2>1, <2>2 DEF Undisturbed
<1>4. ASSUME NEW t \in Threads, EndQuery(t)
      PROVE  /\ ~fault' => Undisturbed(at, connected, status)'
             /\ (mLock = Free)' /\ ~faultTold' => CompleteStatus(told)'
  <2>1. /\ mLock = t /\ at = "notify" /\ at' = "none" /\ told' = status
        /\ fault' = fault /\ faultTold' = fault
        /\ pc' = [pc EXCEPT ![t] = "idle"]
        /\ UNCHANGED <<node, mUsbDataEnabled, uevents, mDataRole, mWarningSet,
                       assigning>>
        /\ IF t = "monitor" THEN notifying' = FALSE
           ELSE notifying' = notifying
    BY <1>4 DEF EndQuery, Source!Notify, monitor
  <2>2. pc[t] = "query"
    BY <1>0, <2>1 DEF LockOK
  <2>3. ~QueryToCome
    BY <1>0, <2>1, <2>2 DEF QueryToCome, LockOK
  <2>0. CASE fault
    BY <2>0, <2>1
  <2> SUFFICES ASSUME ~fault
               PROVE  /\ Undisturbed(at, connected, status)'
                      /\ (mLock = Free)' => CompleteStatus(told)'
    BY <2>0
  <2>4. CompleteStatus(status)
    BY <1>1, <2>1, <2>3 DEF Undisturbed
  <2>5. t = "monitor" => notifying /\ ~assigning
    BY <1>0, <2>2 DEF MonitorOK
  <2>6. /\ UNCHANGED <<RoleRead, ReasonWarnings>>
        /\ \A ws : Complete(ws)' = Complete(ws)
    BY <2>1, SameReads
  <2>7. ~(assigning' /\ notifying') => WarningsRead(status.warnings)
    BY <2>1, <2>4, <2>5 DEF CompleteStatus
  <2>8. WarningsRead(status.warnings) => WarningsRead(told.warnings)'
    BY <2>1, <2>6 DEF WarningsRead
  <2>9. told' = Complete(told.warnings)'
    BY <2>1, <2>4, <2>6 DEF CompleteStatus
  <2>10. CompleteStatus(told)'
    BY <2>7, <2>8, <2>9 DEF CompleteStatus
  <2> QED BY <2>1, <2>10 DEF Undisturbed
<1>5. CASE ListPorts \/ Reads
  <2>1. /\ UNCHANGED <<uevents, pc, mLock>> /\ at # "none"
        /\ fault => fault'
    BY <1>5, ReadFrame DEF Steps
  <2>2. ~fault' => Undisturbed(at, connected, status)'
    BY <1>0, <1>1, <1>2, <1>5, <2>1, UndisturbedRead
  <2> QED BY <1>0, <2>1, <2>2 DEF LockOK
<1>6. CASE TakeUevent \/ Request \/ Crash \/ Drivers
  <2>1. CASE TakeUevent \/ Request
    <3>1. \E t \in Threads : pc' = [pc EXCEPT ![t] = "lock"]
      BY <2>1 DEF TakeUevent, AfterUevent, Request, Threads
    <3> QED BY <1>0, <3>1 DEF QueryToCome, LockOK
  <2>2. CASE Crash
    BY <2>2 DEF Crash, QueryToCome, Threads
  <2>3. CASE Drivers
    BY <1>0, <2>3, DriverFrame DEF QueryToCome, LockOK
  <2> QED BY <1>6, <2>1, <2>2, <2>3
<1>7. CASE NewSession \/ ChangeWarnings \/ Assigned
  <2>1. /\ UNCHANGED <<node, mUsbDataEnabled, mLock, at, connected, status,
                       told, uevents, fault, faultTold>>
    BY <1>7 DEF NewSession, ChangeWarnings, Assigned, query
  <2>2. ~QueryToCome
    <3>1. CASE UNCHANGED pc
      BY <1>2, <2>1, <3>1
    <3>2. CASE pc' = [pc EXCEPT !["monitor"] = "lock"]
      BY <1>0, <3>2 DEF QueryToCome, LockOK, Threads
    <3> QED BY <1>7, <3>1, <3>2 DEF NewSession, ChangeWarnings, Assigned,
                                    query
  <2>3. /\ Expected(at)' = Expected(at) /\ UNCHANGED There
    BY <2>1, SameExpected, SameReads
  <2>4. at = "notify" /\ ~fault => CompleteStatus(status)'
    BY <1>0, <1>1, <1>7, <2>1, <2>2, SessionKeeps DEF Undisturbed
  <2>5. ~fault => Undisturbed(at, connected, status)'
    BY <1>1, <2>1, <2>2, <2>3, <2>4 DEF Undisturbed
  <2> QED BY <1>0, <1>1, <1>7, <2>1, <2>2, <2>5, SessionKeeps
<1>8. CASE UNCHANGED vars
  <2>1. UNCHANGED <<node, mUsbDataEnabled, mDataRole, mWarningSet, notifying,
                    assigning, mLock, pc, at, connected, status, told,
                    uevents, fault, faultTold>>
    BY <1>8 DEF vars, query, monitor
  <2>2. CompleteStatus(told)' <=> CompleteStatus(told)
    BY <2>1, SameJudgement
  <2>3. Undisturbed(at, connected, status)'
          <=> Undisturbed(at, connected, status)
    BY <2>1, SameJudgement
  <2> QED BY <1>1, <1>2, <2>1, <2>2, <2>3
<1> QED BY <1>3, <1>4, <1>5, <1>6, <1>7, <1>8, QueryCases DEF Next

LEMMA FaultType ==
    ASSUME fault \in BOOLEAN, faultTold \in BOOLEAN, [Next]_vars
    PROVE  fault' \in BOOLEAN /\ faultTold' \in BOOLEAN
<1>1. ASSUME NEW t \in Threads, Query(t)
      PROVE  fault' \in BOOLEAN /\ faultTold' \in BOOLEAN
  BY <1>1 DEF Query, BeginQuery, EndQuery, ListPorts, Read, Step, Skip,
     GiveUp, ReadPowerRole, ReadDataRole, ReadAccessory, ReadMode,
     ReadCanChange, ReadPogo, ReadDataEnabled, ReadPowerBrick,
     QueryMoistureDetectionStatus, QueryPowerTransferStatus,
     QueryNonCompliantChargerStatus, QueryUsbDataSession
<1>2. CASE Drivers
  BY <1>2, DriverFrame
<1> QED BY <1>1, <1>2 DEF Next, TakeUevent, Request, NewSession,
           ChangeWarnings, Assigned, Crash, vars, query

RefWarnings ==
    ReasonWarnings \cup IF RoleRead = mDataRole THEN mWarningSet ELSE {}

(* Read completely at one time, a status is the reference.                 *)
LEMMA CompleteIsReference ==
    ASSUME NodeOK PROVE Reference = Complete(RefWarnings)
<1>1. DataRead = IF ~node.pogo /\ mUsbDataEnabled THEN {"ENABLED"}
                 ELSE {x \in {"DISABLED_DOCK", "DISABLED_FORCE"} :
                         IF x = "DISABLED_DOCK" THEN node.pogo
                         ELSE ~mUsbDataEnabled}
  BY DEF DataRead, PogoRead, NodeOK
<1>2. (There /\ node.power # "source") <=> (There /\ node.power = "sink")
  BY DEF NodeOK, PowerRoles
<1>3. CASE Solo
  <2>1. ~node.partner.there /\ ReasonWarnings # {}
    BY <1>3 DEF Solo, There
  <2>2. Complete(RefWarnings)
          = Filled("sink", "none", "UFP", Pd, Pd, DataRead, "CONNECTED",
                   Detection, node.limit, RefWarnings)
    BY <1>3 DEF Complete
  <2> QED BY <1>1, <2>1, <2>2 DEF Filled, Reference, Pd, RefWarnings,
                                  RoleRead, There, Detection
<1>4. CASE ~Solo
  <2>1. ~(~node.partner.there /\ ReasonWarnings # {})
    BY <1>4 DEF Solo, There
  <2>2. Complete(RefWarnings)
          = Filled(PowerRead, RoleRead, ModeRead, Pd, Pd, DataRead, BrickRead,
                   Detection, node.limit, RefWarnings)
    BY <1>4 DEF Complete
  <2> QED BY <1>1, <1>2, <2>1, <2>2 DEF Filled, Reference, Pd, RefWarnings,
               PowerRead, RoleRead, ModeRead, BrickRead, There, Detection
<1> QED BY <1>3, <1>4

LEMMA CompleteWarnings ==
    ASSUME NEW v, NEW ws, NEW s, s = Complete(v)
    PROVE  [s EXCEPT !.warnings = ws] = Complete(ws) /\ s.warnings = v
<1>1. CASE Solo
  BY <1>1 DEF Complete, Filled
<1>2. CASE ~Solo
  BY <1>2 DEF Complete, Filled
<1> QED BY <1>1, <1>2

(* Once no uevent is left, no thread queries or waits for mLock and the    *)
(* monitor has called back, the status the framework was told last is the  *)
(* one of the nodes, however the queries of the three threads overlapped   *)
(* with the changes, unless a read of the last query failed; only warnings *)
(* of a session that is over may be too many.                              *)
THEOREM StatusCurrent == Spec => []StatusIsCurrent
<1>1. Init => StatusInv
  <2> SUFFICES ASSUME Init PROVE StatusInv
    OBVIOUS
  <2>1. NodeOK
    <3>1. /\ NoPartner \in [accessory : Accessories, pd : BOOLEAN,
                            there : BOOLEAN]
          /\ ~NoPartner.pd
      BY DEF NoPartner, Accessories
    <3>2. ASSUME NEW p \in Partners
          PROVE  /\ Attached(p) \in [accessory : Accessories, pd : BOOLEAN,
                                     there : BOOLEAN]
                 /\ Attached(p).there
      BY PortStatusAssumption DEF Attached, Accessories
    <3>3. /\ node \in [partner : {NoPartner} \cup {Attached(p) : p \in Partners},
                       power : {"sink"}, data : {"device"},
                       usb_type : {"other"}, pogo : {FALSE},
                       detected : {FALSE}, reasons : {{}}, enabled : {TRUE},
                       limit : {FALSE}]
          /\ mUsbDataEnabled = TRUE
      BY DEF Init
    <3>4. "other" \in Values.usb_type /\ {} \in Values.reasons
      BY DEF Values
    <3>5. /\ node.partner \in [accessory : Accessories, pd : BOOLEAN,
                               there : BOOLEAN]
          /\ node.partner.pd => node.partner.there
      BY <3>1, <3>2, <3>3
    <3> QED BY <3>3, <3>4, <3>5 DEF NodeOK, PowerRoles, DataRoles
  <2>2. MonitorOK
    BY DEF Init, Source!Init, MonitorOK, Threads
  <2>3. LockOK
    BY DEF Init, LockOK, Threads, Free
  <2>4. QueryToCome
    BY DEF Init, QueryToCome, Threads
  <2>5. fault \in BOOLEAN /\ faultTold \in BOOLEAN
    BY DEF Init
  <2> QED BY <2>1, <2>2, <2>3, <2>4, <2>5 DEF StatusInv
<1>2. StatusInv /\ [Next]_vars => StatusInv'
  <2> SUFFICES ASSUME StatusInv, [Next]_vars PROVE StatusInv'
    OBVIOUS
  <2>1. NodeOK' /\ MonitorOK' /\ LockOK'
    BY NodeStep, MonitorStep, LockStep DEF StatusInv
  <2>2. fault' \in BOOLEAN /\ faultTold' \in BOOLEAN
    BY FaultType DEF StatusInv
  <2> QED BY <2>1, <2>2, StatusStep DEF StatusInv
<1>3. StatusInv => StatusIsCurrent
  <2> SUFFICES ASSUME StatusInv, Quiet, ~faultTold
               PROVE  \/ told = Reference
                      \/ /\ mWarningSet = {}
                         /\ told = [Reference EXCEPT !.warnings =
                              @ \cup (told.warnings \cap DataWarning)]
    BY DEF StatusIsCurrent
  <2>1. ~QueryToCome /\ mLock = Free
    BY DEF StatusInv, LockOK, Quiet, QueryToCome
  <2>2. CompleteStatus(told) /\ WarningsRead(told.warnings)
    BY <2>1 DEF StatusInv, CompleteStatus, Quiet
  <2>3. told = Complete(told.warnings)
    BY <2>2 DEF CompleteStatus
  <2>4. Reference = Complete(RefWarnings)
    BY CompleteIsReference DEF StatusInv
  <2>5. CASE told.warnings = RefWarnings
    BY <2>3, <2>4, <2>5
  <2>6. CASE /\ mWarningSet = {}
             /\ told.warnings
                  = ReasonWarnings \cup (told.warnings \cap DataWarning)
    <3>1. RefWarnings = ReasonWarnings
      BY <2>6 DEF RefWarnings
    <3>2. Reference.warnings = ReasonWarnings
      BY <2>4, <3>1, CompleteWarnings
    <3>3. [Reference EXCEPT !.warnings = told.warnings] = told
      BY <2>3, <2>4, CompleteWarnings
    <3> QED BY <2>6, <3>2, <3>3
  <2> QED BY <2>2, <2>5, <2>6 DEF WarningsRead, RefWarnings
<1> QED BY <1>1, <1>2, <1>3, PTL DEF Spec
=============================================================================
