--------------------------- MODULE MonitorProofs ---------------------------
(***************************************************************************)
(* Proofs about UsbDataSessionMonitor for every threshold and every number *)
(* of events: no warning is early, the warnings are current after the      *)
(* delay, every session is reported once, and the monitor is the           *)
(* WarningSource that the USB HAL relies on.                               *)
(***************************************************************************)
EXTENDS UsbDataSessionMonitor, TLAPS

(* The part of the types that the steps depend on.                         *)
ControlOK ==
    /\ pc \in {"wait", "usleep", "notify", "pulldown"}
    /\ mDataRole \in Roles /\ role \in Roles
    /\ mUdcBind \in BOOLEAN /\ aged \in BOOLEAN

(* How often the session was reported follows from the role, the binding   *)
(* and the place in updateUdcBindStatus(), and is never more than due.     *)
SessionInv ==
    /\ mDataRole = "none" => session = NoReports
    /\ mDataRole = "host" => session = [due |-> 1, made |-> 0]
    /\ mDataRole = "device" /\ mUdcBind
         => session = [due |-> 1, made |-> IF pc = "pulldown" THEN 1 ELSE 0]
    /\ mDataRole = "device" /\ ~mUdcBind
         => session \in {NoReports, [due |-> 1, made |-> 1]}
    /\ pc = "pulldown" => mDataRole = "device" /\ mUdcBind
    /\ ended \in {NoReports, [due |-> 1, made |-> 1]}

(* evaluateComplianceWarning() finds nothing before the delay is over.     *)
LEMMA EvaluateEarly ==
    ASSUME NEW r, NEW bind, NEW ss PROVE Evaluate(r, bind, FALSE, ss) = {}
  BY DEF Evaluate

(* evaluateComplianceWarning() finds only warnings that the role allows.   *)
LEMMA EvaluatePossible ==
    ASSUME NEW r \in Roles, NEW bind, NEW old, NEW ss
    PROVE  Evaluate(r, bind, old, ss) \in SUBSET RoleWarnings(r)
  BY DEF Evaluate, DeviceWarnings, HostWarnings, RoleWarnings, Warnings, Roles

(* The initial state, whatever mDataRole holds.                            *)
LEMMA InitControl ==
    Init => ControlOK /\ NoEarlyWarning
  BY ConstantsAssumption
     DEF Init, ControlOK, NoEarlyWarning, UdcNotEmpty

(* The steps of the kernel and of the clock leave the monitor alone.       *)
LEMMA KernelStep ==
    ASSUME ControlOK, Kernel \/ FinishUnbind \/ PassDelay \/ ExpireTimer
    PROVE  UNCHANGED <<pc, memory>> /\ role' \in Roles
             /\ aged' \in {aged, TRUE}
<1>1. CASE Kernel
  <2>1. ASSUME NEW r \in Roles, ChangeRole(r)
        PROVE  UNCHANGED <<pc, memory, aged>> /\ role' \in Roles
    BY <2>1 DEF ChangeRole, clock
  <2>2. ASSUME NEW d \in Devices, NEW s \in ValidStates, ChangeState(d, s)
        PROVE  UNCHANGED <<pc, memory, aged, role>>
    BY <2>2 DEF ChangeState, clock
  <2>3. ASSUME NEW h \in Hosts, HostPort(h)
        PROVE  UNCHANGED <<pc, memory, aged, role>>
    BY <2>3 DEF HostPort, clock
  <2>4. CASE BindUdc
    BY <2>4 DEF BindUdc, clock, ControlOK
  <2> QED BY <1>1, <2>1, <2>2, <2>3, <2>4 DEF Kernel, ControlOK
<1>2. CASE FinishUnbind
  BY <1>2 DEF FinishUnbind, clock, ControlOK
<1>3. CASE PassDelay
  BY <1>3 DEF PassDelay, kernel, ControlOK
<1>4. CASE ExpireTimer
  BY <1>4 DEF ExpireTimer, kernel, ControlOK
<1> QED BY <1>1, <1>2, <1>3, <1>4

(* Every step keeps the types.                                             *)
LEMMA ControlStep == ControlOK /\ [Next]_vars => ControlOK'
<1> SUFFICES ASSUME ControlOK, [Next]_vars PROVE ControlOK'
  OBVIOUS
<1> USE DEF ControlOK
<1>1. ASSUME NEW d \in Devices, HandleDeviceState(d) PROVE ControlOK'
  BY <1>1 DEF HandleDeviceState, SetWarnings, clock, kernel
<1>2. CASE HandleTimer
  BY <1>2 DEF HandleTimer, SetWarnings, clock, kernel
<1>3. CASE HandleDataRole
  BY <1>3 DEF HandleDataRole, SetupNewSession, clock, kernel
<1>4. ASSUME NEW h \in Hosts, HandleHostBind(h) \/ HandleHostUnbind(h)
      PROVE  ControlOK'
  BY <1>4 DEF HandleHostBind, HandleHostUnbind, clock, kernel
<1>5. CASE HandleUdcChange
  BY <1>5 DEF HandleUdcChange, memory, clock, kernel
<1>6. CASE UpdateUdcBindStatus
  BY <1>6 DEF UpdateUdcBindStatus, NewUdcBind, SetWarnings, SetupNewSession,
              clock, kernel
<1>7. CASE NotifyComplianceWarning
  BY <1>7 DEF NotifyComplianceWarning, clock, kernel
<1>8. CASE Kernel \/ FinishUnbind \/ PassDelay \/ ExpireTimer
  BY <1>8, KernelStep DEF memory
<1>9. CASE UNCHANGED vars
  BY <1>9 DEF vars, memory, clock, kernel
<1> QED BY <1>1, <1>2, <1>3, <1>4, <1>5, <1>6, <1>7, <1>8, <1>9
        DEF Next, Handle

(* Every step keeps warnings from being early.                             *)
LEMMA EarlyStep ==
    ControlOK /\ NoEarlyWarning /\ [Next]_vars => NoEarlyWarning'
<1> SUFFICES ASSUME ControlOK, NoEarlyWarning, [Next]_vars
             PROVE  NoEarlyWarning'
  OBVIOUS
<1>0. ASSUME NEW r, NEW b, NEW ss, mWarningSet' = Evaluate(r, b, aged, ss),
             aged' = aged
      PROVE  NoEarlyWarning'
  BY <1>0, EvaluateEarly DEF NoEarlyWarning, ControlOK
<1>1. ASSUME NEW d \in Devices, HandleDeviceState(d) PROVE NoEarlyWarning'
  <2>1. CASE Watched(d)
    BY <1>1, <2>1, <1>0 DEF HandleDeviceState, SetWarnings, clock
  <2>2. CASE ~Watched(d)
    BY <1>1, <2>2 DEF HandleDeviceState, clock, NoEarlyWarning
  <2> QED BY <2>1, <2>2
<1>2. CASE HandleTimer
  BY <1>2, <1>0 DEF HandleTimer, TimerWarnings, SetWarnings, clock
<1>3. CASE HandleDataRole
  BY <1>3 DEF HandleDataRole, SetupNewSession, clock, NoEarlyWarning
<1>4. ASSUME NEW h \in Hosts, HandleHostBind(h) \/ HandleHostUnbind(h)
      PROVE  NoEarlyWarning'
  BY <1>4 DEF HandleHostBind, HandleHostUnbind, clock, NoEarlyWarning
<1>5. CASE HandleUdcChange
  BY <1>5 DEF HandleUdcChange, memory, clock, NoEarlyWarning
<1>6. CASE UpdateUdcBindStatus
  <2>1. CASE UNCHANGED <<mWarningSet, clock>>
    BY <2>1 DEF clock, NoEarlyWarning
  <2>2. CASE SetWarnings(Evaluate(mDataRole, mUdcBind, aged, states),
                         "pulldown") /\ UNCHANGED clock
    BY <2>2, <1>0 DEF SetWarnings, clock
  <2>3. CASE SetupNewSession(mDataRole, TRUE, session)
    BY <2>3 DEF SetupNewSession, NoEarlyWarning
  <2> QED BY <1>6, <2>1, <2>2, <2>3 DEF UpdateUdcBindStatus
<1>7. CASE NotifyComplianceWarning
  BY <1>7 DEF NotifyComplianceWarning, clock, NoEarlyWarning
<1>8. CASE Kernel \/ FinishUnbind \/ PassDelay \/ ExpireTimer
  BY <1>8, KernelStep DEF memory, NoEarlyWarning
<1>9. CASE UNCHANGED vars
  BY <1>9 DEF vars, memory, clock, NoEarlyWarning
<1> QED BY <1>1, <1>2, <1>3, <1>4, <1>5, <1>6, <1>7, <1>8, <1>9
        DEF Next, Handle

(* No warning surfaces in the first WARNING_SURFACE_DELAY_SEC of a session,*)
(* for every threshold and every sequence of events.                       *)
THEOREM WarningsNotEarly == Spec => []NoEarlyWarning
<1>1. Init => ControlOK /\ NoEarlyWarning
  BY InitControl
<1>2. ControlOK /\ NoEarlyWarning /\ [Next]_vars
        => (ControlOK /\ NoEarlyWarning)'
  BY ControlStep, EarlyStep
<1> QED BY <1>1, <1>2, PTL DEF Spec

(* Without garbage in mDataRole the first session is none.                 *)
LEMMA InitSession ==
    InitialRoles \subseteq {"none"} /\ Init => SessionInv
  BY DEF Init, SessionInv, NoReports

(* setupNewSession() starts the account of a session.                      *)
LEMMA NewSessionAccount ==
    ASSUME NEW r \in Roles, NEW bound \in BOOLEAN,
           NEW last \in {NoReports, [due |-> 1, made |-> 1]},
           SetupNewSession(r, bound, last), mDataRole' = r, mUdcBind' = bound,
           pc' = "wait"
    PROVE  SessionInv'
<1>1. ended' = last
  BY DEF SetupNewSession
<1>2. session' = IF r = "host" \/ (r = "device" /\ bound)
                 THEN [due |-> 1, made |-> 0] ELSE NoReports
  BY DEF SetupNewSession, NoReports
<1> QED BY <1>1, <1>2 DEF SessionInv, NoReports, Roles

(* Every step keeps the account.                                           *)
LEMMA SessionStep == ControlOK /\ SessionInv /\ [Next]_vars => SessionInv'
<1> SUFFICES ASSUME ControlOK, SessionInv, [Next]_vars PROVE SessionInv'
  OBVIOUS
<1>0. ASSUME UNCHANGED <<mDataRole, mUdcBind, session, ended>>,
             pc # "pulldown", pc' # "pulldown"
      PROVE  SessionInv'
  BY <1>0 DEF SessionInv
<1>1. ASSUME NEW d \in Devices, HandleDeviceState(d) PROVE SessionInv'
  BY <1>1, <1>0 DEF HandleDeviceState, Handles, SetWarnings, reports
<1>2. CASE HandleTimer
  BY <1>2, <1>0 DEF HandleTimer, Handles, SetWarnings, reports
<1>3. CASE HandleDataRole
  <2>1. CASE role = mDataRole
    BY <1>3, <2>1, <1>0 DEF HandleDataRole, Handles, reports
  <2>2. CASE role # mDataRole
    <3> DEFINE last == IF ReportsAtRoleChange THEN Reported ELSE session
    <3>1. last \in {NoReports, [due |-> 1, made |-> 1]}
      BY <1>3 DEF HandleDataRole, Handles, ReportsAtRoleChange, Reported,
                  SessionInv, NoReports, ControlOK, Roles
    <3>2. /\ SetupNewSession(role, mUdcBind, last) /\ mDataRole' = role
          /\ mUdcBind' = mUdcBind /\ pc' = "wait"
      BY <1>3, <2>2 DEF HandleDataRole, Handles
    <3> QED BY <3>1, <3>2, NewSessionAccount DEF ControlOK
  <2> QED BY <2>1, <2>2
<1>4. ASSUME NEW h \in Hosts, HandleHostBind(h) \/ HandleHostUnbind(h)
      PROVE  SessionInv'
  BY <1>4, <1>0 DEF HandleHostBind, HandleHostUnbind, TakeUevent, Handles,
                    reports
<1>5. CASE HandleUdcChange
  BY <1>5, <1>0 DEF HandleUdcChange, TakeUevent, Handles, memory, reports
<1>6. CASE UpdateUdcBindStatus
  <2>1. CASE mDataRole # "device" \/ NewUdcBind = mUdcBind
    <3>1. /\ UNCHANGED <<mDataRole, session, ended>>
          /\ pc = "usleep" /\ pc' = "wait" /\ mUdcBind' = NewUdcBind
      BY <1>6, <2>1 DEF UpdateUdcBindStatus, reports, ControlOK, NewUdcBind
    <3> QED BY <2>1, <3>1 DEF SessionInv
  <2>2. CASE mDataRole = "device" /\ mUdcBind /\ ~NewUdcBind
    <3>1. /\ session' = Reported /\ UNCHANGED <<mDataRole, ended>>
          /\ pc = "usleep" /\ pc' \in {"wait", "pulldown"}
          /\ mUdcBind' = (pc' = "pulldown")
      BY <1>6, <2>2 DEF UpdateUdcBindStatus, SetWarnings
    <3>2. session' = [due |-> 1, made |-> 1]
      BY <2>2, <3>1 DEF Reported, SessionInv
    <3> QED BY <2>2, <3>1, <3>2 DEF SessionInv
  <2>3. CASE mDataRole = "device" /\ ~mUdcBind /\ NewUdcBind
    <3>1. /\ SetupNewSession("device", TRUE, session) /\ mDataRole' = "device"
          /\ mUdcBind' = TRUE /\ pc' = "wait"
      BY <1>6, <2>3 DEF UpdateUdcBindStatus, NewUdcBind
    <3>2. session \in {NoReports, [due |-> 1, made |-> 1]}
      BY <2>3 DEF SessionInv
    <3> QED BY <3>1, <3>2, NewSessionAccount DEF Roles
  <2> QED BY <2>1, <2>2, <2>3 DEF ControlOK, NewUdcBind
<1>7. CASE NotifyComplianceWarning
  <2>1. /\ UNCHANGED <<mDataRole, session, ended>> /\ pc' = "wait"
        /\ mUdcBind' = (mUdcBind /\ pc # "pulldown")
    BY <1>7 DEF NotifyComplianceWarning, reports
  <2> QED BY <2>1 DEF SessionInv, ControlOK
<1>8. CASE Kernel \/ FinishUnbind \/ PassDelay \/ ExpireTimer
  <2>1. UNCHANGED <<pc, mDataRole, mUdcBind, session, ended>>
    BY <1>8, KernelStep DEF memory, reports
  <2> QED BY <2>1 DEF SessionInv
<1>9. CASE UNCHANGED vars
  BY <1>9 DEF vars, memory, reports, SessionInv
<1> QED BY <1>1, <1>2, <1>3, <1>4, <1>5, <1>6, <1>7, <1>8, <1>9
        DEF Next, Handle

(* Each session of a host port or a bound gadget is reported exactly once, *)
(* in every order of role changes, pulldowns and pullups; all that is      *)
(* assumed is that mDataRole, which nothing initialises, starts as NONE.   *)
THEOREM SessionsReportedOnce ==
    InitialRoles \subseteq {"none"} => (Spec => []ReportedOncePerSession)
<1> SUFFICES ASSUME InitialRoles \subseteq {"none"}
             PROVE  Spec => []ReportedOncePerSession
  OBVIOUS
<1>1. Init => ControlOK /\ SessionInv
  BY InitControl, InitSession
<1>2. ControlOK /\ SessionInv /\ [Next]_vars => (ControlOK /\ SessionInv)'
  BY ControlStep, SessionStep
<1>3. ControlOK /\ SessionInv => ReportedOncePerSession
  BY DEF ControlOK, SessionInv, ReportedOncePerSession, NoReports, Roles
<1> QED BY <1>1, <1>2, <1>3, PTL DEF Spec

-----------------------------------------------------------------------------
(* The binding of the gadget.                                              *)

(* An unbind that goes on has a change to be handled, is being looked at   *)
(* or was misread; and unless one of these holds mUdcBind is right, where  *)
(* a pulldown has not assigned it yet.                                     *)
BindInv ==
    /\ uevents \in Seq(Uevents)
    /\ udc \in {"bound", "unbinding", "unbound"}
    /\ ~ChangePending /\ pc # "usleep" /\ ~misread => udc # "unbinding"
    /\ ~ChangePending /\ pc \in {"wait", "notify"} /\ ~misread
         => mUdcBind = (udc = "bound")
    /\ ~ChangePending /\ pc = "pulldown" => udc = "unbound"

(* A message that is taken, not being a change, leaves those behind it.    *)
LEMMA TakeOther ==
    ASSUME uevents \in Seq(Uevents), NEW m \in Uevents, NEW rest,
           m # <<"change", "udc">>, TakeUevent(m, rest)
    PROVE  /\ uevents' \in Seq(Uevents)
           /\ ChangePending => ChangePending'
<1>1. uevents # <<>> /\ Head(uevents) = m /\ uevents' = Tail(uevents)
  BY DEF TakeUevent
<1>2. uevents' \in Seq(Uevents) /\ Len(uevents') = Len(uevents) - 1
  BY <1>1
<1>3. ASSUME NEW i \in DOMAIN uevents, uevents[i] = <<"change", "udc">>
      PROVE  ChangePending'
  <2>1. i \in 1..Len(uevents) /\ i # 1
    BY <1>1, <1>3
  <2>2. i - 1 \in DOMAIN uevents' /\ uevents'[i - 1] = uevents[i]
    BY <1>1, <1>2, <2>1
  <2> QED BY <1>3, <2>2 DEF ChangePending
<1> QED BY <1>2, <1>3 DEF ChangePending

(* A message that is sent leaves those before it, and is pending.          *)
LEMMA SendMessage ==
    ASSUME uevents \in Seq(Uevents), NEW m \in Uevents,
           uevents' = Append(uevents, m)
    PROVE  /\ uevents' \in Seq(Uevents)
           /\ ChangePending => ChangePending'
           /\ m = <<"change", "udc">> => ChangePending'
<1>1. /\ uevents' \in Seq(Uevents) /\ Len(uevents') = Len(uevents) + 1
      /\ uevents'[Len(uevents) + 1] = m
      /\ \A i \in 1..Len(uevents) : uevents'[i] = uevents[i]
  OBVIOUS
<1>2. DOMAIN uevents = 1..Len(uevents) /\ DOMAIN uevents' = 1..Len(uevents')
  BY <1>1
<1>3. Len(uevents) + 1 \in DOMAIN uevents'
  BY <1>1, <1>2
<1>4. DOMAIN uevents \subseteq DOMAIN uevents'
  BY <1>1, <1>2
<1> QED BY <1>1, <1>2, <1>3, <1>4 DEF ChangePending

LEMMA InitBind == Init => BindInv
<1> SUFFICES ASSUME Init PROVE BindInv
  OBVIOUS
<1>1. pc = "wait" /\ uevents = <<>> /\ udc \in {"bound", "unbound"}
  BY DEF Init
<1>2. ~misread => mUdcBind = (udc = "bound")
  BY <1>1 DEF Init, UdcNotEmpty
<1> QED BY <1>1, <1>2 DEF BindInv

LEMMA BindStep == ControlOK /\ BindInv /\ [Next]_vars => BindInv'
<1> SUFFICES ASSUME ControlOK, BindInv, [Next]_vars PROVE BindInv'
  OBVIOUS
<1>k. ASSUME UNCHANGED <<udc, misread, mUdcBind>>,
             uevents' \in Seq(Uevents), ChangePending => ChangePending',
             \/ pc \in {"wait", "notify"} /\ pc' \in {"wait", "notify"}
             \/ pc' = pc
      PROVE  BindInv'
  BY <1>k DEF BindInv
<1>u. ASSUME uevents' = uevents
      PROVE  /\ ChangePending' <=> ChangePending
             /\ uevents' \in Seq(Uevents)
  BY <1>u DEF ChangePending, BindInv
<1>1. ASSUME NEW d \in Devices, HandleDeviceState(d) PROVE BindInv'
  <2>1. /\ UNCHANGED <<udc, misread, mUdcBind, uevents>>
        /\ pc = "wait" /\ pc' \in {"wait", "notify"}
    BY <1>1 DEF HandleDeviceState, Handles, SetWarnings, kernel
  <2> QED BY <2>1, <1>k, <1>u
<1>2. CASE HandleTimer
  <2>1. /\ UNCHANGED <<udc, misread, mUdcBind, uevents>>
        /\ pc = "wait" /\ pc' \in {"wait", "notify"}
    BY <1>2 DEF HandleTimer, Handles, SetWarnings, kernel
  <2> QED BY <2>1, <1>k, <1>u
<1>3. CASE HandleDataRole
  <2>1. UNCHANGED <<udc, misread, mUdcBind, uevents, pc>>
    BY <1>3 DEF HandleDataRole, kernel
  <2> QED BY <2>1, <1>k, <1>u
<1>4. ASSUME NEW h \in Hosts, HandleHostBind(h) \/ HandleHostUnbind(h)
      PROVE  BindInv'
  <2>1. UNCHANGED <<udc, misread, mUdcBind, pc>>
    BY <1>4 DEF HandleHostBind, HandleHostUnbind, kernel
  <2>2. PICK m, rest :
               m \in {"bind", "unbind"} /\ TakeUevent(<<m, h>>, rest)
    BY <1>4 DEF HandleHostBind, HandleHostUnbind
  <2>3. <<m, h>> \in Uevents /\ <<m, h>> # <<"change", "udc">>
    BY <2>2 DEF Uevents, Hosts
  <2> QED BY <2>1, <2>2, <2>3, <1>k, TakeOther DEF BindInv
<1>5. CASE HandleUdcChange
  <2>1. /\ UNCHANGED <<udc, misread>> /\ pc' = "usleep"
        /\ uevents # <<>> /\ uevents' = Tail(uevents)
    BY <1>5 DEF HandleUdcChange, TakeUevent, memory, kernel
  <2> QED BY <2>1 DEF BindInv
<1>6. CASE UpdateUdcBindStatus
  <2>1. /\ pc = "usleep" /\ misread' = (udc = "unbinding")
        /\ UNCHANGED <<uevents, udc>>
    BY <1>6 DEF UpdateUdcBindStatus, kernel
  <2>2. CASE pc' = "pulldown"
    <3>1. ~NewUdcBind
      BY <1>6, <2>2 DEF UpdateUdcBindStatus, SetWarnings
    <3> QED BY <2>1, <2>2, <3>1, <1>u DEF BindInv, NewUdcBind
  <2>3. CASE pc' # "pulldown"
    <3>1. pc' = "wait" /\ mUdcBind' = NewUdcBind
      BY <1>6, <2>3 DEF UpdateUdcBindStatus, SetWarnings, NewUdcBind
    <3> QED BY <2>1, <3>1, <1>u DEF BindInv, NewUdcBind
  <2> QED BY <2>2, <2>3
<1>7. CASE NotifyComplianceWarning
  <2>1. /\ UNCHANGED <<udc, misread, uevents>>
        /\ pc \in {"notify", "pulldown"} /\ pc' = "wait"
        /\ mUdcBind' = (mUdcBind /\ pc # "pulldown")
    BY <1>7 DEF NotifyComplianceWarning, kernel
  <2>2. CASE pc = "notify"
    <3>1. mUdcBind' = mUdcBind
      BY <2>1, <2>2 DEF ControlOK
    <3> QED BY <2>1, <2>2, <3>1, <1>k, <1>u
  <2>3. CASE pc = "pulldown"
    <3>1. mUdcBind' = FALSE
      BY <2>1, <2>3
    <3> QED BY <2>1, <2>3, <3>1, <1>u DEF BindInv
  <2> QED BY <2>1, <2>2, <2>3
<1>8. CASE Kernel
  <2>0. UNCHANGED <<pc, mUdcBind, misread>>
    BY <1>8, KernelStep DEF memory
  <2>1. ASSUME NEW r \in Roles, ChangeRole(r) PROVE BindInv'
    BY <2>0, <2>1, <1>k, <1>u DEF ChangeRole
  <2>2. ASSUME NEW d \in Devices, NEW s \in ValidStates, ChangeState(d, s)
        PROVE  BindInv'
    BY <2>0, <2>2, <1>k, <1>u DEF ChangeState
  <2>3. ASSUME NEW h \in Hosts, HostPort(h) PROVE BindInv'
    <3>1. /\ udc' = udc
          /\ \E m \in {"bind", "unbind"} : uevents' = Append(uevents, <<m, h>>)
      BY <2>3 DEF HostPort
    <3>2. \A m \in {"bind", "unbind"} : <<m, h>> \in Uevents
      BY DEF Uevents
    <3> QED BY <2>0, <3>1, <3>2, <1>k, SendMessage DEF BindInv
  <2>4. CASE BindUdc
    <3>1. /\ uevents' = Append(uevents, <<"change", "udc">>)
          /\ udc' \in {"bound", "unbinding"}
      BY <2>4 DEF BindUdc
    <3>2. <<"change", "udc">> \in Uevents
      BY DEF Uevents
    <3> QED BY <3>1, <3>2, SendMessage DEF BindInv
  <2> QED BY <1>8, <2>1, <2>2, <2>3, <2>4 DEF Kernel
<1>9. CASE FinishUnbind
  <2>1. UNCHANGED <<pc, mUdcBind, misread, uevents>>
    BY <1>9 DEF FinishUnbind, memory
  <2>2. udc = "unbinding" /\ udc' = "unbound"
    BY <1>9 DEF FinishUnbind
  <2> QED BY <2>1, <2>2, <1>u DEF BindInv
<1>10. CASE PassDelay \/ ExpireTimer
  <2>1. UNCHANGED <<pc, mUdcBind, misread, uevents, udc>>
    BY <1>10 DEF PassDelay, ExpireTimer, memory, kernel
  <2> QED BY <2>1, <1>k, <1>u
<1>11. CASE UNCHANGED vars
  <2>1. UNCHANGED <<pc, mUdcBind, misread, uevents, udc>>
    BY <1>11 DEF vars, memory, kernel
  <2> QED BY <2>1, <1>k, <1>u
<1> QED BY <1>1, <1>2, <1>3, <1>4, <1>5, <1>6, <1>7, <1>8, <1>9, <1>10,
           <1>11 DEF Next, Handle

(* mUdcBind says whether the gadget is bound, whenever no change is under  *)
(* way or unhandled and none was misread: binds and unbinds that follow    *)
(* each other while the monitor sleeps or calls back are not mixed up.     *)
THEOREM BindingIsCurrent == Spec => []UdcBindCurrent
<1>1. Init => ControlOK /\ BindInv
  BY InitControl, InitBind
<1>2. ControlOK /\ BindInv /\ [Next]_vars => (ControlOK /\ BindInv)'
  BY ControlStep, BindStep
<1>3. BindInv => UdcBindCurrent
  BY DEF BindInv, UdcBindCurrent
<1> QED BY <1>1, <1>2, <1>3, PTL DEF Spec

-----------------------------------------------------------------------------
(* The refinement of WarningSource.                                        *)

Notifying == pc \in {"notify", "pulldown"}

(* The initial state is one of WarningSource.                              *)
LEMMA SourceInit == Init => WS!Init
  BY InitControl DEF Init, WS!Init, ControlOK

(* Every step is one of WarningSource or leaves its variables alone.       *)
LEMMA SourceStep == ControlOK /\ [Next]_vars => [WS!Next]_(WS!vars)
<1> SUFFICES ASSUME ControlOK, [Next]_vars PROVE [WS!Next]_(WS!vars)
  OBVIOUS
<1>s. ASSUME UNCHANGED <<mDataRole, mWarningSet>>, Notifying' = Notifying
      PROVE  UNCHANGED WS!vars
  BY <1>s DEF WS!vars, Notifying
<1>n. ASSUME NEW r \in Roles, ~Notifying, ~Notifying',
             r # mDataRole \/ r = "device", mDataRole' = r, mWarningSet' = {}
      PROVE  WS!Next
  BY <1>n DEF WS!Next, WS!NewSession, Notifying
<1>c. ASSUME NEW b, NEW ss, NEW l \in {"notify", "pulldown"}, ~Notifying,
             SetWarnings(Evaluate(mDataRole, b, aged, ss), l),
             mDataRole' = mDataRole
      PROVE  [WS!Next]_(WS!vars)
  <2> DEFINE ws == Evaluate(mDataRole, b, aged, ss)
  <2>1. ws \in SUBSET RoleWarnings(mDataRole)
    BY EvaluatePossible DEF ControlOK
  <2>2. CASE ws # mWarningSet
    <3>1. mWarningSet' = ws /\ pc' = l
      BY <1>c, <2>2 DEF SetWarnings, Notifies
    <3>2. WS!Change(ws)
      BY <1>c, <2>2, <3>1 DEF WS!Change, Notifying
    <3> QED BY <2>1, <3>2 DEF WS!Next
  <2>3. CASE ws = mWarningSet
    <3>1. mWarningSet' = mWarningSet /\ pc' = "wait"
      BY <1>c, <2>3 DEF SetWarnings, Notifies
    <3> QED BY <1>c, <3>1, <1>s DEF Notifying
  <2> QED BY <2>2, <2>3
<1>1. ASSUME NEW d \in Devices, HandleDeviceState(d)
      PROVE  [WS!Next]_(WS!vars)
  <2>0. pc = "wait" /\ mDataRole' = mDataRole
    BY <1>1 DEF HandleDeviceState, Handles
  <2>1. CASE Watched(d)
    <3>1. SetWarnings(Evaluate(mDataRole, mUdcBind, aged, states'), "notify")
      BY <1>1, <2>1 DEF HandleDeviceState
    <3> QED BY <2>0, <3>1, <1>c DEF Notifying
  <2>2. CASE ~Watched(d)
    BY <1>1, <2>0, <2>2, <1>s DEF HandleDeviceState, Notifying
  <2> QED BY <2>1, <2>2
<1>2. CASE HandleTimer
  <2>1. /\ pc = "wait" /\ mDataRole' = mDataRole
        /\ SetWarnings(Evaluate(mDataRole, mUdcBind, aged, states), "notify")
    BY <1>2 DEF HandleTimer, Handles, TimerWarnings
  <2> QED BY <2>1, <1>c DEF Notifying
<1>3. CASE HandleDataRole
  <2>1. pc = "wait" /\ pc' = "wait"
    BY <1>3 DEF HandleDataRole, Handles
  <2>2. CASE role # mDataRole
    BY <1>3, <2>1, <2>2, <1>n
       DEF HandleDataRole, SetupNewSession, ControlOK, Notifying
  <2>3. CASE role = mDataRole
    BY <1>3, <2>1, <2>3, <1>s DEF HandleDataRole, Notifying
  <2> QED BY <2>2, <2>3
<1>4. ASSUME NEW h \in Hosts, HandleHostBind(h) \/ HandleHostUnbind(h)
      PROVE  [WS!Next]_(WS!vars)
  BY <1>4, <1>s DEF HandleHostBind, HandleHostUnbind, Notifying
<1>5. CASE HandleUdcChange
  BY <1>5, <1>s DEF HandleUdcChange, TakeUevent, Handles, memory, Notifying
<1>6. CASE UpdateUdcBindStatus
  <2>1. pc = "usleep" /\ mDataRole' = mDataRole
    BY <1>6 DEF UpdateUdcBindStatus
  <2>2. CASE mDataRole # "device" \/ NewUdcBind = mUdcBind
    <3>1. pc' = "wait" /\ mWarningSet' = mWarningSet
      BY <1>6, <2>2 DEF UpdateUdcBindStatus, ControlOK, NewUdcBind
    <3> QED BY <2>1, <3>1, <1>s DEF Notifying
  <2>3. CASE mDataRole = "device" /\ mUdcBind /\ ~NewUdcBind
    <3>1. SetWarnings(Evaluate(mDataRole, mUdcBind, aged, states), "pulldown")
      BY <1>6, <2>3 DEF UpdateUdcBindStatus
    <3> QED BY <2>1, <3>1, <1>c DEF Notifying
  <2>4. CASE mDataRole = "device" /\ ~mUdcBind /\ NewUdcBind
    <3>1. pc' = "wait" /\ mWarningSet' = {}
      BY <1>6, <2>4 DEF UpdateUdcBindStatus, SetupNewSession
    <3> QED BY <2>1, <2>4, <3>1, <1>n DEF Notifying, Roles
  <2> QED BY <2>2, <2>3, <2>4 DEF ControlOK, NewUdcBind
<1>7. CASE NotifyComplianceWarning
  BY <1>7 DEF NotifyComplianceWarning, WS!Next, WS!Notify
<1>8. CASE Kernel \/ FinishUnbind \/ PassDelay \/ ExpireTimer
  BY <1>8, KernelStep, <1>s DEF memory, Notifying
<1>9. CASE UNCHANGED vars
  BY <1>9, <1>s DEF vars, memory, Notifying
<1> QED BY <1>1, <1>2, <1>3, <1>4, <1>5, <1>6, <1>7, <1>8, <1>9
        DEF Next, Handle

(* The monitor implements WarningSource: whatever happens, a change of the *)
(* warnings by an evaluation is followed by the callback before anything   *)
(* else changes, the only change without one is the clearing of a new      *)
(* session, and no set holds a warning that the role does not allow.       *)
THEOREM MonitorIsWarningSource == Spec => WS!Spec
<1>1. Init => ControlOK
  BY InitControl
<1>2. ControlOK /\ [Next]_vars => ControlOK'
  BY ControlStep
<1> QED BY <1>1, <1>2, SourceInit, SourceStep, PTL DEF Spec, WS!Spec

-----------------------------------------------------------------------------
(* The ready files.  What is ready stays so until it is handled.           *)

Has(s, x) == \E i \in DOMAIN s : s[i] = x

LEMMA HasTail ==
    ASSUME NEW s \in Seq(Sources), s # <<>>, NEW x, Head(s) # x
    PROVE  Tail(s) \in Seq(Sources) /\ (Has(s, x) => Has(Tail(s), x))
<1>1. /\ Tail(s) \in Seq(Sources) /\ Len(Tail(s)) = Len(s) - 1
      /\ DOMAIN Tail(s) = 1..Len(Tail(s)) /\ DOMAIN s = 1..Len(s)
  OBVIOUS
<1>2. ASSUME NEW i \in DOMAIN s, s[i] = x PROVE Has(Tail(s), x)
  <2>1. i # 1
    BY <1>2
  <2>2. i - 1 \in DOMAIN Tail(s) /\ Tail(s)[i - 1] = s[i]
    BY <1>1, <2>1
  <2> QED BY <1>2, <2>2 DEF Has
<1> QED BY <1>1, <1>2 DEF Has

LEMMA HasAppend ==
    ASSUME NEW s \in Seq(Sources), NEW y \in Sources
    PROVE  /\ Append(s, y) \in Seq(Sources)
           /\ Has(Append(s, y), y)
           /\ \A x : Has(s, x) => Has(Append(s, y), x)
<1>1. /\ Append(s, y) \in Seq(Sources) /\ Len(Append(s, y)) = Len(s) + 1
      /\ DOMAIN Append(s, y) = 1..Len(s) + 1 /\ DOMAIN s = 1..Len(s)
      /\ Append(s, y)[Len(s) + 1] = y
      /\ \A i \in 1..Len(s) : Append(s, y)[i] = s[i]
  OBVIOUS
<1>2. Has(Append(s, y), y)
  BY <1>1 DEF Has
<1>3. \A x : Has(s, x) => Has(Append(s, y), x)
  BY <1>1 DEF Has
<1> QED BY <1>1, <1>2, <1>3

(* Removing a file from the list keeps the others in it.                   *)
LEMMA HasWithout ==
    ASSUME ready \in Seq(Sources), ready # <<>>, NEW h
    PROVE  /\ Without(h) \in Seq(Sources)
           /\ \A x : x # h /\ Has(Tail(ready), x) => Has(Without(h), x)
<1> DEFINE rest == Tail(ready)
           i    == CHOOSE j \in DOMAIN rest : rest[j] = h
           front == SubSeq(rest, 1, i - 1)
           back  == SubSeq(rest, i + 1, Len(rest))
<1>1. rest \in Seq(Sources)
  OBVIOUS
<1>2. CASE ~\E j \in DOMAIN rest : rest[j] = h
  BY <1>1, <1>2 DEF Without
<1>3. CASE \E j \in DOMAIN rest : rest[j] = h
  <2>1. i \in DOMAIN rest /\ rest[i] = h
    BY <1>3
  <2>2. Without(h) = front \o back
    BY <1>3 DEF Without
  <2> HIDE DEF i
  <2> HIDE DEF rest
  <2>3. i \in 1..Len(rest) /\ Len(rest) \in Nat
    BY <1>1, <2>1
  <2>4. /\ front \in Seq(Sources) /\ Len(front) = i - 1
        /\ \A j \in 1..(i - 1) : front[j] = rest[j]
    BY <1>1, <2>3
  <2>5. /\ back \in Seq(Sources) /\ Len(back) = Len(rest) - i
        /\ \A j \in 1..(Len(rest) - i) : back[j] = rest[i + j]
    BY <1>1, <2>3
  <2> HIDE DEF front, back
  <2>6. /\ front \o back \in Seq(Sources)
        /\ Len(front \o back) = Len(rest) - 1
        /\ \A j \in 1..(i - 1) : (front \o back)[j] = front[j]
        /\ \A j \in 1..(Len(rest) - i) : (front \o back)[i - 1 + j] = back[j]
    BY <2>3, <2>4, <2>5
  <2>7. ASSUME NEW x, x # h, NEW j \in DOMAIN rest, rest[j] = x
        PROVE  Has(front \o back, x)
    <3>1. j \in 1..Len(rest) /\ j # i
      BY <1>1, <2>1, <2>7
    <3>2. CASE j < i
      <4>1. j \in DOMAIN (front \o back) /\ (front \o back)[j] = x
        BY <2>3, <2>4, <2>6, <2>7, <3>1, <3>2
      <4> QED BY <4>1 DEF Has
    <3>3. CASE j > i
      <4>1. /\ j - i \in 1..(Len(rest) - i) /\ i - 1 + (j - i) = j - 1
            /\ i + (j - i) = j
        BY <2>3, <3>1, <3>3
      <4>2. j - 1 \in DOMAIN (front \o back)
        BY <2>3, <2>6, <3>1, <3>3
      <4>3. (front \o back)[j - 1] = x
        BY <2>5, <2>6, <2>7, <4>1
      <4> QED BY <4>2, <4>3 DEF Has
    <3> QED BY <2>3, <3>1, <3>2, <3>3
  <2> QED BY <2>2, <2>6, <2>7 DEF Has, rest
<1> QED BY <1>2, <1>3

LEMMA RaiseKeeps ==
    ASSUME ready \in Seq(Sources), NEW f \in Sources, Raise(f)
    PROVE  /\ ready' \in Seq(Sources) /\ Has(ready', f)
           /\ \A x : Has(ready, x) => Has(ready', x)
BY HasAppend DEF Raise, Has

(* A message is taken: the list without its head, and perhaps the socket   *)
(* again.                                                                  *)
LEMMA TakeKeeps ==
    ASSUME NEW m, NEW rest \in Seq(Sources), TakeUevent(m, rest)
    PROVE  /\ ready' \in Seq(Sources)
           /\ \A x : Has(rest, x) => Has(ready', x)
BY HasAppend DEF TakeUevent, Sources

(* An expired timer stays on the list until it is handled.                 *)
LEMMA ReadyStep ==
    ASSUME ready \in Seq(Sources), [Next]_vars
    PROVE  /\ ready' \in Seq(Sources)
           /\ Has(ready, "timer") /\ ~HandleTimer => Has(ready', "timer")
<1> DEFINE Goal == /\ ready' \in Seq(Sources)
                   /\ Has(ready, "timer") /\ ~HandleTimer
                        => Has(ready', "timer")
<1>1. ASSUME ready # <<>>, Head(ready) # "timer", ready' = Tail(ready)
      PROVE  Goal
  BY <1>1, HasTail
<1>2. ASSUME ready' = ready PROVE Goal
  BY <1>2
<1>3. ASSUME NEW d \in Devices, HandleDeviceState(d) PROVE Goal
  BY <1>1, <1>3 DEF HandleDeviceState, Handles, Devices, Hosts
<1>4. CASE HandleTimer
  BY <1>4 DEF HandleTimer, Handles
<1>5. CASE HandleDataRole
  BY <1>1, <1>5 DEF HandleDataRole, Handles
<1>6. ASSUME NEW m, NEW rest \in Seq(Sources), TakeUevent(m, rest),
             Has(Tail(ready), "timer") => Has(rest, "timer")
      PROVE  Goal
  <2>1. ready # <<>> /\ Head(ready) = "uevent"
    BY <1>6 DEF TakeUevent, Handles
  <2> QED BY <1>6, <2>1, HasTail, TakeKeeps
<1>7. ASSUME NEW h \in Hosts, HandleHostBind(h) \/ HandleHostUnbind(h)
      PROVE  Goal
  <2>1. ready # <<>> /\ h \in Sources /\ h # "timer"
    BY <1>7 DEF HandleHostBind, HandleHostUnbind, TakeUevent, Handles,
                Hosts, Sources, Devices
  <2>2. /\ Without(h) \in Seq(Sources) /\ Tail(ready) \in Seq(Sources)
        /\ Has(Tail(ready), "timer") => Has(Without(h), "timer")
    BY <2>1, HasWithout
  <2>3. /\ Append(Without(h), h) \in Seq(Sources)
        /\ Has(Without(h), "timer") => Has(Append(Without(h), h), "timer")
    BY <2>1, <2>2, HasAppend
  <2>4. PICK m, rest : /\ rest \in {Without(h), Append(Without(h), h),
                                    Tail(ready)}
                       /\ TakeUevent(m, rest)
    BY <1>7 DEF HandleHostBind, HandleHostUnbind
  <2> QED BY <1>6, <2>2, <2>3, <2>4
<1>8. CASE HandleUdcChange
  <2>1. ready # <<>>
    BY <1>8 DEF HandleUdcChange, TakeUevent, Handles
  <2>2. Tail(ready) \in Seq(Sources)
    BY <2>1
  <2> QED BY <1>6, <1>8, <2>2 DEF HandleUdcChange
<1>9. CASE UpdateUdcBindStatus \/ NotifyComplianceWarning \/ FinishUnbind
           \/ PassDelay \/ UNCHANGED vars
  BY <1>2, <1>9 DEF UpdateUdcBindStatus, NotifyComplianceWarning,
                    FinishUnbind, PassDelay, vars
<1>10. CASE Kernel \/ ExpireTimer
  <2>1. ready' = ready \/ \E f \in Sources : Raise(f)
    BY <1>10 DEF Kernel, ChangeRole, ChangeState, HostPort, BindUdc,
                 ExpireTimer, Sources
  <2> QED BY <1>2, <2>1, RaiseKeeps
<1> QED BY <1>3, <1>4, <1>5, <1>7, <1>8, <1>9, <1>10 DEF Next, Handle

-----------------------------------------------------------------------------
(* The warnings after the delay.                                           *)

(* A young session has its timer set, and the warnings are current.        *)
CurrentInv ==
    /\ ready \in Seq(Sources)
    /\ ~aged /\ mDataRole # "none" => timer = "armed"
    /\ mDataRole = "none" => mWarningSet = {}
    /\ WarningsAreCurrent

LEMMA EvaluateNone ==
    ASSUME NEW bind, NEW old, NEW ss
    PROVE  Evaluate("none", bind, old, ss) = {}
  BY DEF Evaluate

LEMMA CurrentStep ==
    ControlOK /\ CurrentInv /\ [Next]_vars => CurrentInv'
<1> SUFFICES ASSUME ControlOK, CurrentInv, [Next]_vars PROVE CurrentInv'
  OBVIOUS
<1> DEFINE Ev == Evaluate(mDataRole, mUdcBind, aged, states)
           Handled == ~Has(ready, "timer")
<1>0. /\ ready' \in Seq(Sources)
      /\ ~HandleTimer /\ Handled' => Handled
  BY ReadyStep DEF CurrentInv
<1>1. WarningsAreCurrent
        <=> (/\ aged /\ timer = "off" /\ Handled
             /\ mDataRole = "device" => mUdcBind
             => mWarningSet = Ev)
  BY DEF WarningsAreCurrent, Has
<1>2. WarningsAreCurrent'
        <=> (/\ aged' /\ timer' = "off" /\ Handled'
             /\ mDataRole' = "device" => mUdcBind'
             => mWarningSet' = Ev')
  BY DEF WarningsAreCurrent, Has
\* an evaluation
<1>3. ASSUME UNCHANGED <<mDataRole, aged, timer>>, mWarningSet' = Ev',
             mDataRole = "none" => Ev' = {}
      PROVE  CurrentInv'
  BY <1>0, <1>2, <1>3 DEF CurrentInv
\* nothing that the warnings depend on
<1>4. ASSUME UNCHANGED <<mDataRole, aged, timer, mWarningSet>>, Ev' = Ev,
             (mDataRole' = "device" => mUdcBind')
               => (mDataRole = "device" => mUdcBind),
             ~HandleTimer
      PROVE  CurrentInv'
  BY <1>0, <1>1, <1>2, <1>4 DEF CurrentInv
<1>5. ASSUME NEW r \in Roles, NEW bound, NEW last,
             SetupNewSession(r, bound, last), mDataRole' = r
      PROVE  CurrentInv'
  BY <1>0, <1>2, <1>5 DEF SetupNewSession, SessionTimer, CurrentInv
<1>6. ASSUME NEW d \in Devices, HandleDeviceState(d) PROVE CurrentInv'
  <2>1. /\ UNCHANGED <<mDataRole, mUdcBind, aged, timer>>
        /\ ~HandleTimer
    BY <1>6 DEF HandleDeviceState, HandleTimer, Handles, clock, Devices,
                Hosts
  <2>2. CASE Watched(d)
    <3>1. mWarningSet' = Evaluate(mDataRole, mUdcBind, aged, states')
      BY <1>6, <2>2 DEF HandleDeviceState, SetWarnings
    <3> QED BY <1>3, <2>1, <3>1, EvaluateNone
  <2>3. CASE ~Watched(d)
    BY <1>4, <1>6, <2>1, <2>3 DEF HandleDeviceState
  <2> QED BY <2>2, <2>3
<1>7. CASE HandleTimer
  <2>1. /\ UNCHANGED <<mDataRole, mUdcBind, aged, timer, states>>
        /\ mWarningSet' = Ev
    BY <1>7 DEF HandleTimer, SetWarnings, TimerWarnings, clock
  <2> QED BY <1>3, <2>1, EvaluateNone
<1>8. CASE HandleDataRole
  <2>1. CASE role # mDataRole
    BY <1>5, <1>8, <2>1 DEF HandleDataRole, ControlOK
  <2>2. CASE role = mDataRole
    <3>1. /\ UNCHANGED <<mDataRole, mUdcBind, aged, timer, states,
                         mWarningSet>>
          /\ ~HandleTimer
      BY <1>8, <2>2 DEF HandleDataRole, HandleTimer, Handles, clock
    <3> QED BY <1>4, <3>1
  <2> QED BY <2>1, <2>2
<1>9. CASE HandleUdcChange
           \/ \E h \in Hosts : HandleHostBind(h) \/ HandleHostUnbind(h)
  <2>1. UNCHANGED <<mDataRole, mUdcBind, aged, timer, states, mWarningSet>>
    BY <1>9 DEF HandleUdcChange, HandleHostBind, HandleHostUnbind, memory,
                clock
  <2>2. ~HandleTimer
    BY <1>9 DEF HandleUdcChange, HandleHostBind, HandleHostUnbind,
                TakeUevent, Handles, HandleTimer
  <2> QED BY <1>4, <2>1, <2>2
<1>10. CASE UpdateUdcBindStatus
  <2>0. pc = "usleep" /\ ~HandleTimer /\ mDataRole' = mDataRole
    BY <1>10 DEF UpdateUdcBindStatus, HandleTimer, Handles
  <2>1. CASE mDataRole # "device" \/ NewUdcBind = mUdcBind
    <3>1. /\ UNCHANGED <<mWarningSet, states, aged, timer>>
          /\ mUdcBind' = NewUdcBind
      BY <1>10, <2>1 DEF UpdateUdcBindStatus, clock, NewUdcBind, ControlOK
    <3>2. Ev' = Ev
      BY <2>0, <2>1, <3>1 DEF Evaluate
    <3> QED BY <1>4, <2>0, <2>1, <3>1, <3>2
  <2>2. CASE mDataRole = "device" /\ mUdcBind /\ ~NewUdcBind
    <3>1. /\ UNCHANGED <<states, aged, timer>>
          /\ mWarningSet' = Ev
          /\ mUdcBind' = (pc' = "pulldown")
      BY <1>10, <2>2 DEF UpdateUdcBindStatus, SetWarnings, clock
    <3>2. mUdcBind' => Ev' = Ev
      BY <2>0, <2>2, <3>1 DEF ControlOK
    <3> QED BY <1>0, <1>2, <2>0, <2>2, <3>1, <3>2 DEF CurrentInv
  <2>3. CASE mDataRole = "device" /\ ~mUdcBind /\ NewUdcBind
    BY <1>5, <1>10, <2>0, <2>3 DEF UpdateUdcBindStatus, ControlOK
  <2> QED BY <2>1, <2>2, <2>3 DEF ControlOK, NewUdcBind
<1>11. CASE NotifyComplianceWarning
  <2>1. /\ UNCHANGED <<mDataRole, aged, timer, states, mWarningSet>>
        /\ mUdcBind' = (mUdcBind /\ pc # "pulldown") /\ ~HandleTimer
    BY <1>11 DEF NotifyComplianceWarning, clock, HandleTimer, Handles
  <2>2. CASE mDataRole = "device" /\ ~mUdcBind'
    BY <1>0, <1>2, <2>1, <2>2 DEF CurrentInv
  <2>3. CASE mDataRole = "device" /\ mUdcBind'
    <3>1. mUdcBind' = mUdcBind
      BY <2>1, <2>3 DEF ControlOK
    <3> QED BY <1>4, <2>1, <2>3, <3>1
  <2>4. CASE mDataRole # "device"
    <3>1. Ev' = Ev
      BY <2>1, <2>4 DEF Evaluate
    <3> QED BY <1>4, <2>1, <2>4, <3>1
  <2> QED BY <2>2, <2>3, <2>4
<1>12. CASE Kernel \/ FinishUnbind
  <2>1. UNCHANGED <<mDataRole, mUdcBind, aged, timer, states, mWarningSet>>
    BY <1>12 DEF Kernel, ChangeRole, ChangeState, HostPort, BindUdc,
                 FinishUnbind, memory, clock
  <2>2. ready' = ready \/ \E f \in Sources : Raise(f)
    BY <1>12 DEF Kernel, ChangeRole, ChangeState, HostPort, BindUdc,
                 FinishUnbind, Sources
  <2>3. Handled' => Handled
    BY <2>2, RaiseKeeps DEF CurrentInv
  <2> QED BY <1>0, <1>1, <1>2, <2>1, <2>3 DEF CurrentInv
<1>13. CASE PassDelay
  <2>1. /\ UNCHANGED <<mDataRole, mUdcBind, timer, states, mWarningSet,
                       ready>>
        /\ ~aged /\ aged'
    BY <1>13 DEF PassDelay, memory
  <2>2. CASE mDataRole = "none"
    BY <1>0, <1>2, <2>1, <2>2, EvaluateNone DEF CurrentInv
  <2>3. CASE mDataRole # "none"
    BY <1>0, <1>2, <2>1, <2>3 DEF CurrentInv
  <2> QED BY <2>2, <2>3
<1>14. CASE ExpireTimer
  <2>1. /\ UNCHANGED <<mDataRole, mWarningSet, aged>> /\ aged
        /\ Raise("timer")
    BY <1>14 DEF ExpireTimer, memory
  <2>2. Has(ready', "timer")
    BY <2>1, RaiseKeeps DEF CurrentInv, Sources
  <2> QED BY <1>0, <1>2, <2>1, <2>2 DEF CurrentInv
<1>15. CASE UNCHANGED vars
  <2>1. UNCHANGED <<mDataRole, mUdcBind, aged, timer, states, mWarningSet,
                    ready>>
    BY <1>15 DEF vars, memory, clock
  <2> QED BY <1>0, <1>1, <1>2, <2>1 DEF CurrentInv
<1> QED BY <1>6, <1>7, <1>8, <1>9, <1>10, <1>11, <1>12, <1>13, <1>14, <1>15
        DEF Next, Handle

LEMMA OpenOrderType == OpenOrder \in Seq(Sources) /\ ~Has(OpenOrder, "timer")
<1> DEFINE S == Sources \ {"timer"}
<1>1. {"role", "udc", "host1", "host2"} \subseteq S
  BY DEF Sources, Devices, Hosts
<1>2. S \subseteq Sources /\ "timer" \notin S
  OBVIOUS
<1> HIDE DEF S
<1>3. ASSUME NEW h \in S PROVE Opened(h) \in Seq(S)
  BY DEF Opened
<1>4. <<"role", "udc">> \in Seq(S) /\ Opened("host1") \in Seq(S)
      /\ Opened("host2") \in Seq(S)
  BY <1>1, <1>3
<1>5. OpenOrder \in Seq(S)
  BY <1>4 DEF OpenOrder
<1>6. OpenOrder \in Seq(Sources)
  BY <1>2, <1>5
<1>7. ASSUME NEW i \in DOMAIN OpenOrder PROVE OpenOrder[i] # "timer"
  BY <1>2, <1>5
<1> QED BY <1>6, <1>7 DEF Has

(* After WARNING_SURFACE_DELAY_SEC the warnings are the ones the states of *)
(* the session deserve, for all thresholds, whichever of the timer, the    *)
(* state files, the role file and the uevents became ready first.  All     *)
(* that is assumed is that mDataRole starts as NONE: a session that the    *)
(* constructor makes up from garbage has no timer.                         *)
THEOREM WarningsCurrent ==
    InitialRoles \subseteq {"none"} => (Spec => []WarningsAreCurrent)
<1> SUFFICES ASSUME InitialRoles \subseteq {"none"}
             PROVE  Spec => []WarningsAreCurrent
  OBVIOUS
<1>1. Init => ControlOK /\ CurrentInv
  <2> SUFFICES ASSUME Init PROVE CurrentInv
    BY InitControl
  <2>1. mDataRole = "none" /\ mWarningSet = {} /\ ready = OpenOrder
    BY DEF Init
  <2> QED BY <2>1, OpenOrderType, EvaluateNone
          DEF CurrentInv, WarningsAreCurrent
<1>2. ControlOK /\ CurrentInv /\ [Next]_vars => (ControlOK /\ CurrentInv)'
  BY ControlStep, CurrentStep
<1>3. CurrentInv => WarningsAreCurrent
  BY DEF CurrentInv
<1> QED BY <1>1, <1>2, <1>3, PTL DEF Spec

-----------------------------------------------------------------------------
(* The types.                                                              *)

(* A session is reported at most once before it ends, in a pulldown.       *)
CountInv ==
    /\ session \in [due : 0..1, made : 0..1]
    /\ ended \in Reports
    /\ session.made = 1 => /\ mDataRole = "device"
                           /\ mUdcBind => pc = "pulldown"
    /\ pc = "pulldown" => mDataRole = "device" /\ mUdcBind

LEMMA CountStep == ControlOK /\ CountInv /\ [Next]_vars => CountInv'
<1> SUFFICES ASSUME ControlOK, CountInv, [Next]_vars PROVE CountInv'
  OBVIOUS
<1>0. ASSUME UNCHANGED <<mDataRole, mUdcBind, session, ended>>,
             pc # "pulldown", pc' # "pulldown"
      PROVE  CountInv'
  BY <1>0 DEF CountInv
<1>1. ASSUME NEW d \in Devices, HandleDeviceState(d) PROVE CountInv'
  BY <1>1, <1>0 DEF HandleDeviceState, Handles, SetWarnings, reports
<1>2. CASE HandleTimer
  BY <1>2, <1>0 DEF HandleTimer, Handles, SetWarnings, reports
<1>n. ASSUME NEW r, NEW bound, NEW last \in Reports,
             SetupNewSession(r, bound, last), pc' = "wait"
      PROVE  CountInv'
  <2>1. ended' = last /\ session'.made = 0
        /\ session' \in [due : 0..1, made : 0..1]
    BY <1>n DEF SetupNewSession
  <2> QED BY <1>n, <2>1 DEF CountInv
<1>3. CASE HandleDataRole
  <2>1. CASE role = mDataRole
    BY <1>3, <2>1, <1>0 DEF HandleDataRole, Handles, reports
  <2>2. CASE role # mDataRole
    <3>1. session \in Reports /\ Reported \in Reports
      BY DEF CountInv, Reports, Reported
    <3> QED BY <1>3, <1>n, <2>2, <3>1 DEF HandleDataRole, Handles
  <2> QED BY <2>1, <2>2
<1>4. ASSUME NEW h \in Hosts, HandleHostBind(h) \/ HandleHostUnbind(h)
      PROVE  CountInv'
  BY <1>4, <1>0 DEF HandleHostBind, HandleHostUnbind, TakeUevent, Handles,
                    reports
<1>5. CASE HandleUdcChange
  BY <1>5, <1>0 DEF HandleUdcChange, TakeUevent, Handles, memory, reports
<1>6. CASE UpdateUdcBindStatus
  <2>1. CASE mDataRole # "device" \/ NewUdcBind = mUdcBind
    <3>1. /\ UNCHANGED <<mDataRole, session, ended>>
          /\ pc = "usleep" /\ pc' = "wait" /\ mUdcBind' = NewUdcBind
      BY <1>6, <2>1 DEF UpdateUdcBindStatus, reports, ControlOK, NewUdcBind
    <3> QED BY <2>1, <3>1 DEF CountInv
  <2>2. CASE mDataRole = "device" /\ mUdcBind /\ ~NewUdcBind
    <3>1. /\ session' = Reported /\ UNCHANGED <<mDataRole, ended>>
          /\ pc = "usleep" /\ mUdcBind' = (pc' = "pulldown")
      BY <1>6, <2>2 DEF UpdateUdcBindStatus
    <3>2. session.made = 0
      BY <2>2, <3>1 DEF CountInv
    <3>3. session' \in [due : 0..1, made : 0..1]
      BY <3>1, <3>2 DEF Reported, CountInv
    <3> QED BY <2>2, <3>1, <3>3 DEF CountInv
  <2>3. CASE mDataRole = "device" /\ ~mUdcBind /\ NewUdcBind
    <3>1. session \in Reports
      BY DEF CountInv, Reports
    <3>2. SetupNewSession(mDataRole, TRUE, session) /\ pc' = "wait"
      BY <1>6, <2>3 DEF UpdateUdcBindStatus
    <3> QED BY <1>n, <3>1, <3>2
  <2> QED BY <2>1, <2>2, <2>3 DEF ControlOK, NewUdcBind
<1>7. CASE NotifyComplianceWarning
  <2>1. /\ UNCHANGED <<mDataRole, session, ended>> /\ pc' = "wait"
        /\ mUdcBind' = (mUdcBind /\ pc # "pulldown")
    BY <1>7 DEF NotifyComplianceWarning, reports
  <2> QED BY <2>1 DEF CountInv, ControlOK
<1>8. CASE Kernel \/ FinishUnbind \/ PassDelay \/ ExpireTimer
  <2>1. UNCHANGED <<pc, mDataRole, mUdcBind, session, ended>>
    BY <1>8, KernelStep DEF memory, reports
  <2> QED BY <2>1 DEF CountInv
<1>9. CASE UNCHANGED vars
  BY <1>9 DEF vars, memory, reports, CountInv
<1> QED BY <1>1, <1>2, <1>3, <1>4, <1>5, <1>6, <1>7, <1>8, <1>9
        DEF Next, Handle

(* The monitor's own variables, and the ones of the kernel.                *)
OwnTypes ==
    /\ mWarningSet \subseteq Warnings
    /\ states \in [Devices -> Seq(ValidStates)]
    /\ fds \subseteq Devices /\ timer \in {"off", "armed"}
    /\ misread \in BOOLEAN
KernelTypes ==
    /\ node \in [Devices -> NodeStates] /\ budget \in 0..MaxEvents

LEMMA EvaluateType ==
    ASSUME NEW r, NEW bind, NEW old, NEW ss
    PROVE  Evaluate(r, bind, old, ss) \subseteq Warnings
  BY DEF Evaluate, DeviceWarnings, HostWarnings

LEMMA OwnStep ==
    OwnTypes /\ KernelTypes /\ [Next]_vars => OwnTypes'
<1> SUFFICES ASSUME OwnTypes, KernelTypes, [Next]_vars PROVE OwnTypes'
  OBVIOUS
<1>n. ASSUME NEW r, NEW bound, NEW last, SetupNewSession(r, bound, last),
             UNCHANGED fds, misread' \in BOOLEAN
      PROVE  OwnTypes'
  <2> DEFINE New(d) == (r = "device" /\ d = "udc") \/ (r = "host" /\ d \in Hosts)
  <2>1. states' = [d \in Devices |-> IF New(d) THEN <<>> ELSE states[d]]
    BY <1>n DEF SetupNewSession
  <2>2. <<>> \in Seq(ValidStates)
    OBVIOUS
  <2>3. \A d \in Devices : states[d] \in Seq(ValidStates)
    BY DEF OwnTypes
  <2> HIDE DEF New
  <2>4. states' \in [Devices -> Seq(ValidStates)]
    BY <2>1, <2>2, <2>3
  <2>5. mWarningSet' = {} /\ timer' \in {"armed", timer}
    BY <1>n DEF SetupNewSession, SessionTimer
  <2> QED BY <1>n, <2>4, <2>5 DEF OwnTypes
<1>1. ASSUME NEW d \in Devices, HandleDeviceState(d) PROVE OwnTypes'
  <2>1. UNCHANGED <<fds, misread, timer>>
    BY <1>1 DEF HandleDeviceState, clock
  <2>2. CASE Watched(d)
    <3>1. /\ states' = [states EXCEPT ![d] = Append(@, node[d])]
          /\ mWarningSet' = Evaluate(mDataRole, mUdcBind, aged, states')
      BY <1>1, <2>2 DEF HandleDeviceState, SetWarnings
    <3>2. node[d] \in ValidStates
      BY <2>2 DEF Watched, KernelTypes, NodeStates
    <3>3. Append(states[d], node[d]) \in Seq(ValidStates)
      BY <3>2 DEF OwnTypes
    <3>4. states' \in [Devices -> Seq(ValidStates)]
      BY <3>1, <3>3 DEF OwnTypes
    <3> QED BY <2>1, <3>1, <3>4, EvaluateType DEF OwnTypes
  <2>3. CASE ~Watched(d)
    BY <1>1, <2>1, <2>3 DEF HandleDeviceState, OwnTypes
  <2> QED BY <2>2, <2>3
<1>2. CASE HandleTimer
  BY <1>2, EvaluateType DEF HandleTimer, SetWarnings, TimerWarnings, clock,
                            OwnTypes
<1>3. CASE HandleDataRole
  <2>1. UNCHANGED <<fds, misread>>
    BY <1>3 DEF HandleDataRole
  <2>2. CASE role # mDataRole
    BY <1>3, <1>n, <2>1, <2>2 DEF HandleDataRole, OwnTypes
  <2>3. CASE role = mDataRole
    BY <1>3, <2>1, <2>3 DEF HandleDataRole, clock, OwnTypes
  <2> QED BY <2>2, <2>3
<1>4. ASSUME NEW h \in Hosts, HandleHostBind(h) \/ HandleHostUnbind(h)
      PROVE  OwnTypes'
  BY <1>4 DEF HandleHostBind, HandleHostUnbind, clock, OwnTypes, Devices
<1>5. CASE UpdateUdcBindStatus
  <2>1. UNCHANGED fds /\ misread' \in BOOLEAN
    BY <1>5 DEF UpdateUdcBindStatus
  <2>2. \/ UNCHANGED <<mWarningSet, states, clock>>
        \/ /\ mWarningSet' = Evaluate(mDataRole, mUdcBind, aged, states)
           /\ UNCHANGED <<states, clock>>
        \/ SetupNewSession(mDataRole, TRUE, session)
    BY <1>5 DEF UpdateUdcBindStatus, SetWarnings
  <2>3. CASE SetupNewSession(mDataRole, TRUE, session)
    BY <1>n, <2>1, <2>3
  <2>4. CASE UNCHANGED <<mWarningSet, states, clock>>
    BY <2>1, <2>4 DEF clock, OwnTypes
  <2>5. CASE /\ mWarningSet' = Evaluate(mDataRole, mUdcBind, aged, states)
             /\ UNCHANGED <<states, clock>>
    BY <2>1, <2>5, EvaluateType DEF clock, OwnTypes
  <2> QED BY <2>2, <2>3, <2>4, <2>5
<1>6. CASE HandleUdcChange \/ NotifyComplianceWarning
  BY <1>6 DEF HandleUdcChange, NotifyComplianceWarning, memory, clock,
              OwnTypes
<1>7. CASE Kernel \/ FinishUnbind \/ PassDelay \/ ExpireTimer
  <2>1. UNCHANGED <<mWarningSet, states, fds, misread>>
    BY <1>7 DEF Kernel, ChangeRole, ChangeState, HostPort, BindUdc,
                FinishUnbind, PassDelay, ExpireTimer, memory
  <2>2. timer' \in {timer, "off"}
    BY <1>7 DEF Kernel, ChangeRole, ChangeState, HostPort, BindUdc,
                FinishUnbind, PassDelay, ExpireTimer, clock
  <2> QED BY <2>1, <2>2 DEF OwnTypes
<1>8. CASE UNCHANGED vars
  BY <1>8 DEF vars, memory, clock, OwnTypes
<1> QED BY <1>1, <1>2, <1>3, <1>4, <1>5, <1>6, <1>7, <1>8 DEF Next, Handle

LEMMA KernelTypesStep == KernelTypes /\ [Next]_vars => KernelTypes'
<1> SUFFICES ASSUME KernelTypes, [Next]_vars PROVE KernelTypes'
  OBVIOUS
<1>0. ASSUME NEW d, NEW s \in NodeStates, Spend,
             node' \in {node, [node EXCEPT ![d] = s]}
      PROVE  KernelTypes'
  BY <1>0, ConstantsAssumption DEF KernelTypes, Spend
<1>1. CASE Handle \/ FinishUnbind \/ PassDelay \/ ExpireTimer
           \/ UNCHANGED vars
  <2>1. UNCHANGED <<node, budget>>
    BY <1>1 DEF Handle, HandleDeviceState, HandleTimer, HandleDataRole,
                HandleHostBind, HandleHostUnbind, HandleUdcChange,
                UpdateUdcBindStatus, NotifyComplianceWarning, FinishUnbind,
                PassDelay, ExpireTimer, vars, kernel
  <2> QED BY <2>1 DEF KernelTypes
<1>2. CASE Kernel
  BY <1>0, <1>2 DEF Kernel, ChangeRole, ChangeState, HostPort, BindUdc,
                    NodeStates, ValidStates
<1> QED BY <1>1, <1>2 DEF Next

(* The types, for every content of the uninitialised mDataRole: a session  *)
(* is never reported more than twice, and what is on epoll's list, in the  *)
(* socket and in the state vectors is what the kernel can put there.       *)
THEOREM TypeCorrect == Spec => []TypeOK
<1> DEFINE I == /\ ControlOK /\ BindInv /\ CountInv /\ OwnTypes /\ KernelTypes
                /\ ready \in Seq(Sources)
<1>1. Init => I
  <2> SUFFICES ASSUME Init PROVE I
    OBVIOUS
  <2>1. ControlOK
    BY InitControl
  <2>2. BindInv
    BY InitBind
  <2>3. CountInv
    BY DEF Init, CountInv, NoReports, Reports
  <2>4. OwnTypes
    BY DEF Init, OwnTypes, UdcNotEmpty
  <2>5. KernelTypes
    BY ConstantsAssumption DEF Init, KernelTypes, NodeStates, ValidStates
  <2> QED BY <2>1, <2>2, <2>3, <2>4, <2>5, OpenOrderType DEF Init
<1>2. I /\ [Next]_vars => I'
  BY ControlStep, BindStep, CountStep, OwnStep, KernelTypesStep, ReadyStep
<1>3. I => TypeOK
  BY DEF TypeOK, ControlOK, BindInv, CountInv, OwnTypes, KernelTypes, Reports
<1> QED BY <1>1, <1>2, <1>3, PTL DEF Spec
=============================================================================
