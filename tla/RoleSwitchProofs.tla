-------------------------- MODULE RoleSwitchProofs --------------------------
(***************************************************************************)
(* UsbHal implements the abstract role switch: under the mapping of RS     *)
(* every step of the three threads and of the kernel is a step of          *)
(* RoleSwitch or changes nothing there.                                    *)
(***************************************************************************)
EXTENDS UsbHalProofs

USE DEF locks, cond, thread, settings, port, ghosts

(* The role of the switch in progress, as RS maps it.                      *)
Wanted == IF Phase = "idle" THEN "none" ELSE req.arg

(* A step that leaves alone what the mapping looks at, but moves the       *)
(* binder thread within one phase.                                         *)
LEMMA SamePhase ==
    ASSUME UNCHANGED <<portType, handledSince>>, Phase' = Phase, Wanted' = Wanted
    PROVE  UNCHANGED RS!vars
  BY DEF RS!vars, Wanted

(* A switch is in progress only where the binder thread holds              *)
(* mRoleSwitchLock.                                                        *)
LEMMA PhaseNeedsLock == Phase # "idle" => Switching
  BY DEF Phase, Switching, SwitchingPcs, At

(* The initial states are mapped to initial states.                        *)
LEMMA RoleSwitchInit == Init => RS!Init
  <1> SUFFICES ASSUME Init PROVE RS!Init
    OBVIOUS
  <1>1. Phase = "idle"
    BY DEF Init, Phase, ModeRequest, Threads
  <1>2. QED
    BY <1>1 DEF Init, RS!Init, PortTypes

(* Every step is mapped to a step or to no change.                         *)
LEMMA RoleSwitchStep == IndInv /\ [Next]_vars => [RS!Next]_(RS!vars)
  <1> SUFFICES ASSUME IndInv, [Next]_vars PROVE [RS!Next]_(RS!vars)
    OBVIOUS
  <1> USE DEF IndInv, TypeOK
  <1>1. ASSUME NEW r \in Issued, Issue(r)  PROVE [RS!Next]_(RS!vars)
    <2>1. Phase = "idle" /\ Phase' = "idle"
      BY <1>1 DEF Issue, FirstStep, Phase, ModeRequest, At, Goto, DataOK, Threads
    <2>2. QED
      BY <1>1, <2>1, SamePhase DEF Issue, Wanted
  <1>2. CASE SetCallbackReplace
    <2>1. Phase' = Phase /\ Wanted' = Wanted
      BY <1>2 DEF SetCallbackReplace, SameRegistration, Phase, Wanted, ModeRequest,
        At, Goto, DataOK, Threads
    <2>2. QED
      BY <1>2, <2>1, SamePhase DEF SetCallbackReplace
  <1>3. CASE SetCallbackClear
    <2>1. Phase' = Phase /\ Wanted' = Wanted
      BY <1>3 DEF SetCallbackClear, Phase, Wanted, ModeRequest,
        At, Goto, DataOK, Threads
    <2>2. QED
      BY <1>3, <2>1, SamePhase DEF SetCallbackClear
  <1>4. CASE JoinWorker
    <2>1. Phase' = Phase /\ Wanted' = Wanted
      BY <1>4 DEF JoinWorker, Phase, Wanted, ModeRequest,
        At, Goto, DataOK, Threads
    <2>2. QED
      BY <1>4, <2>1, SamePhase DEF JoinWorker
  <1>5. CASE SetCallbackCreate
    <2>1. Phase' = Phase /\ Wanted' = Wanted
      BY <1>5 DEF SetCallbackCreate, Phase, Wanted, ModeRequest,
        At, Goto, DataOK, Threads
    <2>2. QED
      BY <1>5, <2>1, SamePhase DEF SetCallbackCreate
  <1>6. CASE LockPartner
    <2>1. Phase' = Phase /\ Wanted' = Wanted
      BY <1>6 DEF LockPartner, PartnerUpReset, Phase, Wanted, ModeRequest,
        At, Goto, DataOK, Threads
    <2>2. QED
      BY <1>6, <2>1, SamePhase DEF LockPartner
  <1>7. CASE WaitPartner
    <2>1. Phase' = Phase /\ Wanted' = Wanted
      BY <1>7 DEF WaitPartner, Phase, Wanted, ModeRequest,
        At, Goto, DataOK, Threads
    <2>2. QED
      BY <1>7, <2>1, SamePhase DEF WaitPartner
  <1>8. CASE WakeSignalled
    <2>1. Phase' = Phase /\ Wanted' = Wanted
      BY <1>8 DEF WakeSignalled, Phase, Wanted, ModeRequest,
        At, Goto, DataOK, Threads
    <2>2. QED
      BY <1>8, <2>1, SamePhase DEF WakeSignalled
  <1>9. CASE WakeTimeout
    <2>1. Phase' = Phase /\ Wanted' = Wanted
      BY <1>9 DEF WakeTimeout, Phase, Wanted, ModeRequest,
        At, Goto, DataOK, Threads
    <2>2. QED
      BY <1>9, <2>1, SamePhase DEF WakeTimeout
  <1>10. CASE WakeSpurious
    <2>1. Phase' = Phase /\ Wanted' = Wanted
      BY <1>10 DEF WakeSpurious, Phase, Wanted, ModeRequest,
        At, Goto, DataOK, Threads
    <2>2. QED
      BY <1>10, <2>1, SamePhase DEF WakeSpurious
  <1>11. CASE EnableUsbData
    <2>1. Phase' = Phase /\ Wanted' = Wanted
      BY <1>11 DEF EnableUsbData, Phase, Wanted, ModeRequest,
        At, Goto, DataOK, Threads
    <2>2. QED
      BY <1>11, <2>1, SamePhase DEF EnableUsbData
  <1>12. CASE EnableContaminantPresenceDetection
    <2>1. Phase' = Phase /\ Wanted' = Wanted
      BY <1>12 DEF EnableContaminantPresenceDetection, Phase, Wanted, ModeRequest,
        At, Goto, DataOK, Threads
    <2>2. QED
      BY <1>12, <2>1, SamePhase DEF EnableContaminantPresenceDetection
  <1>13. CASE WriteOtherNode
    <2>1. Phase' = Phase /\ Wanted' = Wanted
      BY <1>13 DEF WriteOtherNode, Phase, Wanted, ModeRequest,
        At, Goto, DataOK, Threads
    <2>2. QED
      BY <1>13, <2>1, SamePhase DEF WriteOtherNode
  <1>14. CASE NotifyResult
    <2>1. Phase' = Phase /\ Wanted' = Wanted
      BY <1>14 DEF NotifyResult, AfterNotify, Phase, Wanted, ModeRequest,
        At, Goto, DataOK, Threads
    <2>2. QED
      BY <1>14, <2>1, SamePhase DEF NotifyResult
  <1>15. CASE LimitPowerTransfer
    <2>1. Phase' = Phase /\ Wanted' = Wanted
      BY <1>15 DEF LimitPowerTransfer, Phase, Wanted, ModeRequest,
        At, Goto, DataOK, Threads
    <2>2. QED
      BY <1>15, <2>1, SamePhase DEF LimitPowerTransfer
  <1>16. CASE NotifyQueryPortStatus
    <2>1. Phase' = Phase /\ Wanted' = Wanted
      BY <1>16 DEF NotifyQueryPortStatus, Phase, Wanted, ModeRequest,
        At, Goto, DataOK, Threads
    <2>2. QED
      BY <1>16, <2>1, SamePhase DEF NotifyQueryPortStatus
  <1>17. CASE WorkStart
    <2>1. Phase' = Phase /\ Wanted' = Wanted
      BY <1>17 DEF WorkStart, Phase, Wanted, ModeRequest,
        At, Goto, DataOK, Threads
    <2>2. QED
      BY <1>17, <2>1, SamePhase DEF WorkStart
  <1>18. CASE WorkCheck
    <2>1. Phase' = Phase /\ Wanted' = Wanted
      BY <1>18 DEF WorkCheck, WorkExit, Phase, Wanted, ModeRequest,
        At, Goto, DataOK, Threads
    <2>2. QED
      BY <1>18, <2>1, SamePhase DEF WorkCheck
  <1>19. CASE WorkEnterWait
    <2>1. Phase' = Phase /\ Wanted' = Wanted
      BY <1>19 DEF WorkEnterWait, Phase, Wanted, ModeRequest,
        At, Goto, DataOK, Threads
    <2>2. QED
      BY <1>19, <2>1, SamePhase DEF WorkEnterWait
  <1>20. CASE WorkWake
    <2>1. Phase' = Phase /\ Wanted' = Wanted
      BY <1>20 DEF WorkWake, WorkExit, AfterUevent, Phase, Wanted, ModeRequest,
        At, Goto, DataOK, Threads
    <2>2. QED
      BY <1>20, <2>1, SamePhase DEF WorkWake
  <1>21. CASE TryRoleSwitchLock
    <2>1. Phase' = Phase /\ Wanted' = Wanted
      BY <1>21 DEF TryRoleSwitchLock, Phase, Wanted, ModeRequest,
        At, Goto, DataOK, Threads
    <2>2. QED
      BY <1>21, <2>1, SamePhase DEF TryRoleSwitchLock
  <1>22. CASE OpenPartner
    <2>1. Phase' = Phase /\ Wanted' = Wanted
      BY <1>22 DEF OpenPartner, Phase, Wanted, ModeRequest,
        At, Goto, DataOK, Threads
    <2>2. QED
      BY <1>22, <2>1, SamePhase DEF OpenPartner
  <1>23. CASE SigDeliver
    <2>1. Phase' = Phase /\ Wanted' = Wanted
      BY <1>23 DEF SigDeliver, Phase, Wanted, ModeRequest,
        At, Goto, DataOK, Threads
    <2>2. QED
      BY <1>23, <2>1, SamePhase DEF SigDeliver
  <1>24. CASE UpdatePortStatus
    <2>1. Phase' = Phase /\ Wanted' = Wanted
      BY <1>24 DEF UpdatePortStatus, Phase, Wanted, ModeRequest,
        At, Goto, DataOK, Threads
    <2>2. QED
      BY <1>24, <2>1, SamePhase DEF UpdatePortStatus
  <1>25. CASE PartnerAttach
    <2>1. Phase' = Phase /\ Wanted' = Wanted
      BY <1>25 DEF PartnerAttach, Phase, Wanted, ModeRequest,
        At, Goto, DataOK, Threads
    <2>2. QED
      BY <1>25, <2>1, SamePhase DEF PartnerAttach
  <1>26. CASE PartnerDetach
    <2>1. Phase' = Phase /\ Wanted' = Wanted
      BY <1>26 DEF PartnerDetach, Phase, Wanted, ModeRequest,
        At, Goto, DataOK, Threads
    <2>2. QED
      BY <1>26, <2>1, SamePhase DEF PartnerDetach
  <1>27. CASE SwitchRoleLock
    <2>1. CASE req.arg \in ModeRoles
      <3>1. ModeRequest
        BY <1>27, <2>1 DEF SwitchRoleLock, ReqInv, ModeRequest
      <3>2. Phase = "idle" /\ req' = req /\ ModeRequest'
        BY <1>27, <3>1 DEF SwitchRoleLock, Phase, ModeRequest, At
      <3>3. Phase' = "trying" \/ (SysfsFaults /\ Phase' = "waiting")
        BY <1>27, <2>1, <3>2 DEF SwitchRoleLock, Phase, At, Goto, DataOK, Threads
      <3>4. RS!Begin(req.arg)
        BY <1>27, <3>2, <3>3 DEF RS!Begin, SwitchRoleLock
      <3>5. QED
        BY <2>1, <3>4 DEF RS!Next, ModeRoles
    <2>2. CASE req.arg \notin ModeRoles
      <3>1. Phase = "idle" /\ Phase' = "idle"
        BY <1>27, <2>2 DEF SwitchRoleLock, Phase, ModeRequest
      <3>2. QED
        BY <1>27, <3>1, SamePhase DEF SwitchRoleLock, Wanted
    <2>3. QED
      BY <2>1, <2>2
  <1>28. CASE WritePortType
    <2>1. ModeRequest /\ ModeRequest'
      BY <1>28 DEF WritePortType, ReqInv, SwitchingPcs, At, ModeRequest
    <2>2. Phase = "trying" /\ Phase' = "waiting"
      BY <1>28, <2>1 DEF WritePortType, Phase, At, Goto, DataOK, Threads
    <2>3. RS!Force
      BY <1>28, <2>1, <2>2 DEF WritePortType, RS!Force, ModeRequest
    <2>4. QED
      BY <2>3 DEF RS!Next, RS!Conclude
  <1>29. CASE Relock
    <2>1. ModeRequest /\ ModeRequest'
      BY <1>29 DEF Relock, ReqInv, SwitchingPcs, At, ModeRequest
    <2>2. Phase = "waiting"
      BY <1>29, <2>1 DEF Relock, Phase, At, DataOK, Threads
    <2>3. CASE ~timedOut /\ mPartnerUp
      <3>1. Phase' = "done"
        BY <1>29, <2>1, <2>3 DEF Relock, Relocked, Phase, At, Goto, DataOK, Threads
      <3>2. handledSince
        BY <1>29, <2>3 DEF Relock, WaitInv, At
      <3>3. RS!Succeed
        BY <1>29, <2>2, <3>1, <3>2 DEF Relock, RS!Succeed
      <3>4. QED
        BY <3>3 DEF RS!Next, RS!Conclude
    <2>4. CASE timedOut \/ ~mPartnerUp
      <3>1. Phase' = "waiting"
        BY <1>29, <2>1, <2>4 DEF Relock, Relocked, Phase, At, Goto, DataOK,
          FlagsOK, Threads
      <3>2. QED
        BY <1>29, <2>2, <3>1, SamePhase DEF Relock, Wanted
    <2>5. QED
      BY <2>3, <2>4
  <1>30. CASE SwitchModeFailed
    <2>1. ModeRequest /\ ModeRequest' /\ ~result'
      BY <1>30 DEF SwitchModeFailed, ReqInv, WaitInv, SwitchingPcs, At, ModeRequest
    <2>2. Phase = "waiting" /\ Phase' = "failed"
      BY <1>30, <2>1 DEF SwitchModeFailed, Phase, At, Goto, DataOK, Threads
    <2>3. RS!Fail
      BY <1>30, <2>2 DEF SwitchModeFailed, SwitchToDrp, RS!Fail, RS!Recover
    <2>4. QED
      BY <2>3 DEF RS!Next, RS!Conclude
  <1>31. CASE NotifyRoleSwitchStatus
    <2>1. CASE ModeRequest
      <3>1. Phase \in {"done", "failed"} /\ Phase' = "idle"
        BY <1>31, <2>1 DEF NotifyRoleSwitchStatus, Phase, ModeRequest, At, Goto,
          DataOK, Threads
      <3>2. RS!Tell
        BY <1>31, <3>1 DEF NotifyRoleSwitchStatus, RS!Tell
      <3>3. QED
        BY <3>2 DEF RS!Next, RS!Conclude
    <2>2. CASE ~ModeRequest
      <3>1. Phase = "idle" /\ Phase' = "idle"
        BY <1>31, <2>2 DEF NotifyRoleSwitchStatus, Phase, ModeRequest
      <3>2. QED
        BY <1>31, <3>1, SamePhase DEF NotifyRoleSwitchStatus, Wanted
    <2>3. QED
      BY <2>1, <2>2
  <1>32. CASE PartnerAdded
    <2>1. Phase' = Phase /\ req' = req
      BY <1>32 DEF PartnerAdded, Phase, ModeRequest, At, Goto, DataOK, Threads
    <2>2. RS!HandlePartner
      BY <1>32, <2>1 DEF PartnerAdded, RS!HandlePartner
    <2>3. QED
      BY <2>2 DEF RS!Next
  <1>33. CASE DisconnectedToDrp
    <2>1. Phase = "idle"
      BY <1>33, PhaseNeedsLock DEF DisconnectedToDrp, LocksHeld, At
    <2>2. Phase' = "idle" /\ req' = req
      BY <1>33, <2>1 DEF DisconnectedToDrp, Phase, ModeRequest, At, Goto, DataOK,
        Threads
    <2>3. RS!Disconnected
      BY <1>33, <2>1, <2>2 DEF DisconnectedToDrp, SwitchToDrp, RS!Disconnected,
        RS!Recover
    <2>4. QED
      BY <2>3 DEF RS!Next
  <1>34. ASSUME NEW m \in {"typec", "other"}, OtherUevent(m)  PROVE [RS!Next]_(RS!vars)
    <2>1. Phase' = Phase /\ Wanted' = Wanted
      BY <1>34 DEF OtherUevent, Phase, Wanted, ModeRequest,
        At, Goto, DataOK, Threads
    <2>2. QED
      BY <1>34, <2>1, SamePhase DEF OtherUevent
  <1>35. ASSUME NEW t \in Threads, QueryLock(t)  PROVE [RS!Next]_(RS!vars)
    <2>1. Phase' = Phase /\ Wanted' = Wanted
      BY <1>35 DEF QueryLock, Phase, Wanted, ModeRequest,
        At, Goto, DataOK, Threads
    <2>2. QED
      BY <1>35, <2>1, SamePhase DEF QueryLock
  <1>36. ASSUME NEW t \in Threads, FillStatus(t)  PROVE [RS!Next]_(RS!vars)
    <2>1. Phase' = Phase /\ Wanted' = Wanted
      BY <1>36 DEF FillStatus, Phase, Wanted, ModeRequest,
        At, Goto, DataOK, Threads
    <2>2. QED
      BY <1>36, <2>1, SamePhase DEF FillStatus
  <1>37. ASSUME NEW t \in Threads, ReportStatus(t)  PROVE [RS!Next]_(RS!vars)
    <2>1. Phase' = Phase /\ Wanted' = Wanted
      BY <1>37 DEF ReportStatus, AfterQuery, Phase, Wanted, ModeRequest,
        At, Goto, DataOK, Threads
    <2>2. QED
      BY <1>37, <2>1, SamePhase DEF ReportStatus
  <1>38. CASE UNCHANGED vars
    BY <1>38, SamePhase DEF vars, Phase, Wanted, ModeRequest, At
  <1>39. QED
    BY <1>1, <1>2, <1>3, <1>4, <1>5, <1>6, <1>7, <1>8, <1>9, <1>10, <1>11,
      <1>12, <1>13, <1>14, <1>15, <1>16, <1>17, <1>18, <1>19, <1>20, <1>21,
      <1>22, <1>23, <1>24, <1>25, <1>26, <1>27, <1>28, <1>29, <1>30, <1>31,
      <1>32, <1>33, <1>34, <1>35, <1>36, <1>37, <1>38
      DEF Next, Serve, SwitchRole, Work, Monitor, Kernel, Query, Threads

(* switchRole(), the uevent thread and the kernel implement the safety     *)
(* part of the abstract role switch, with and without refused writes: the  *)
(* port's type is forced once per switch, success needs a partner uevent   *)
(* handled after it, though perhaps sent before, and nothing else writes   *)
(* the type meanwhile.                                                     *)
THEOREM RoleSwitchRefinement == Spec => RoleSwitchSafety
  BY RoleSwitchInit, RoleSwitchStep, Invariance, PTL
    DEF Spec, RoleSwitchSafety, RS!Spec
=============================================================================
