---------------------------- MODULE UsbHalProofs ----------------------------
(***************************************************************************)
(* Proofs about UsbHal for every set of callbacks and requests, every      *)
(* bound and with or without faults.                                       *)
(***************************************************************************)
EXTENDS UsbHal, SequenceTheorems, TLAPS

(* The code of a request runs for that request; switchMode() runs for mode *)
(* roles only.                                                             *)
ReqInv ==
    /\ At("binder", "setCallback") => req.op = "setCallback"
    /\ At("binder", "switchRole") => req.op = "switchRole"
    /\ pc["binder"] \in SwitchingPcs \ {"notifyRole"} => ModeRequest

(* switchMode() has not succeeded before its wait returns; mPartnerUp is   *)
(* FALSE while mPartnerLock is held, and once set during the wait it       *)
(* stands for a uevent handled since the write.                            *)
WaitInv ==
    /\ pc["binder"] \in SwitchingPcs \ {"notifyRole"} => ~result
    /\ pc["binder"] \in {"write", "wait"} => ~mPartnerUp
    /\ pc["binder"] \in {"cvWait", "relock"} /\ mPartnerUp => handledSince
    /\ NoLostPartner
    /\ SwitchHasUevent

(* Something that will make a thread query the port is on its way: a       *)
(* uevent about the port, or the query of a request that wrote a setting.  *)
Pending ==
    \/ \E i \in 1..Len(uevents) : uevents[i] \in {"add", "typec"}
    \/ pc["worker"] \in {"add", "query"}
    \/ At("binder", "query")
    \/ At("binder", "notify") /\ req.op # "resetUsbPort"

Holding(t) == pc[t] \in {"fill", "report"}

RealStatus == [conn |-> partner, ok |-> TRUE, data |-> mUsbDataEnabled,
               limit |-> sinkLimit, contam |-> contaminant]

(* Unless a query is on its way, what a thread has read of the port so far *)
(* is right, and when no thread is reading the last notified status is.    *)
StatusInv ==
    synced /\ mCallback # NULL /\ ~Pending =>
        /\ \A t \in Threads : At(t, "fill") => seen[t].conn = partner
        /\ \A t \in Threads : At(t, "report") => seen[t] = RealStatus
        /\ (\A t \in Threads : ~Holding(t)) => reported = RealStatus

(* The worker exists only with a callback.                                 *)
WorkerInv == NoWorkerWithoutCallback /\ (At("binder", "join") => mCallback = NULL)

(* The inductive invariant.                                                *)
IndInv == /\ TypeOK /\ ReqInv /\ LocksHeld /\ WaitInv /\ WorkerInv
          /\ StatusInv /\ FailedSwitchIsDrp

-----------------------------------------------------------------------------
USE DEF locks, cond, thread, settings, port, ghosts

(* What a write of a node may return.                                      *)
LEMMA WriteOkBoolean == WriteOk \subseteq BOOLEAN
  BY DEF WriteOk

(* The uevent socket is empty when it is opened and when it is closed.     *)
LEMMA NoUevents == <<>> \in Seq(Messages) /\ Len(<<>>) <= MaxQueue
  BY ConstantsAssumption

(* The Boolean variables stay Boolean.                                     *)
LEMMA FlagsStep == FlagsOK /\ [Next]_vars => FlagsOK'
  <1> SUFFICES ASSUME FlagsOK, [Next]_vars PROVE FlagsOK'
    OBVIOUS
  <1>1. ASSUME NEW r \in Issued, Issue(r)  PROVE FlagsOK'
    BY <1>1 DEF Issue, FirstStep, FlagsOK
  <1>2. CASE SetCallbackReplace
    BY <1>2 DEF SetCallbackReplace, SameRegistration, FlagsOK
  <1>3. CASE SetCallbackClear
    BY <1>3 DEF SetCallbackClear, FlagsOK
  <1>4. CASE JoinWorker
    BY <1>4 DEF JoinWorker, FlagsOK
  <1>5. CASE SetCallbackCreate
    BY <1>5 DEF SetCallbackCreate, FlagsOK
  <1>6. CASE SwitchRoleLock
    <2>1. result' \in BOOLEAN
      BY <1>6, WriteOkBoolean, Zenon DEF SwitchRoleLock
    <2>2. QED
      BY <1>6, <2>1 DEF SwitchRoleLock, FlagsOK
  <1>7. CASE LockPartner
    BY <1>7 DEF LockPartner, PartnerUpReset, FlagsOK
  <1>8. CASE WritePortType
    BY <1>8 DEF WritePortType, ModeRoles, FlagsOK
  <1>9. CASE WaitPartner
    BY <1>9 DEF WaitPartner, FlagsOK
  <1>10. CASE WakeSignalled
    BY <1>10 DEF WakeSignalled, FlagsOK
  <1>11. CASE WakeTimeout
    BY <1>11 DEF WakeTimeout, FlagsOK
  <1>12. CASE WakeSpurious
    BY <1>12 DEF WakeSpurious, FlagsOK
  <1>13. CASE Relock
    BY <1>13 DEF Relock, Relocked, FlagsOK
  <1>14. CASE SwitchModeFailed
    BY <1>14 DEF SwitchModeFailed, SwitchToDrp, FlagsOK
  <1>15. CASE NotifyRoleSwitchStatus
    BY <1>15 DEF NotifyRoleSwitchStatus, RoleUnlock, FlagsOK
  <1>16. CASE EnableUsbData
    BY <1>16 DEF EnableUsbData, WriteOk, Enabling, FlagsOK
  <1>17. CASE EnableContaminantPresenceDetection
    <2>1. result' \in BOOLEAN
      BY <1>17, WriteOkBoolean, Zenon DEF EnableContaminantPresenceDetection
    <2>2. contaminant' \in BOOLEAN
      BY <1>17, Zenon DEF EnableContaminantPresenceDetection, Enabling, FlagsOK
    <2>3. QED
      BY <1>17, <2>1, <2>2 DEF EnableContaminantPresenceDetection, FlagsOK
  <1>18. CASE WriteOtherNode
    <2>1. result' \in BOOLEAN
      BY <1>18, WriteOkBoolean, Zenon DEF WriteOtherNode
    <2>2. QED
      BY <1>18, <2>1 DEF WriteOtherNode, FlagsOK
  <1>19. CASE NotifyResult
    BY <1>19 DEF NotifyResult, AfterNotify, FlagsOK
  <1>20. CASE LimitPowerTransfer
    <2>1. result' \in BOOLEAN /\ sinkLimit' \in BOOLEAN
      BY <1>20, Zenon DEF LimitPowerTransfer, Enabling, FlagsOK
    <2>2. QED
      BY <1>20, <2>1 DEF LimitPowerTransfer, FlagsOK
  <1>21. CASE NotifyQueryPortStatus
    BY <1>21 DEF NotifyQueryPortStatus, FlagsOK
  <1>22. CASE WorkStart
    BY <1>22 DEF WorkStart, FlagsOK
  <1>23. CASE WorkCheck
    <2>1. synced' \in BOOLEAN
      BY <1>23, Zenon DEF WorkCheck, WorkExit, FlagsOK
    <2>2. QED
      BY <1>23, <2>1 DEF WorkCheck, WorkExit, FlagsOK
  <1>24. CASE WorkEnterWait
    BY <1>24 DEF WorkEnterWait, FlagsOK
  <1>25. CASE WorkWake
    <2>1. synced' \in BOOLEAN
      BY <1>25, Zenon DEF WorkWake, WorkExit, FlagsOK
    <2>2. QED
      BY <1>25, <2>1 DEF WorkWake, WorkExit, FlagsOK
  <1>26. CASE PartnerAdded
    BY <1>26 DEF PartnerAdded, PartnerLockFree, FlagsOK
  <1>27. CASE TryRoleSwitchLock
    BY <1>27 DEF TryRoleSwitchLock, RoleSwitchTryLock, FlagsOK
  <1>28. CASE OpenPartner
    BY <1>28 DEF OpenPartner, PartnerDirExists, FlagsOK
  <1>29. CASE DisconnectedToDrp
    BY <1>29 DEF DisconnectedToDrp, SwitchToDrp, FlagsOK
  <1>30. CASE SigDeliver
    BY <1>30 DEF SigDeliver, FlagsOK
  <1>31. CASE UpdatePortStatus
    BY <1>31 DEF UpdatePortStatus, FlagsOK
  <1>32. CASE PartnerAttach
    BY <1>32 DEF PartnerAttach, Send, SocketOpen, FlagsOK
  <1>33. CASE PartnerDetach
    BY <1>33 DEF PartnerDetach, Send, SocketOpen, FlagsOK
  <1>34. ASSUME NEW m \in {"typec", "other"}, OtherUevent(m)
        PROVE  FlagsOK'
    <2>1. synced' \in BOOLEAN
      BY <1>34, Zenon DEF OtherUevent, Send, FlagsOK
    <2>2. QED
      BY <1>34, <2>1 DEF OtherUevent, Send, FlagsOK
  <1>35. ASSUME NEW t \in Threads, QueryLock(t)  PROVE FlagsOK'
    BY <1>35 DEF QueryLock, SocketOpen, FlagsOK
  <1>36. ASSUME NEW t \in Threads, FillStatus(t)  PROVE FlagsOK'
    BY <1>36 DEF FillStatus, FlagsOK
  <1>37. ASSUME NEW t \in Threads, ReportStatus(t)  PROVE FlagsOK'
    BY <1>37 DEF ReportStatus, AfterQuery, FlagsOK
  <1>38. CASE UNCHANGED vars
    BY <1>38 DEF vars, FlagsOK
  <1>39. QED
    BY <1>1, <1>2, <1>3, <1>4, <1>5, <1>6, <1>7, <1>8, <1>9, <1>10, <1>11,
      <1>12, <1>13, <1>14, <1>15, <1>16, <1>17, <1>18, <1>19, <1>20,
      <1>21, <1>22, <1>23, <1>24, <1>25, <1>26, <1>27, <1>28, <1>29,
      <1>30, <1>31, <1>32, <1>33, <1>34, <1>35, <1>36, <1>37, <1>38 DEF
      Next, Serve, SwitchRole, Work, Monitor, Kernel, Query, Threads

(* The other variables keep their types.                                   *)
LEMMA DataStep == TypeOK /\ ReqInv /\ [Next]_vars => DataOK'
  <1> SUFFICES ASSUME DataOK, FlagsOK, ReqInv, [Next]_vars PROVE DataOK'
    BY DEF TypeOK
  <1> USE ConstantsAssumption
  <1>1. ASSUME NEW r \in Issued, Issue(r)  PROVE DataOK'
    BY <1>1 DEF Issue, FirstStep, DataOK, At, Goto, Free, Threads,
      BinderPcs, WorkerPcs, MonitorPcs, Status, NoStatus, PortTypes,
      Messages
  <1>2. CASE SetCallbackReplace
    <2>1. req.arg \in Callbacks \cup {NULL}
      BY <1>2 DEF SetCallbackReplace, At, ReqInv, DataOK, Requests
    <2>2. QED
      BY <1>2, <2>1 DEF SetCallbackReplace, DataOK, At, Goto, Free, Threads,
        BinderPcs, WorkerPcs, MonitorPcs, Status, NoStatus, PortTypes,
        Messages
  <1>3. CASE SetCallbackClear
    BY <1>3 DEF SetCallbackClear, DataOK, At, Goto, Free, Threads,
      BinderPcs, WorkerPcs, MonitorPcs, Status, NoStatus, PortTypes,
      Messages
  <1>4. CASE JoinWorker
    BY <1>4 DEF JoinWorker, DataOK, At, Goto, Free, Threads, BinderPcs,
      WorkerPcs, MonitorPcs, Status, NoStatus, PortTypes, Messages
  <1>5. CASE SetCallbackCreate
    <2>1. req.arg \in Callbacks \cup {NULL}
      BY <1>5 DEF SetCallbackCreate, At, ReqInv, DataOK, Requests
    <2>2. QED
      BY <1>5, <2>1 DEF SetCallbackCreate, DataOK, At, Goto, Free, Threads,
        BinderPcs, WorkerPcs, MonitorPcs, Status, NoStatus, PortTypes,
        Messages
  <1>6. CASE SwitchRoleLock
    BY <1>6 DEF SwitchRoleLock, ModeRoles, DataOK, At, Goto, Free,
      Threads, BinderPcs, WorkerPcs, MonitorPcs, Status, NoStatus,
      PortTypes, Messages
  <1>7. CASE LockPartner
    BY <1>7 DEF LockPartner, PartnerUpReset, DataOK, At, Goto, Free,
      Threads, BinderPcs, WorkerPcs, MonitorPcs, Status, NoStatus,
      PortTypes, Messages
  <1>8. CASE WritePortType
    <2>1. portType' \in PortTypes
      BY <1>8 DEF WritePortType, At, ReqInv, SwitchingPcs, ModeRequest, ModeRoles,
               DataOK, PortTypes
    <2>2. QED
      BY <1>8, <2>1 DEF WritePortType, DataOK, At, Goto, Free, Threads,
        BinderPcs, WorkerPcs, MonitorPcs, Status, NoStatus, PortTypes,
        Messages
  <1>9. CASE WaitPartner
    BY <1>9 DEF WaitPartner, DataOK, At, Goto, Free, Threads, BinderPcs,
      WorkerPcs, MonitorPcs, Status, NoStatus, PortTypes, Messages
  <1>10. CASE WakeSignalled
    BY <1>10 DEF WakeSignalled, DataOK, At, Goto, Free, Threads,
      BinderPcs, WorkerPcs, MonitorPcs, Status, NoStatus, PortTypes,
      Messages
  <1>11. CASE WakeTimeout
    BY <1>11 DEF WakeTimeout, DataOK, At, Goto, Free, Threads, BinderPcs,
      WorkerPcs, MonitorPcs, Status, NoStatus, PortTypes, Messages
  <1>12. CASE WakeSpurious
    BY <1>12 DEF WakeSpurious, DataOK, At, Goto, Free, Threads, BinderPcs,
      WorkerPcs, MonitorPcs, Status, NoStatus, PortTypes, Messages
  <1>13. CASE Relock
    BY <1>13 DEF Relock, Relocked, DataOK, At, Goto, Free, Threads,
      BinderPcs, WorkerPcs, MonitorPcs, Status, NoStatus, PortTypes,
      Messages
  <1>14. CASE SwitchModeFailed
    BY <1>14 DEF SwitchModeFailed, SwitchToDrp, DataOK, At, Goto, Free,
      Threads, BinderPcs, WorkerPcs, MonitorPcs, Status, NoStatus,
      PortTypes, Messages
  <1>15. CASE NotifyRoleSwitchStatus
    BY <1>15 DEF NotifyRoleSwitchStatus, RoleUnlock, DataOK, At, Goto,
      Free, Threads, BinderPcs, WorkerPcs, MonitorPcs, Status, NoStatus,
      PortTypes, Messages
  <1>16. CASE EnableUsbData
    BY <1>16 DEF EnableUsbData, DataOK, At, Goto, Free, Threads,
      BinderPcs, WorkerPcs, MonitorPcs, Status, NoStatus, PortTypes,
      Messages
  <1>17. CASE EnableContaminantPresenceDetection
    BY <1>17 DEF EnableContaminantPresenceDetection, DataOK, At, Goto,
      Free, Threads, BinderPcs, WorkerPcs, MonitorPcs, Status, NoStatus,
      PortTypes, Messages
  <1>18. CASE WriteOtherNode
    BY <1>18 DEF WriteOtherNode, DataOK, At, Goto, Free, Threads,
      BinderPcs, WorkerPcs, MonitorPcs, Status, NoStatus, PortTypes,
      Messages
  <1>19. CASE NotifyResult
    BY <1>19 DEF NotifyResult, AfterNotify, DataOK, At, Goto, Free,
      Threads, BinderPcs, WorkerPcs, MonitorPcs, Status, NoStatus,
      PortTypes, Messages
  <1>20. CASE LimitPowerTransfer
    BY <1>20 DEF LimitPowerTransfer, DataOK, At, Goto, Free, Threads,
      BinderPcs, WorkerPcs, MonitorPcs, Status, NoStatus, PortTypes,
      Messages
  <1>21. CASE NotifyQueryPortStatus
    BY <1>21 DEF NotifyQueryPortStatus, DataOK, At, Goto, Free, Threads,
      BinderPcs, WorkerPcs, MonitorPcs, Status, NoStatus, PortTypes,
      Messages
  <1>22. CASE WorkStart
    BY <1>22 DEF WorkStart, DataOK, At, Goto, Free, Threads, BinderPcs,
      WorkerPcs, MonitorPcs, Status, NoStatus, PortTypes, Messages
  <1>23. CASE WorkCheck
    <2>1. uevents' = <<>> \/ uevents' = uevents
      BY <1>23 DEF WorkCheck, WorkExit
    <2>2. uevents' \in Seq(Messages) /\ Len(uevents') <= MaxQueue
      BY <2>1, NoUevents DEF DataOK
    <2>3. QED
      BY <1>23, <2>2 DEF WorkCheck, WorkExit, DataOK, At, Goto, Free, Threads,
        BinderPcs, WorkerPcs, MonitorPcs, Status, NoStatus, PortTypes,
        Messages
  <1>24. CASE WorkEnterWait
    BY <1>24 DEF WorkEnterWait, DataOK, At, Goto, Free, Threads,
      BinderPcs, WorkerPcs, MonitorPcs, Status, NoStatus, PortTypes,
      Messages
  <1>25. CASE WorkWake
    <2>1. \/ uevents' = <<>>
          \/ uevents # <<>> /\ uevents' = Tail(uevents)
      BY <1>25 DEF WorkWake, WorkExit
    <2>2. uevents # <<>> => /\ Head(uevents) \in Messages
                            /\ Tail(uevents) \in Seq(Messages)
                            /\ Len(Tail(uevents)) = Len(uevents) - 1
      BY HeadTailProperties DEF DataOK
    <2>3. uevents' \in Seq(Messages) /\ Len(uevents') <= MaxQueue
      <3>1. CASE uevents' = <<>>
        BY <3>1, NoUevents
      <3>2. CASE uevents # <<>> /\ uevents' = Tail(uevents)
        <4>1. Len(uevents) \in Nat /\ MaxQueue \in Nat
          BY LenProperties, ConstantsAssumption DEF DataOK
        <4>2. QED
          BY <2>2, <3>2, <4>1 DEF DataOK
      <3>3. QED
        BY <2>1, <3>1, <3>2
    <2>4. QED
      BY <1>25, <2>2, <2>3 DEF WorkWake, WorkExit, AfterUevent, DataOK, At,
        Goto, Free, Threads, BinderPcs, WorkerPcs, MonitorPcs, Status,
        NoStatus, PortTypes, Messages
  <1>26. CASE PartnerAdded
    BY <1>26 DEF PartnerAdded, PartnerLockFree, DataOK, At, Goto, Free,
      Threads, BinderPcs, WorkerPcs, MonitorPcs, Status, NoStatus,
      PortTypes, Messages
  <1>27. CASE TryRoleSwitchLock
    BY <1>27 DEF TryRoleSwitchLock, RoleSwitchTryLock, DataOK, At, Goto,
      Free, Threads, BinderPcs, WorkerPcs, MonitorPcs, Status, NoStatus,
      PortTypes, Messages
  <1>28. CASE OpenPartner
    BY <1>28 DEF OpenPartner, PartnerDirExists, DataOK, At, Goto, Free,
      Threads, BinderPcs, WorkerPcs, MonitorPcs, Status, NoStatus,
      PortTypes, Messages
  <1>29. CASE DisconnectedToDrp
    BY <1>29 DEF DisconnectedToDrp, SwitchToDrp, DataOK, At, Goto, Free,
      Threads, BinderPcs, WorkerPcs, MonitorPcs, Status, NoStatus,
      PortTypes, Messages
  <1>30. CASE SigDeliver
    BY <1>30 DEF SigDeliver, DataOK, At, Goto, Free, Threads, BinderPcs,
      WorkerPcs, MonitorPcs, Status, NoStatus, PortTypes, Messages
  <1>31. CASE UpdatePortStatus
    BY <1>31 DEF UpdatePortStatus, DataOK, At, Goto, Free, Threads,
      BinderPcs, WorkerPcs, MonitorPcs, Status, NoStatus, PortTypes,
      Messages
  <1>32. CASE PartnerAttach
    <2>1. uevents' \in Seq(Messages) /\ Len(uevents') <= MaxQueue
      BY <1>32 DEF PartnerAttach, Send, DataOK, Messages
    <2>2. QED
      BY <1>32, <2>1 DEF PartnerAttach, Send, DataOK, At, Goto, Free, Threads,
        BinderPcs, WorkerPcs, MonitorPcs, Status, NoStatus, PortTypes,
        Messages
  <1>33. CASE PartnerDetach
    <2>1. uevents' \in Seq(Messages) /\ Len(uevents') <= MaxQueue
      BY <1>33 DEF PartnerDetach, Send, DataOK, Messages
    <2>2. QED
      BY <1>33, <2>1 DEF PartnerDetach, Send, DataOK, At, Goto, Free, Threads,
        BinderPcs, WorkerPcs, MonitorPcs, Status, NoStatus, PortTypes,
        Messages
  <1>34. ASSUME NEW m \in {"typec", "other"}, OtherUevent(m)
        PROVE  DataOK'
    <2>1. uevents' \in Seq(Messages) /\ Len(uevents') <= MaxQueue
      BY <1>34 DEF OtherUevent, Send, DataOK, Messages
    <2>2. QED
      BY <1>34, <2>1 DEF OtherUevent, Send, DataOK, At, Goto, Free, Threads,
        BinderPcs, WorkerPcs, MonitorPcs, Status, NoStatus, PortTypes,
        Messages
  <1>35. ASSUME NEW t \in Threads, QueryLock(t)  PROVE DataOK'
    <2>1. [NoStatus EXCEPT !.conn = partner] \in Status
      BY DEF NoStatus, Status, FlagsOK
    <2>2. seen' \in [Threads -> Status]
      BY <1>35, <2>1 DEF QueryLock, DataOK
    <2>3. QED
      BY <1>35, <2>2 DEF QueryLock, DataOK, At, Goto, Free, Threads,
        BinderPcs, WorkerPcs, MonitorPcs, Status, NoStatus, PortTypes,
        Messages
  <1>36. ASSUME NEW t \in Threads, FillStatus(t)  PROVE DataOK'
    BY <1>36 DEF FillStatus, RolesReadable, PowerTransferLimited,
      ContaminantDetection, FlagsOK, DataOK, At, Goto, Free, Threads,
      BinderPcs, WorkerPcs, MonitorPcs, Status, NoStatus, PortTypes,
      Messages
  <1>37. ASSUME NEW t \in Threads, ReportStatus(t)  PROVE DataOK'
    BY <1>37 DEF ReportStatus, AfterQuery, DataOK, At, Goto, Free,
      Threads, BinderPcs, WorkerPcs, MonitorPcs, Status, NoStatus,
      PortTypes, Messages
  <1>38. CASE UNCHANGED vars
    BY <1>38 DEF vars, DataOK, At, Goto, Free, Threads, BinderPcs,
      WorkerPcs, MonitorPcs, Status, NoStatus, PortTypes, Messages
  <1>39. QED
    BY <1>1, <1>2, <1>3, <1>4, <1>5, <1>6, <1>7, <1>8, <1>9, <1>10, <1>11,
      <1>12, <1>13, <1>14, <1>15, <1>16, <1>17, <1>18, <1>19, <1>20,
      <1>21, <1>22, <1>23, <1>24, <1>25, <1>26, <1>27, <1>28, <1>29,
      <1>30, <1>31, <1>32, <1>33, <1>34, <1>35, <1>36, <1>37, <1>38 DEF
      Next, Serve, SwitchRole, Work, Monitor, Kernel, Query, Threads

(* A request's code runs for that request.                                 *)
LEMMA ReqStep == TypeOK /\ ReqInv /\ [Next]_vars => ReqInv'
  <1> SUFFICES ASSUME DataOK, FlagsOK, ReqInv, [Next]_vars PROVE ReqInv'
    BY DEF TypeOK
  <1> USE ConstantsAssumption
  <1>1. ASSUME NEW r \in Issued, Issue(r)  PROVE ReqInv'
    BY <1>1 DEF Issue, FirstStep, ReqInv, At, Goto, Threads, SwitchingPcs,
      ModeRequest, DataOK, Requests
  <1>2. CASE SetCallbackReplace
    BY <1>2 DEF SetCallbackReplace, ReqInv, At, Goto, Threads, BinderPcs,
      SwitchingPcs, ModeRequest, DataOK
  <1>3. CASE SetCallbackClear
    BY <1>3 DEF SetCallbackClear, ReqInv, At, Goto, Threads, BinderPcs,
      SwitchingPcs, ModeRequest, DataOK
  <1>4. CASE JoinWorker
    BY <1>4 DEF JoinWorker, ReqInv, At, Goto, Threads, BinderPcs,
      SwitchingPcs, ModeRequest, DataOK
  <1>5. CASE SetCallbackCreate
    BY <1>5 DEF SetCallbackCreate, ReqInv, At, Goto, Threads, BinderPcs,
      SwitchingPcs, ModeRequest, DataOK
  <1>6. CASE SwitchRoleLock
    BY <1>6 DEF SwitchRoleLock, ModeRoles, ReqInv, At, Goto, Threads,
      BinderPcs, SwitchingPcs, ModeRequest, DataOK
  <1>7. CASE LockPartner
    BY <1>7 DEF LockPartner, PartnerUpReset, ReqInv, At, Goto, Threads,
      BinderPcs, SwitchingPcs, ModeRequest, DataOK
  <1>8. CASE WritePortType
    BY <1>8 DEF WritePortType, ModeRoles, ReqInv, At, Goto, Threads,
      BinderPcs, SwitchingPcs, ModeRequest, DataOK
  <1>9. CASE WaitPartner
    BY <1>9 DEF WaitPartner, ReqInv, At, Goto, Threads, BinderPcs,
      SwitchingPcs, ModeRequest, DataOK
  <1>10. CASE WakeSignalled
    BY <1>10 DEF WakeSignalled, ReqInv, At, Goto, Threads, BinderPcs,
      SwitchingPcs, ModeRequest, DataOK
  <1>11. CASE WakeTimeout
    BY <1>11 DEF WakeTimeout, ReqInv, At, Goto, Threads, BinderPcs,
      SwitchingPcs, ModeRequest, DataOK
  <1>12. CASE WakeSpurious
    BY <1>12 DEF WakeSpurious, ReqInv, At, Goto, Threads, BinderPcs,
      SwitchingPcs, ModeRequest, DataOK
  <1>13. CASE Relock
    BY <1>13 DEF Relock, Relocked, ReqInv, At, Goto, Threads, BinderPcs,
      SwitchingPcs, ModeRequest, DataOK
  <1>14. CASE SwitchModeFailed
    BY <1>14 DEF SwitchModeFailed, SwitchToDrp, ReqInv, At, Goto, Threads,
      BinderPcs, SwitchingPcs, ModeRequest, DataOK
  <1>15. CASE NotifyRoleSwitchStatus
    BY <1>15 DEF NotifyRoleSwitchStatus, RoleUnlock, ReqInv, At, Goto,
      Threads, BinderPcs, SwitchingPcs, ModeRequest, DataOK
  <1>16. CASE EnableUsbData
    BY <1>16 DEF EnableUsbData, ReqInv, At, Goto, Threads, BinderPcs,
      SwitchingPcs, ModeRequest, DataOK
  <1>17. CASE EnableContaminantPresenceDetection
    BY <1>17 DEF EnableContaminantPresenceDetection, ReqInv, At, Goto,
      Threads, BinderPcs, SwitchingPcs, ModeRequest, DataOK
  <1>18. CASE WriteOtherNode
    BY <1>18 DEF WriteOtherNode, ReqInv, At, Goto, Threads, BinderPcs,
      SwitchingPcs, ModeRequest, DataOK
  <1>19. CASE NotifyResult
    BY <1>19 DEF NotifyResult, AfterNotify, ReqInv, At, Goto, Threads,
      BinderPcs, SwitchingPcs, ModeRequest, DataOK
  <1>20. CASE LimitPowerTransfer
    BY <1>20 DEF LimitPowerTransfer, ReqInv, At, Goto, Threads, BinderPcs,
      SwitchingPcs, ModeRequest, DataOK
  <1>21. CASE NotifyQueryPortStatus
    BY <1>21 DEF NotifyQueryPortStatus, ReqInv, At, Goto, Threads,
      BinderPcs, SwitchingPcs, ModeRequest, DataOK
  <1>22. CASE WorkStart
    BY <1>22 DEF WorkStart, ReqInv, At, Goto, Threads, BinderPcs,
      SwitchingPcs, ModeRequest, DataOK
  <1>23. CASE WorkCheck
    BY <1>23 DEF WorkCheck, WorkExit, ReqInv, At, Goto, Threads,
      BinderPcs, SwitchingPcs, ModeRequest, DataOK
  <1>24. CASE WorkEnterWait
    BY <1>24 DEF WorkEnterWait, ReqInv, At, Goto, Threads, BinderPcs,
      SwitchingPcs, ModeRequest, DataOK
  <1>25. CASE WorkWake
    BY <1>25 DEF WorkWake, WorkExit, AfterUevent, ReqInv, At, Goto,
      Threads, BinderPcs, SwitchingPcs, ModeRequest, DataOK
  <1>26. CASE PartnerAdded
    BY <1>26 DEF PartnerAdded, PartnerLockFree, ReqInv, At, Goto, Threads,
      BinderPcs, SwitchingPcs, ModeRequest, DataOK
  <1>27. CASE TryRoleSwitchLock
    BY <1>27 DEF TryRoleSwitchLock, RoleSwitchTryLock, ReqInv, At, Goto,
      Threads, BinderPcs, SwitchingPcs, ModeRequest, DataOK
  <1>28. CASE OpenPartner
    BY <1>28 DEF OpenPartner, PartnerDirExists, ReqInv, At, Goto, Threads,
      BinderPcs, SwitchingPcs, ModeRequest, DataOK
  <1>29. CASE DisconnectedToDrp
    BY <1>29 DEF DisconnectedToDrp, SwitchToDrp, ReqInv, At, Goto,
      Threads, BinderPcs, SwitchingPcs, ModeRequest, DataOK
  <1>30. CASE SigDeliver
    BY <1>30 DEF SigDeliver, ReqInv, At, Goto, Threads, BinderPcs,
      SwitchingPcs, ModeRequest, DataOK
  <1>31. CASE UpdatePortStatus
    BY <1>31 DEF UpdatePortStatus, ReqInv, At, Goto, Threads, BinderPcs,
      SwitchingPcs, ModeRequest, DataOK
  <1>32. CASE PartnerAttach
    BY <1>32 DEF PartnerAttach, ReqInv, At, Goto, Threads, BinderPcs,
      SwitchingPcs, ModeRequest, DataOK
  <1>33. CASE PartnerDetach
    BY <1>33 DEF PartnerDetach, ReqInv, At, Goto, Threads, BinderPcs,
      SwitchingPcs, ModeRequest, DataOK
  <1>34. ASSUME NEW m \in {"typec", "other"}, OtherUevent(m)
        PROVE  ReqInv'
    BY <1>34 DEF OtherUevent, Send, SocketOpen, ReqInv, At, Goto, Threads,
      BinderPcs, SwitchingPcs, ModeRequest, DataOK
  <1>35. ASSUME NEW t \in Threads, QueryLock(t)  PROVE ReqInv'
    BY <1>35 DEF QueryLock, SocketOpen, ReqInv, At, Goto, Threads,
      BinderPcs, SwitchingPcs, ModeRequest, DataOK
  <1>36. ASSUME NEW t \in Threads, FillStatus(t)  PROVE ReqInv'
    BY <1>36 DEF FillStatus, ReqInv, At, Goto, Threads, BinderPcs,
      SwitchingPcs, ModeRequest, DataOK
  <1>37. ASSUME NEW t \in Threads, ReportStatus(t)  PROVE ReqInv'
    BY <1>37 DEF ReportStatus, AfterQuery, ReqInv, At, Goto, Threads,
      BinderPcs, SwitchingPcs, ModeRequest, DataOK
  <1>38. CASE UNCHANGED vars
    BY <1>38 DEF vars, ReqInv, At, Goto, Threads, BinderPcs, SwitchingPcs,
      ModeRequest, DataOK
  <1>39. QED
    BY <1>1, <1>2, <1>3, <1>4, <1>5, <1>6, <1>7, <1>8, <1>9, <1>10, <1>11,
      <1>12, <1>13, <1>14, <1>15, <1>16, <1>17, <1>18, <1>19, <1>20,
      <1>21, <1>22, <1>23, <1>24, <1>25, <1>26, <1>27, <1>28, <1>29,
      <1>30, <1>31, <1>32, <1>33, <1>34, <1>35, <1>36, <1>37, <1>38 DEF
      Next, Serve, SwitchRole, Work, Monitor, Kernel, Query, Threads

(* Locks are held where the code holds them.                               *)
LEMMA LocksStep ==
    TypeOK /\ LocksHeld /\ WorkerInv /\ [Next]_vars => LocksHeld'
  <1> SUFFICES ASSUME DataOK, LocksHeld, WorkerInv, [Next]_vars
               PROVE  LocksHeld'
    BY DEF TypeOK
  <1>1. ASSUME NEW r \in Issued, Issue(r)  PROVE LocksHeld'
    BY <1>1 DEF Issue, FirstStep, LocksHeld, Switching, SwitchingPcs, At,
      Goto, Free, Threads, BinderPcs, WorkerPcs, MonitorPcs, DataOK
  <1>2. CASE SetCallbackReplace
    BY <1>2 DEF SetCallbackReplace, LocksHeld, Switching, SwitchingPcs,
      At, Goto, Free, Threads, BinderPcs, WorkerPcs, MonitorPcs, DataOK
  <1>3. CASE SetCallbackClear
    BY <1>3 DEF SetCallbackClear, LocksHeld, Switching, SwitchingPcs, At,
      Goto, Free, Threads, BinderPcs, WorkerPcs, MonitorPcs, DataOK
  <1>4. CASE JoinWorker
    BY <1>4 DEF JoinWorker, LocksHeld, Switching, SwitchingPcs, At, Goto,
      Free, Threads, BinderPcs, WorkerPcs, MonitorPcs, DataOK
  <1>5. CASE SetCallbackCreate
    BY <1>5 DEF SetCallbackCreate, WorkerInv, NoWorkerWithoutCallback,
      LocksHeld, Switching, SwitchingPcs, At, Goto, Free, Threads,
      BinderPcs, WorkerPcs, MonitorPcs, DataOK
  <1>6. CASE SwitchRoleLock
    BY <1>6 DEF SwitchRoleLock, ModeRoles, LocksHeld, Switching,
      SwitchingPcs, At, Goto, Free, Threads, BinderPcs, WorkerPcs,
      MonitorPcs, DataOK
  <1>7. CASE LockPartner
    BY <1>7 DEF LockPartner, PartnerUpReset, LocksHeld, Switching,
      SwitchingPcs, At, Goto, Free, Threads, BinderPcs, WorkerPcs,
      MonitorPcs, DataOK
  <1>8. CASE WritePortType
    BY <1>8 DEF WritePortType, ModeRoles, LocksHeld, Switching,
      SwitchingPcs, At, Goto, Free, Threads, BinderPcs, WorkerPcs,
      MonitorPcs, DataOK
  <1>9. CASE WaitPartner
    BY <1>9 DEF WaitPartner, LocksHeld, Switching, SwitchingPcs, At, Goto,
      Free, Threads, BinderPcs, WorkerPcs, MonitorPcs, DataOK
  <1>10. CASE WakeSignalled
    BY <1>10 DEF WakeSignalled, LocksHeld, Switching, SwitchingPcs, At,
      Goto, Free, Threads, BinderPcs, WorkerPcs, MonitorPcs, DataOK
  <1>11. CASE WakeTimeout
    BY <1>11 DEF WakeTimeout, LocksHeld, Switching, SwitchingPcs, At,
      Goto, Free, Threads, BinderPcs, WorkerPcs, MonitorPcs, DataOK
  <1>12. CASE WakeSpurious
    BY <1>12 DEF WakeSpurious, LocksHeld, Switching, SwitchingPcs, At,
      Goto, Free, Threads, BinderPcs, WorkerPcs, MonitorPcs, DataOK
  <1>13. CASE Relock
    BY <1>13 DEF Relock, Relocked, LocksHeld, Switching, SwitchingPcs, At,
      Goto, Free, Threads, BinderPcs, WorkerPcs, MonitorPcs, DataOK
  <1>14. CASE SwitchModeFailed
    BY <1>14 DEF SwitchModeFailed, SwitchToDrp, LocksHeld, Switching,
      SwitchingPcs, At, Goto, Free, Threads, BinderPcs, WorkerPcs,
      MonitorPcs, DataOK
  <1>15. CASE NotifyRoleSwitchStatus
    BY <1>15 DEF NotifyRoleSwitchStatus, RoleUnlock, LocksHeld, Switching,
      SwitchingPcs, At, Goto, Free, Threads, BinderPcs, WorkerPcs,
      MonitorPcs, DataOK
  <1>16. CASE EnableUsbData
    BY <1>16 DEF EnableUsbData, LocksHeld, Switching, SwitchingPcs, At,
      Goto, Free, Threads, BinderPcs, WorkerPcs, MonitorPcs, DataOK
  <1>17. CASE EnableContaminantPresenceDetection
    BY <1>17 DEF EnableContaminantPresenceDetection, LocksHeld, Switching,
      SwitchingPcs, At, Goto, Free, Threads, BinderPcs, WorkerPcs,
      MonitorPcs, DataOK
  <1>18. CASE WriteOtherNode
    BY <1>18 DEF WriteOtherNode, LocksHeld, Switching, SwitchingPcs, At,
      Goto, Free, Threads, BinderPcs, WorkerPcs, MonitorPcs, DataOK
  <1>19. CASE NotifyResult
    BY <1>19 DEF NotifyResult, AfterNotify, LocksHeld, Switching,
      SwitchingPcs, At, Goto, Free, Threads, BinderPcs, WorkerPcs,
      MonitorPcs, DataOK
  <1>20. CASE LimitPowerTransfer
    BY <1>20 DEF LimitPowerTransfer, LocksHeld, Switching, SwitchingPcs,
      At, Goto, Free, Threads, BinderPcs, WorkerPcs, MonitorPcs, DataOK
  <1>21. CASE NotifyQueryPortStatus
    BY <1>21 DEF NotifyQueryPortStatus, LocksHeld, Switching,
      SwitchingPcs, At, Goto, Free, Threads, BinderPcs, WorkerPcs,
      MonitorPcs, DataOK
  <1>22. CASE WorkStart
    BY <1>22 DEF WorkStart, LocksHeld, Switching, SwitchingPcs, At, Goto,
      Free, Threads, BinderPcs, WorkerPcs, MonitorPcs, DataOK
  <1>23. CASE WorkCheck
    BY <1>23 DEF WorkCheck, WorkExit, LocksHeld, Switching, SwitchingPcs,
      At, Goto, Free, Threads, BinderPcs, WorkerPcs, MonitorPcs, DataOK
  <1>24. CASE WorkEnterWait
    BY <1>24 DEF WorkEnterWait, LocksHeld, Switching, SwitchingPcs, At,
      Goto, Free, Threads, BinderPcs, WorkerPcs, MonitorPcs, DataOK
  <1>25. CASE WorkWake
    <2>1. uevents # <<>> => Head(uevents) \in Messages
      BY HeadTailProperties DEF DataOK
    <2>2. QED
      BY <1>25, <2>1 DEF WorkWake, WorkExit, AfterUevent, Messages, LocksHeld,
        Switching, SwitchingPcs, At, Goto, Free, Threads, BinderPcs,
        WorkerPcs, MonitorPcs, DataOK
  <1>26. CASE PartnerAdded
    BY <1>26 DEF PartnerAdded, PartnerLockFree, LocksHeld, Switching,
      SwitchingPcs, At, Goto, Free, Threads, BinderPcs, WorkerPcs,
      MonitorPcs, DataOK
  <1>27. CASE TryRoleSwitchLock
    BY <1>27 DEF TryRoleSwitchLock, RoleSwitchTryLock, LocksHeld,
      Switching, SwitchingPcs, At, Goto, Free, Threads, BinderPcs,
      WorkerPcs, MonitorPcs, DataOK
  <1>28. CASE OpenPartner
    BY <1>28 DEF OpenPartner, PartnerDirExists, LocksHeld, Switching,
      SwitchingPcs, At, Goto, Free, Threads, BinderPcs, WorkerPcs,
      MonitorPcs, DataOK
  <1>29. CASE DisconnectedToDrp
    BY <1>29 DEF DisconnectedToDrp, SwitchToDrp, LocksHeld, Switching,
      SwitchingPcs, At, Goto, Free, Threads, BinderPcs, WorkerPcs,
      MonitorPcs, DataOK
  <1>30. CASE SigDeliver
    BY <1>30 DEF SigDeliver, LocksHeld, Switching, SwitchingPcs, At, Goto,
      Free, Threads, BinderPcs, WorkerPcs, MonitorPcs, DataOK
  <1>31. CASE UpdatePortStatus
    BY <1>31 DEF UpdatePortStatus, LocksHeld, Switching, SwitchingPcs, At,
      Goto, Free, Threads, BinderPcs, WorkerPcs, MonitorPcs, DataOK
  <1>32. CASE PartnerAttach
    BY <1>32 DEF PartnerAttach, LocksHeld, Switching, SwitchingPcs, At,
      Goto, Free, Threads, BinderPcs, WorkerPcs, MonitorPcs, DataOK
  <1>33. CASE PartnerDetach
    BY <1>33 DEF PartnerDetach, LocksHeld, Switching, SwitchingPcs, At,
      Goto, Free, Threads, BinderPcs, WorkerPcs, MonitorPcs, DataOK
  <1>34. ASSUME NEW m \in {"typec", "other"}, OtherUevent(m)
        PROVE  LocksHeld'
    BY <1>34 DEF OtherUevent, Send, SocketOpen, LocksHeld, Switching,
      SwitchingPcs, At, Goto, Free, Threads, BinderPcs, WorkerPcs,
      MonitorPcs, DataOK
  <1>35. ASSUME NEW t \in Threads, QueryLock(t)  PROVE LocksHeld'
    BY <1>35 DEF QueryLock, SocketOpen, LocksHeld, Switching,
      SwitchingPcs, At, Goto, Free, Threads, BinderPcs, WorkerPcs,
      MonitorPcs, DataOK
  <1>36. ASSUME NEW t \in Threads, FillStatus(t)  PROVE LocksHeld'
    BY <1>36 DEF FillStatus, LocksHeld, Switching, SwitchingPcs, At, Goto,
      Free, Threads, BinderPcs, WorkerPcs, MonitorPcs, DataOK
  <1>37. ASSUME NEW t \in Threads, ReportStatus(t)  PROVE LocksHeld'
    BY <1>37 DEF ReportStatus, AfterQuery, LocksHeld, Switching,
      SwitchingPcs, At, Goto, Free, Threads, BinderPcs, WorkerPcs,
      MonitorPcs, DataOK
  <1>38. CASE UNCHANGED vars
    BY <1>38 DEF vars, LocksHeld, Switching, SwitchingPcs, At, Goto, Free,
      Threads, BinderPcs, WorkerPcs, MonitorPcs, DataOK
  <1>39. QED
    BY <1>1, <1>2, <1>3, <1>4, <1>5, <1>6, <1>7, <1>8, <1>9, <1>10, <1>11,
      <1>12, <1>13, <1>14, <1>15, <1>16, <1>17, <1>18, <1>19, <1>20,
      <1>21, <1>22, <1>23, <1>24, <1>25, <1>26, <1>27, <1>28, <1>29,
      <1>30, <1>31, <1>32, <1>33, <1>34, <1>35, <1>36, <1>37, <1>38 DEF
      Next, Serve, SwitchRole, Work, Monitor, Kernel, Query, Threads

(* The wait of switchMode() keeps its invariant.                           *)
LEMMA WaitStep ==
    TypeOK /\ ReqInv /\ LocksHeld /\ WaitInv /\ [Next]_vars => WaitInv'
  <1> SUFFICES ASSUME DataOK, FlagsOK, ReqInv, LocksHeld, WaitInv, [Next]_vars
               PROVE  WaitInv'
    BY DEF TypeOK
  <1>1. ASSUME NEW r \in Issued, Issue(r)  PROVE WaitInv'
    BY <1>1 DEF Issue, FirstStep, WaitInv, NoLostPartner, SwitchHasUevent,
      LocksHeld, SwitchingPcs, ReqInv, ModeRequest, At, Goto, Free,
      Threads, DataOK, FlagsOK
  <1>2. CASE SetCallbackReplace
    BY <1>2 DEF SetCallbackReplace, WaitInv, NoLostPartner,
      SwitchHasUevent, LocksHeld, SwitchingPcs, ReqInv, ModeRequest, At,
      Goto, Free, Threads, DataOK, FlagsOK
  <1>3. CASE SetCallbackClear
    BY <1>3 DEF SetCallbackClear, WaitInv, NoLostPartner, SwitchHasUevent,
      LocksHeld, SwitchingPcs, ReqInv, ModeRequest, At, Goto, Free,
      Threads, DataOK, FlagsOK
  <1>4. CASE JoinWorker
    BY <1>4 DEF JoinWorker, WaitInv, NoLostPartner, SwitchHasUevent,
      LocksHeld, SwitchingPcs, ReqInv, ModeRequest, At, Goto, Free,
      Threads, DataOK, FlagsOK
  <1>5. CASE SetCallbackCreate
    BY <1>5 DEF SetCallbackCreate, WaitInv, NoLostPartner,
      SwitchHasUevent, LocksHeld, SwitchingPcs, ReqInv, ModeRequest, At,
      Goto, Free, Threads, DataOK, FlagsOK
  <1>6. CASE SwitchRoleLock
    BY <1>6 DEF SwitchRoleLock, ModeRoles, WaitInv, NoLostPartner,
      SwitchHasUevent, LocksHeld, SwitchingPcs, ReqInv, ModeRequest, At,
      Goto, Free, Threads, DataOK, FlagsOK
  <1>7. CASE LockPartner
    BY <1>7 DEF LockPartner, PartnerUpReset, WaitInv, NoLostPartner,
      SwitchHasUevent, LocksHeld, SwitchingPcs, ReqInv, ModeRequest, At,
      Goto, Free, Threads, DataOK, FlagsOK
  <1>8. CASE WritePortType
    BY <1>8 DEF WritePortType, ModeRoles, WaitInv, NoLostPartner,
      SwitchHasUevent, LocksHeld, SwitchingPcs, ReqInv, ModeRequest, At,
      Goto, Free, Threads, DataOK, FlagsOK
  <1>9. CASE WaitPartner
    BY <1>9 DEF WaitPartner, WaitInv, NoLostPartner, SwitchHasUevent,
      LocksHeld, SwitchingPcs, ReqInv, ModeRequest, At, Goto, Free,
      Threads, DataOK, FlagsOK
  <1>10. CASE WakeSignalled
    BY <1>10 DEF WakeSignalled, WaitInv, NoLostPartner, SwitchHasUevent,
      LocksHeld, SwitchingPcs, ReqInv, ModeRequest, At, Goto, Free,
      Threads, DataOK, FlagsOK
  <1>11. CASE WakeTimeout
    BY <1>11 DEF WakeTimeout, WaitInv, NoLostPartner, SwitchHasUevent,
      LocksHeld, SwitchingPcs, ReqInv, ModeRequest, At, Goto, Free,
      Threads, DataOK, FlagsOK
  <1>12. CASE WakeSpurious
    BY <1>12 DEF WakeSpurious, WaitInv, NoLostPartner, SwitchHasUevent,
      LocksHeld, SwitchingPcs, ReqInv, ModeRequest, At, Goto, Free,
      Threads, DataOK, FlagsOK
  <1>13. CASE Relock
    BY <1>13 DEF Relock, Relocked, WaitInv, NoLostPartner,
      SwitchHasUevent, LocksHeld, SwitchingPcs, ReqInv, ModeRequest, At,
      Goto, Free, Threads, DataOK, FlagsOK
  <1>14. CASE SwitchModeFailed
    BY <1>14 DEF SwitchModeFailed, SwitchToDrp, WaitInv, NoLostPartner,
      SwitchHasUevent, LocksHeld, SwitchingPcs, ReqInv, ModeRequest, At,
      Goto, Free, Threads, DataOK, FlagsOK
  <1>15. CASE NotifyRoleSwitchStatus
    BY <1>15 DEF NotifyRoleSwitchStatus, RoleUnlock, WaitInv,
      NoLostPartner, SwitchHasUevent, LocksHeld, SwitchingPcs, ReqInv,
      ModeRequest, At, Goto, Free, Threads, DataOK, FlagsOK
  <1>16. CASE EnableUsbData
    BY <1>16 DEF EnableUsbData, WaitInv, NoLostPartner, SwitchHasUevent,
      LocksHeld, SwitchingPcs, ReqInv, ModeRequest, At, Goto, Free,
      Threads, DataOK, FlagsOK
  <1>17. CASE EnableContaminantPresenceDetection
    BY <1>17 DEF EnableContaminantPresenceDetection, WaitInv,
      NoLostPartner, SwitchHasUevent, LocksHeld, SwitchingPcs, ReqInv,
      ModeRequest, At, Goto, Free, Threads, DataOK, FlagsOK
  <1>18. CASE WriteOtherNode
    BY <1>18 DEF WriteOtherNode, WaitInv, NoLostPartner, SwitchHasUevent,
      LocksHeld, SwitchingPcs, ReqInv, ModeRequest, At, Goto, Free,
      Threads, DataOK, FlagsOK
  <1>19. CASE NotifyResult
    BY <1>19 DEF NotifyResult, AfterNotify, WaitInv, NoLostPartner,
      SwitchHasUevent, LocksHeld, SwitchingPcs, ReqInv, ModeRequest, At,
      Goto, Free, Threads, DataOK, FlagsOK
  <1>20. CASE LimitPowerTransfer
    BY <1>20 DEF LimitPowerTransfer, WaitInv, NoLostPartner,
      SwitchHasUevent, LocksHeld, SwitchingPcs, ReqInv, ModeRequest, At,
      Goto, Free, Threads, DataOK, FlagsOK
  <1>21. CASE NotifyQueryPortStatus
    BY <1>21 DEF NotifyQueryPortStatus, WaitInv, NoLostPartner,
      SwitchHasUevent, LocksHeld, SwitchingPcs, ReqInv, ModeRequest, At,
      Goto, Free, Threads, DataOK, FlagsOK
  <1>22. CASE WorkStart
    BY <1>22 DEF WorkStart, WaitInv, NoLostPartner, SwitchHasUevent,
      LocksHeld, SwitchingPcs, ReqInv, ModeRequest, At, Goto, Free,
      Threads, DataOK, FlagsOK
  <1>23. CASE WorkCheck
    BY <1>23 DEF WorkCheck, WorkExit, WaitInv, NoLostPartner,
      SwitchHasUevent, LocksHeld, SwitchingPcs, ReqInv, ModeRequest, At,
      Goto, Free, Threads, DataOK, FlagsOK
  <1>24. CASE WorkEnterWait
    BY <1>24 DEF WorkEnterWait, WaitInv, NoLostPartner, SwitchHasUevent,
      LocksHeld, SwitchingPcs, ReqInv, ModeRequest, At, Goto, Free,
      Threads, DataOK, FlagsOK
  <1>25. CASE WorkWake
    BY <1>25 DEF WorkWake, WorkExit, AfterUevent, WaitInv, NoLostPartner,
      SwitchHasUevent, LocksHeld, SwitchingPcs, ReqInv, ModeRequest, At,
      Goto, Free, Threads, DataOK, FlagsOK
  <1>26. CASE PartnerAdded
    BY <1>26 DEF PartnerAdded, PartnerLockFree, WaitInv, NoLostPartner,
      SwitchHasUevent, LocksHeld, SwitchingPcs, ReqInv, ModeRequest, At,
      Goto, Free, Threads, DataOK, FlagsOK
  <1>27. CASE TryRoleSwitchLock
    BY <1>27 DEF TryRoleSwitchLock, RoleSwitchTryLock, WaitInv,
      NoLostPartner, SwitchHasUevent, LocksHeld, SwitchingPcs, ReqInv,
      ModeRequest, At, Goto, Free, Threads, DataOK, FlagsOK
  <1>28. CASE OpenPartner
    BY <1>28 DEF OpenPartner, PartnerDirExists, WaitInv, NoLostPartner,
      SwitchHasUevent, LocksHeld, SwitchingPcs, ReqInv, ModeRequest, At,
      Goto, Free, Threads, DataOK, FlagsOK
  <1>29. CASE DisconnectedToDrp
    BY <1>29 DEF DisconnectedToDrp, SwitchToDrp, WaitInv, NoLostPartner,
      SwitchHasUevent, LocksHeld, SwitchingPcs, ReqInv, ModeRequest, At,
      Goto, Free, Threads, DataOK, FlagsOK
  <1>30. CASE SigDeliver
    BY <1>30 DEF SigDeliver, WaitInv, NoLostPartner, SwitchHasUevent,
      LocksHeld, SwitchingPcs, ReqInv, ModeRequest, At, Goto, Free,
      Threads, DataOK, FlagsOK
  <1>31. CASE UpdatePortStatus
    BY <1>31 DEF UpdatePortStatus, WaitInv, NoLostPartner,
      SwitchHasUevent, LocksHeld, SwitchingPcs, ReqInv, ModeRequest, At,
      Goto, Free, Threads, DataOK, FlagsOK
  <1>32. CASE PartnerAttach
    BY <1>32 DEF PartnerAttach, WaitInv, NoLostPartner, SwitchHasUevent,
      LocksHeld, SwitchingPcs, ReqInv, ModeRequest, At, Goto, Free,
      Threads, DataOK, FlagsOK
  <1>33. CASE PartnerDetach
    BY <1>33 DEF PartnerDetach, WaitInv, NoLostPartner, SwitchHasUevent,
      LocksHeld, SwitchingPcs, ReqInv, ModeRequest, At, Goto, Free,
      Threads, DataOK, FlagsOK
  <1>34. ASSUME NEW m \in {"typec", "other"}, OtherUevent(m)
        PROVE  WaitInv'
    BY <1>34 DEF OtherUevent, Send, SocketOpen, WaitInv, NoLostPartner,
      SwitchHasUevent, LocksHeld, SwitchingPcs, ReqInv, ModeRequest, At,
      Goto, Free, Threads, DataOK, FlagsOK
  <1>35. ASSUME NEW t \in Threads, QueryLock(t)  PROVE WaitInv'
    BY <1>35 DEF QueryLock, SocketOpen, WaitInv, NoLostPartner,
      SwitchHasUevent, LocksHeld, SwitchingPcs, ReqInv, ModeRequest, At,
      Goto, Free, Threads, DataOK, FlagsOK
  <1>36. ASSUME NEW t \in Threads, FillStatus(t)  PROVE WaitInv'
    BY <1>36 DEF FillStatus, WaitInv, NoLostPartner, SwitchHasUevent,
      LocksHeld, SwitchingPcs, ReqInv, ModeRequest, At, Goto, Free,
      Threads, DataOK, FlagsOK
  <1>37. ASSUME NEW t \in Threads, ReportStatus(t)  PROVE WaitInv'
    BY <1>37 DEF ReportStatus, AfterQuery, WaitInv, NoLostPartner,
      SwitchHasUevent, LocksHeld, SwitchingPcs, ReqInv, ModeRequest, At,
      Goto, Free, Threads, DataOK, FlagsOK
  <1>38. CASE UNCHANGED vars
    BY <1>38 DEF vars, WaitInv, NoLostPartner, SwitchHasUevent, LocksHeld,
      SwitchingPcs, ReqInv, ModeRequest, At, Goto, Free, Threads, DataOK,
      FlagsOK
  <1>39. QED
    BY <1>1, <1>2, <1>3, <1>4, <1>5, <1>6, <1>7, <1>8, <1>9, <1>10, <1>11,
      <1>12, <1>13, <1>14, <1>15, <1>16, <1>17, <1>18, <1>19, <1>20,
      <1>21, <1>22, <1>23, <1>24, <1>25, <1>26, <1>27, <1>28, <1>29,
      <1>30, <1>31, <1>32, <1>33, <1>34, <1>35, <1>36, <1>37, <1>38 DEF
      Next, Serve, SwitchRole, Work, Monitor, Kernel, Query, Threads

(* The worker is created with a callback and joined without one.           *)
LEMMA WorkerStep == TypeOK /\ WorkerInv /\ [Next]_vars => WorkerInv'
  <1> SUFFICES ASSUME DataOK, WorkerInv, [Next]_vars PROVE WorkerInv'
    BY DEF TypeOK
  <1>1. ASSUME NEW r \in Issued, Issue(r)  PROVE WorkerInv'
    BY <1>1 DEF Issue, FirstStep, WorkerInv, NoWorkerWithoutCallback, At,
      Goto, Threads, WorkerPcs, DataOK
  <1>2. CASE SetCallbackReplace
    BY <1>2 DEF SetCallbackReplace, SameRegistration, WorkerInv,
      NoWorkerWithoutCallback, At, Goto, Threads, WorkerPcs, DataOK
  <1>3. CASE SetCallbackClear
    BY <1>3 DEF SetCallbackClear, WorkerInv, NoWorkerWithoutCallback, At,
      Goto, Threads, WorkerPcs, DataOK
  <1>4. CASE JoinWorker
    BY <1>4 DEF JoinWorker, WorkerInv, NoWorkerWithoutCallback, At, Goto,
      Threads, WorkerPcs, DataOK
  <1>5. CASE SetCallbackCreate
    BY <1>5 DEF SetCallbackCreate, WorkerInv, NoWorkerWithoutCallback, At,
      Goto, Threads, WorkerPcs, DataOK
  <1>6. CASE SwitchRoleLock
    BY <1>6 DEF SwitchRoleLock, ModeRoles, WorkerInv,
      NoWorkerWithoutCallback, At, Goto, Threads, WorkerPcs, DataOK
  <1>7. CASE LockPartner
    BY <1>7 DEF LockPartner, PartnerUpReset, WorkerInv,
      NoWorkerWithoutCallback, At, Goto, Threads, WorkerPcs, DataOK
  <1>8. CASE WritePortType
    BY <1>8 DEF WritePortType, ModeRoles, WorkerInv,
      NoWorkerWithoutCallback, At, Goto, Threads, WorkerPcs, DataOK
  <1>9. CASE WaitPartner
    BY <1>9 DEF WaitPartner, WorkerInv, NoWorkerWithoutCallback, At, Goto,
      Threads, WorkerPcs, DataOK
  <1>10. CASE WakeSignalled
    BY <1>10 DEF WakeSignalled, WorkerInv, NoWorkerWithoutCallback, At,
      Goto, Threads, WorkerPcs, DataOK
  <1>11. CASE WakeTimeout
    BY <1>11 DEF WakeTimeout, WorkerInv, NoWorkerWithoutCallback, At,
      Goto, Threads, WorkerPcs, DataOK
  <1>12. CASE WakeSpurious
    BY <1>12 DEF WakeSpurious, WorkerInv, NoWorkerWithoutCallback, At,
      Goto, Threads, WorkerPcs, DataOK
  <1>13. CASE Relock
    BY <1>13 DEF Relock, Relocked, WorkerInv, NoWorkerWithoutCallback, At,
      Goto, Threads, WorkerPcs, DataOK
  <1>14. CASE SwitchModeFailed
    BY <1>14 DEF SwitchModeFailed, SwitchToDrp, WorkerInv,
      NoWorkerWithoutCallback, At, Goto, Threads, WorkerPcs, DataOK
  <1>15. CASE NotifyRoleSwitchStatus
    BY <1>15 DEF NotifyRoleSwitchStatus, RoleUnlock, WorkerInv,
      NoWorkerWithoutCallback, At, Goto, Threads, WorkerPcs, DataOK
  <1>16. CASE EnableUsbData
    BY <1>16 DEF EnableUsbData, WorkerInv, NoWorkerWithoutCallback, At,
      Goto, Threads, WorkerPcs, DataOK
  <1>17. CASE EnableContaminantPresenceDetection
    BY <1>17 DEF EnableContaminantPresenceDetection, WorkerInv,
      NoWorkerWithoutCallback, At, Goto, Threads, WorkerPcs, DataOK
  <1>18. CASE WriteOtherNode
    BY <1>18 DEF WriteOtherNode, WorkerInv, NoWorkerWithoutCallback, At,
      Goto, Threads, WorkerPcs, DataOK
  <1>19. CASE NotifyResult
    BY <1>19 DEF NotifyResult, AfterNotify, WorkerInv,
      NoWorkerWithoutCallback, At, Goto, Threads, WorkerPcs, DataOK
  <1>20. CASE LimitPowerTransfer
    BY <1>20 DEF LimitPowerTransfer, WorkerInv, NoWorkerWithoutCallback,
      At, Goto, Threads, WorkerPcs, DataOK
  <1>21. CASE NotifyQueryPortStatus
    BY <1>21 DEF NotifyQueryPortStatus, WorkerInv,
      NoWorkerWithoutCallback, At, Goto, Threads, WorkerPcs, DataOK
  <1>22. CASE WorkStart
    BY <1>22 DEF WorkStart, WorkerInv, NoWorkerWithoutCallback, At, Goto,
      Threads, WorkerPcs, DataOK
  <1>23. CASE WorkCheck
    BY <1>23 DEF WorkCheck, WorkExit, WorkerInv, NoWorkerWithoutCallback,
      At, Goto, Threads, WorkerPcs, DataOK
  <1>24. CASE WorkEnterWait
    BY <1>24 DEF WorkEnterWait, WorkerInv, NoWorkerWithoutCallback, At,
      Goto, Threads, WorkerPcs, DataOK
  <1>25. CASE WorkWake
    BY <1>25 DEF WorkWake, WorkExit, AfterUevent, WorkerInv,
      NoWorkerWithoutCallback, At, Goto, Threads, WorkerPcs, DataOK
  <1>26. CASE PartnerAdded
    BY <1>26 DEF PartnerAdded, PartnerLockFree, WorkerInv,
      NoWorkerWithoutCallback, At, Goto, Threads, WorkerPcs, DataOK
  <1>27. CASE TryRoleSwitchLock
    BY <1>27 DEF TryRoleSwitchLock, RoleSwitchTryLock, WorkerInv,
      NoWorkerWithoutCallback, At, Goto, Threads, WorkerPcs, DataOK
  <1>28. CASE OpenPartner
    BY <1>28 DEF OpenPartner, PartnerDirExists, WorkerInv,
      NoWorkerWithoutCallback, At, Goto, Threads, WorkerPcs, DataOK
  <1>29. CASE DisconnectedToDrp
    BY <1>29 DEF DisconnectedToDrp, SwitchToDrp, WorkerInv,
      NoWorkerWithoutCallback, At, Goto, Threads, WorkerPcs, DataOK
  <1>30. CASE SigDeliver
    BY <1>30 DEF SigDeliver, WorkerInv, NoWorkerWithoutCallback, At, Goto,
      Threads, WorkerPcs, DataOK
  <1>31. CASE UpdatePortStatus
    BY <1>31 DEF UpdatePortStatus, WorkerInv, NoWorkerWithoutCallback, At,
      Goto, Threads, WorkerPcs, DataOK
  <1>32. CASE PartnerAttach
    BY <1>32 DEF PartnerAttach, WorkerInv, NoWorkerWithoutCallback, At,
      Goto, Threads, WorkerPcs, DataOK
  <1>33. CASE PartnerDetach
    BY <1>33 DEF PartnerDetach, WorkerInv, NoWorkerWithoutCallback, At,
      Goto, Threads, WorkerPcs, DataOK
  <1>34. ASSUME NEW m \in {"typec", "other"}, OtherUevent(m)
        PROVE  WorkerInv'
    BY <1>34 DEF OtherUevent, Send, SocketOpen, WorkerInv,
      NoWorkerWithoutCallback, At, Goto, Threads, WorkerPcs, DataOK
  <1>35. ASSUME NEW t \in Threads, QueryLock(t)  PROVE WorkerInv'
    BY <1>35 DEF QueryLock, SocketOpen, WorkerInv,
      NoWorkerWithoutCallback, At, Goto, Threads, WorkerPcs, DataOK
  <1>36. ASSUME NEW t \in Threads, FillStatus(t)  PROVE WorkerInv'
    BY <1>36 DEF FillStatus, WorkerInv, NoWorkerWithoutCallback, At, Goto,
      Threads, WorkerPcs, DataOK
  <1>37. ASSUME NEW t \in Threads, ReportStatus(t)  PROVE WorkerInv'
    BY <1>37 DEF ReportStatus, AfterQuery, WorkerInv,
      NoWorkerWithoutCallback, At, Goto, Threads, WorkerPcs, DataOK
  <1>38. CASE UNCHANGED vars
    BY <1>38 DEF vars, WorkerInv, NoWorkerWithoutCallback, At, Goto,
      Threads, WorkerPcs, DataOK
  <1>39. QED
    BY <1>1, <1>2, <1>3, <1>4, <1>5, <1>6, <1>7, <1>8, <1>9, <1>10, <1>11,
      <1>12, <1>13, <1>14, <1>15, <1>16, <1>17, <1>18, <1>19, <1>20,
      <1>21, <1>22, <1>23, <1>24, <1>25, <1>26, <1>27, <1>28, <1>29,
      <1>30, <1>31, <1>32, <1>33, <1>34, <1>35, <1>36, <1>37, <1>38 DEF
      Next, Serve, SwitchRole, Work, Monitor, Kernel, Query, Threads

(* A failed mode switch leaves the port in DRP.                            *)
LEMMA DrpStep ==
    TypeOK /\ ReqInv /\ WaitInv /\ FailedSwitchIsDrp /\ [Next]_vars
        => FailedSwitchIsDrp'
  <1> SUFFICES ASSUME DataOK, FlagsOK, ReqInv, WaitInv, FailedSwitchIsDrp,
                      [Next]_vars
               PROVE  FailedSwitchIsDrp'
    BY DEF TypeOK
  <1>1. ASSUME NEW r \in Issued, Issue(r)  PROVE FailedSwitchIsDrp'
    BY <1>1 DEF Issue, FirstStep, FailedSwitchIsDrp, WaitInv, ReqInv,
      SwitchingPcs, ModeRequest, At, Goto, Threads, DataOK, FlagsOK
  <1>2. CASE SetCallbackReplace
    BY <1>2 DEF SetCallbackReplace, FailedSwitchIsDrp, WaitInv, ReqInv,
      SwitchingPcs, ModeRequest, At, Goto, Threads, DataOK, FlagsOK
  <1>3. CASE SetCallbackClear
    BY <1>3 DEF SetCallbackClear, FailedSwitchIsDrp, WaitInv, ReqInv,
      SwitchingPcs, ModeRequest, At, Goto, Threads, DataOK, FlagsOK
  <1>4. CASE JoinWorker
    BY <1>4 DEF JoinWorker, FailedSwitchIsDrp, WaitInv, ReqInv,
      SwitchingPcs, ModeRequest, At, Goto, Threads, DataOK, FlagsOK
  <1>5. CASE SetCallbackCreate
    BY <1>5 DEF SetCallbackCreate, FailedSwitchIsDrp, WaitInv, ReqInv,
      SwitchingPcs, ModeRequest, At, Goto, Threads, DataOK, FlagsOK
  <1>6. CASE SwitchRoleLock
    BY <1>6 DEF SwitchRoleLock, ModeRoles, FailedSwitchIsDrp, WaitInv,
      ReqInv, SwitchingPcs, ModeRequest, At, Goto, Threads, DataOK,
      FlagsOK
  <1>7. CASE LockPartner
    BY <1>7 DEF LockPartner, PartnerUpReset, FailedSwitchIsDrp, WaitInv,
      ReqInv, SwitchingPcs, ModeRequest, At, Goto, Threads, DataOK,
      FlagsOK
  <1>8. CASE WritePortType
    BY <1>8 DEF WritePortType, ModeRoles, FailedSwitchIsDrp, WaitInv,
      ReqInv, SwitchingPcs, ModeRequest, At, Goto, Threads, DataOK,
      FlagsOK
  <1>9. CASE WaitPartner
    BY <1>9 DEF WaitPartner, FailedSwitchIsDrp, WaitInv, ReqInv,
      SwitchingPcs, ModeRequest, At, Goto, Threads, DataOK, FlagsOK
  <1>10. CASE WakeSignalled
    BY <1>10 DEF WakeSignalled, FailedSwitchIsDrp, WaitInv, ReqInv,
      SwitchingPcs, ModeRequest, At, Goto, Threads, DataOK, FlagsOK
  <1>11. CASE WakeTimeout
    BY <1>11 DEF WakeTimeout, FailedSwitchIsDrp, WaitInv, ReqInv,
      SwitchingPcs, ModeRequest, At, Goto, Threads, DataOK, FlagsOK
  <1>12. CASE WakeSpurious
    BY <1>12 DEF WakeSpurious, FailedSwitchIsDrp, WaitInv, ReqInv,
      SwitchingPcs, ModeRequest, At, Goto, Threads, DataOK, FlagsOK
  <1>13. CASE Relock
    BY <1>13 DEF Relock, Relocked, FailedSwitchIsDrp, WaitInv, ReqInv,
      SwitchingPcs, ModeRequest, At, Goto, Threads, DataOK, FlagsOK
  <1>14. CASE SwitchModeFailed
    BY <1>14 DEF SwitchModeFailed, SwitchToDrp, FailedSwitchIsDrp,
      WaitInv, ReqInv, SwitchingPcs, ModeRequest, At, Goto, Threads,
      DataOK, FlagsOK
  <1>15. CASE NotifyRoleSwitchStatus
    BY <1>15 DEF NotifyRoleSwitchStatus, RoleUnlock, FailedSwitchIsDrp,
      WaitInv, ReqInv, SwitchingPcs, ModeRequest, At, Goto, Threads,
      DataOK, FlagsOK
  <1>16. CASE EnableUsbData
    BY <1>16 DEF EnableUsbData, FailedSwitchIsDrp, WaitInv, ReqInv,
      SwitchingPcs, ModeRequest, At, Goto, Threads, DataOK, FlagsOK
  <1>17. CASE EnableContaminantPresenceDetection
    BY <1>17 DEF EnableContaminantPresenceDetection, FailedSwitchIsDrp,
      WaitInv, ReqInv, SwitchingPcs, ModeRequest, At, Goto, Threads,
      DataOK, FlagsOK
  <1>18. CASE WriteOtherNode
    BY <1>18 DEF WriteOtherNode, FailedSwitchIsDrp, WaitInv, ReqInv,
      SwitchingPcs, ModeRequest, At, Goto, Threads, DataOK, FlagsOK
  <1>19. CASE NotifyResult
    BY <1>19 DEF NotifyResult, AfterNotify, FailedSwitchIsDrp, WaitInv,
      ReqInv, SwitchingPcs, ModeRequest, At, Goto, Threads, DataOK,
      FlagsOK
  <1>20. CASE LimitPowerTransfer
    BY <1>20 DEF LimitPowerTransfer, FailedSwitchIsDrp, WaitInv, ReqInv,
      SwitchingPcs, ModeRequest, At, Goto, Threads, DataOK, FlagsOK
  <1>21. CASE NotifyQueryPortStatus
    BY <1>21 DEF NotifyQueryPortStatus, FailedSwitchIsDrp, WaitInv,
      ReqInv, SwitchingPcs, ModeRequest, At, Goto, Threads, DataOK,
      FlagsOK
  <1>22. CASE WorkStart
    BY <1>22 DEF WorkStart, FailedSwitchIsDrp, WaitInv, ReqInv,
      SwitchingPcs, ModeRequest, At, Goto, Threads, DataOK, FlagsOK
  <1>23. CASE WorkCheck
    BY <1>23 DEF WorkCheck, WorkExit, FailedSwitchIsDrp, WaitInv, ReqInv,
      SwitchingPcs, ModeRequest, At, Goto, Threads, DataOK, FlagsOK
  <1>24. CASE WorkEnterWait
    BY <1>24 DEF WorkEnterWait, FailedSwitchIsDrp, WaitInv, ReqInv,
      SwitchingPcs, ModeRequest, At, Goto, Threads, DataOK, FlagsOK
  <1>25. CASE WorkWake
    BY <1>25 DEF WorkWake, WorkExit, AfterUevent, FailedSwitchIsDrp,
      WaitInv, ReqInv, SwitchingPcs, ModeRequest, At, Goto, Threads,
      DataOK, FlagsOK
  <1>26. CASE PartnerAdded
    BY <1>26 DEF PartnerAdded, PartnerLockFree, FailedSwitchIsDrp,
      WaitInv, ReqInv, SwitchingPcs, ModeRequest, At, Goto, Threads,
      DataOK, FlagsOK
  <1>27. CASE TryRoleSwitchLock
    BY <1>27 DEF TryRoleSwitchLock, RoleSwitchTryLock, FailedSwitchIsDrp,
      WaitInv, ReqInv, SwitchingPcs, ModeRequest, At, Goto, Threads,
      DataOK, FlagsOK
  <1>28. CASE OpenPartner
    BY <1>28 DEF OpenPartner, PartnerDirExists, FailedSwitchIsDrp,
      WaitInv, ReqInv, SwitchingPcs, ModeRequest, At, Goto, Threads,
      DataOK, FlagsOK
  <1>29. CASE DisconnectedToDrp
    BY <1>29 DEF DisconnectedToDrp, SwitchToDrp, FailedSwitchIsDrp,
      WaitInv, ReqInv, SwitchingPcs, ModeRequest, At, Goto, Threads,
      DataOK, FlagsOK
  <1>30. CASE SigDeliver
    BY <1>30 DEF SigDeliver, FailedSwitchIsDrp, WaitInv, ReqInv,
      SwitchingPcs, ModeRequest, At, Goto, Threads, DataOK, FlagsOK
  <1>31. CASE UpdatePortStatus
    BY <1>31 DEF UpdatePortStatus, FailedSwitchIsDrp, WaitInv, ReqInv,
      SwitchingPcs, ModeRequest, At, Goto, Threads, DataOK, FlagsOK
  <1>32. CASE PartnerAttach
    BY <1>32 DEF PartnerAttach, FailedSwitchIsDrp, WaitInv, ReqInv,
      SwitchingPcs, ModeRequest, At, Goto, Threads, DataOK, FlagsOK
  <1>33. CASE PartnerDetach
    BY <1>33 DEF PartnerDetach, FailedSwitchIsDrp, WaitInv, ReqInv,
      SwitchingPcs, ModeRequest, At, Goto, Threads, DataOK, FlagsOK
  <1>34. ASSUME NEW m \in {"typec", "other"}, OtherUevent(m)
        PROVE  FailedSwitchIsDrp'
    BY <1>34 DEF OtherUevent, Send, SocketOpen, FailedSwitchIsDrp,
      WaitInv, ReqInv, SwitchingPcs, ModeRequest, At, Goto, Threads,
      DataOK, FlagsOK
  <1>35. ASSUME NEW t \in Threads, QueryLock(t)  PROVE FailedSwitchIsDrp'
    BY <1>35 DEF QueryLock, SocketOpen, FailedSwitchIsDrp, WaitInv,
      ReqInv, SwitchingPcs, ModeRequest, At, Goto, Threads, DataOK,
      FlagsOK
  <1>36. ASSUME NEW t \in Threads, FillStatus(t)  PROVE FailedSwitchIsDrp'
    BY <1>36 DEF FillStatus, FailedSwitchIsDrp, WaitInv, ReqInv,
      SwitchingPcs, ModeRequest, At, Goto, Threads, DataOK, FlagsOK
  <1>37. ASSUME NEW t \in Threads, ReportStatus(t)  PROVE FailedSwitchIsDrp'
    BY <1>37 DEF ReportStatus, AfterQuery, FailedSwitchIsDrp, WaitInv,
      ReqInv, SwitchingPcs, ModeRequest, At, Goto, Threads, DataOK,
      FlagsOK
  <1>38. CASE UNCHANGED vars
    BY <1>38 DEF vars, FailedSwitchIsDrp, WaitInv, ReqInv, SwitchingPcs,
      ModeRequest, At, Goto, Threads, DataOK, FlagsOK
  <1>39. QED
    BY <1>1, <1>2, <1>3, <1>4, <1>5, <1>6, <1>7, <1>8, <1>9, <1>10, <1>11,
      <1>12, <1>13, <1>14, <1>15, <1>16, <1>17, <1>18, <1>19, <1>20,
      <1>21, <1>22, <1>23, <1>24, <1>25, <1>26, <1>27, <1>28, <1>29,
      <1>30, <1>31, <1>32, <1>33, <1>34, <1>35, <1>36, <1>37, <1>38 DEF
      Next, Serve, SwitchRole, Work, Monitor, Kernel, Query, Threads

(* The status that was notified, or is being read, stays current.          *)
LEMMA StatusStep ==
    TypeOK /\ LocksHeld /\ StatusInv /\ [Next]_vars => StatusInv'
  <1> SUFFICES ASSUME DataOK, FlagsOK, LocksHeld, StatusInv, [Next]_vars
               PROVE  StatusInv'
    BY DEF TypeOK
  <1>1. ASSUME NEW r \in Issued, Issue(r)  PROVE StatusInv'
    BY <1>1 DEF Issue, FirstStep, StatusInv, Pending, Holding, RealStatus,
      LocksHeld, At, Goto, Free, Threads, DataOK, FlagsOK
  <1>2. CASE SetCallbackReplace
    BY <1>2 DEF SetCallbackReplace, SameRegistration, StatusInv, Pending,
      Holding, RealStatus, LocksHeld, At, Goto, Free, Threads, DataOK,
      FlagsOK
  <1>3. CASE SetCallbackClear
    BY <1>3 DEF SetCallbackClear, StatusInv, Pending, Holding, RealStatus,
      LocksHeld, At, Goto, Free, Threads, DataOK, FlagsOK
  <1>4. CASE JoinWorker
    BY <1>4 DEF JoinWorker, StatusInv, Pending, Holding, RealStatus,
      LocksHeld, At, Goto, Free, Threads, DataOK, FlagsOK
  <1>5. CASE SetCallbackCreate
    BY <1>5 DEF SetCallbackCreate, StatusInv, Pending, Holding,
      RealStatus, LocksHeld, At, Goto, Free, Threads, DataOK, FlagsOK
  <1>6. CASE SwitchRoleLock
    BY <1>6 DEF SwitchRoleLock, ModeRoles, StatusInv, Pending, Holding,
      RealStatus, LocksHeld, At, Goto, Free, Threads, DataOK, FlagsOK
  <1>7. CASE LockPartner
    BY <1>7 DEF LockPartner, PartnerUpReset, StatusInv, Pending, Holding,
      RealStatus, LocksHeld, At, Goto, Free, Threads, DataOK, FlagsOK
  <1>8. CASE WritePortType
    BY <1>8 DEF WritePortType, ModeRoles, StatusInv, Pending, Holding,
      RealStatus, LocksHeld, At, Goto, Free, Threads, DataOK, FlagsOK
  <1>9. CASE WaitPartner
    BY <1>9 DEF WaitPartner, StatusInv, Pending, Holding, RealStatus,
      LocksHeld, At, Goto, Free, Threads, DataOK, FlagsOK
  <1>10. CASE WakeSignalled
    BY <1>10 DEF WakeSignalled, StatusInv, Pending, Holding, RealStatus,
      LocksHeld, At, Goto, Free, Threads, DataOK, FlagsOK
  <1>11. CASE WakeTimeout
    BY <1>11 DEF WakeTimeout, StatusInv, Pending, Holding, RealStatus,
      LocksHeld, At, Goto, Free, Threads, DataOK, FlagsOK
  <1>12. CASE WakeSpurious
    BY <1>12 DEF WakeSpurious, StatusInv, Pending, Holding, RealStatus,
      LocksHeld, At, Goto, Free, Threads, DataOK, FlagsOK
  <1>13. CASE Relock
    BY <1>13 DEF Relock, Relocked, StatusInv, Pending, Holding,
      RealStatus, LocksHeld, At, Goto, Free, Threads, DataOK, FlagsOK
  <1>14. CASE SwitchModeFailed
    BY <1>14 DEF SwitchModeFailed, SwitchToDrp, StatusInv, Pending,
      Holding, RealStatus, LocksHeld, At, Goto, Free, Threads, DataOK,
      FlagsOK
  <1>15. CASE NotifyRoleSwitchStatus
    BY <1>15 DEF NotifyRoleSwitchStatus, RoleUnlock, StatusInv, Pending,
      Holding, RealStatus, LocksHeld, At, Goto, Free, Threads, DataOK,
      FlagsOK
  <1>16. CASE EnableUsbData
    BY <1>16 DEF EnableUsbData, StatusInv, Pending, Holding, RealStatus,
      LocksHeld, At, Goto, Free, Threads, DataOK, FlagsOK
  <1>17. CASE EnableContaminantPresenceDetection
    BY <1>17 DEF EnableContaminantPresenceDetection, StatusInv, Pending,
      Holding, RealStatus, LocksHeld, At, Goto, Free, Threads, DataOK,
      FlagsOK
  <1>18. CASE WriteOtherNode
    BY <1>18 DEF WriteOtherNode, StatusInv, Pending, Holding, RealStatus,
      LocksHeld, At, Goto, Free, Threads, DataOK, FlagsOK
  <1>19. CASE NotifyResult
    BY <1>19 DEF NotifyResult, AfterNotify, StatusInv, Pending, Holding,
      RealStatus, LocksHeld, At, Goto, Free, Threads, DataOK, FlagsOK
  <1>20. CASE LimitPowerTransfer
    BY <1>20 DEF LimitPowerTransfer, StatusInv, Pending, Holding,
      RealStatus, LocksHeld, At, Goto, Free, Threads, DataOK, FlagsOK
  <1>21. CASE NotifyQueryPortStatus
    BY <1>21 DEF NotifyQueryPortStatus, StatusInv, Pending, Holding,
      RealStatus, LocksHeld, At, Goto, Free, Threads, DataOK, FlagsOK
  <1>22. CASE WorkStart
    BY <1>22 DEF WorkStart, StatusInv, Pending, Holding, RealStatus,
      LocksHeld, At, Goto, Free, Threads, DataOK, FlagsOK
  <1>23. CASE WorkCheck
    BY <1>23 DEF WorkCheck, WorkExit, StatusInv, Pending, Holding,
      RealStatus, LocksHeld, At, Goto, Free, Threads, DataOK, FlagsOK
  <1>24. CASE WorkEnterWait
    BY <1>24 DEF WorkEnterWait, StatusInv, Pending, Holding, RealStatus,
      LocksHeld, At, Goto, Free, Threads, DataOK, FlagsOK
  <1>25. CASE WorkWake
    <2>1. CASE WorkExit
      BY <1>25, <2>1 DEF WorkExit, StatusInv
    <2>2. CASE /\ uevents # <<>> /\ uevents' = Tail(uevents)
             /\ Goto("worker", AfterUevent(Head(uevents)))
             /\ UNCHANGED synced
      <3>1. /\ Head(uevents) = uevents[1] /\ Head(uevents) \in Messages
            /\ Len(uevents) \in Nat /\ Len(Tail(uevents)) = Len(uevents) - 1
            /\ \A i \in 1..Len(Tail(uevents)) : Tail(uevents)[i] = uevents[i + 1]
        BY <2>2, HeadTailProperties, LenProperties DEF DataOK
      <3>2. CASE Head(uevents) = "other"
        <4>1. pc' = [pc EXCEPT !["worker"] = "check"] /\ pc["worker"] = "poll"
          BY <1>25, <2>2, <3>2 DEF WorkWake, AfterUevent, At, Goto
        <4>2. pc'["worker"] = "check" /\ pc'["binder"] = pc["binder"]
              /\ pc'["monitor"] = pc["monitor"]
          BY <4>1 DEF DataOK, Threads
        <4>3. UNCHANGED <<req, seen, reported, mCallback, settings, partner>>
          BY <1>25 DEF WorkWake
        <4>4. Pending => Pending'
          <5>1. ASSUME NEW i \in 1..Len(uevents), uevents[i] \in {"add", "typec"}
                PROVE  Pending'
            <6>1. i - 1 \in 1..Len(Tail(uevents)) /\ Tail(uevents)[i - 1] = uevents[i]
              BY <3>1, <3>2, <5>1
            <6>2. QED
              BY <2>2, <5>1, <6>1 DEF Pending
          <5>2. QED
            BY <4>1, <4>2, <4>3, <5>1 DEF Pending, At
        <4>5. QED
          BY <2>2, <4>1, <4>2, <4>3, <4>4
            DEF StatusInv, Holding, RealStatus, At, Threads
      <3>3. CASE Head(uevents) \in {"add", "typec"}
        <4>1. \/ pc' = [pc EXCEPT !["worker"] = "add"]
              \/ pc' = [pc EXCEPT !["worker"] = "query"]
          BY <2>2, <3>3 DEF AfterUevent, Goto
        <4>2. Pending'
          BY <4>1 DEF Pending, DataOK, Threads
        <4>3. QED
          BY <4>2 DEF StatusInv
      <3>4. QED
        BY <3>1, <3>2, <3>3 DEF Messages
    <2>3. QED
      BY <1>25, <2>1, <2>2 DEF WorkWake
  <1>26. CASE PartnerAdded
    BY <1>26 DEF PartnerAdded, PartnerLockFree, StatusInv, Pending,
      Holding, RealStatus, LocksHeld, At, Goto, Free, Threads, DataOK,
      FlagsOK
  <1>27. CASE TryRoleSwitchLock
    BY <1>27 DEF TryRoleSwitchLock, RoleSwitchTryLock, StatusInv, Pending,
      Holding, RealStatus, LocksHeld, At, Goto, Free, Threads, DataOK,
      FlagsOK
  <1>28. CASE OpenPartner
    BY <1>28 DEF OpenPartner, PartnerDirExists, StatusInv, Pending,
      Holding, RealStatus, LocksHeld, At, Goto, Free, Threads, DataOK,
      FlagsOK
  <1>29. CASE DisconnectedToDrp
    BY <1>29 DEF DisconnectedToDrp, SwitchToDrp, StatusInv, Pending,
      Holding, RealStatus, LocksHeld, At, Goto, Free, Threads, DataOK,
      FlagsOK
  <1>30. CASE SigDeliver
    BY <1>30 DEF SigDeliver, StatusInv, Pending, Holding, RealStatus,
      LocksHeld, At, Goto, Free, Threads, DataOK, FlagsOK
  <1>31. CASE UpdatePortStatus
    BY <1>31 DEF UpdatePortStatus, StatusInv, Pending, Holding,
      RealStatus, LocksHeld, At, Goto, Free, Threads, DataOK, FlagsOK
  <1>32. CASE PartnerAttach
    <2>1. CASE SocketOpen /\ Len(uevents) < MaxQueue
      <3>1. uevents' = Append(uevents, "add") /\ Len(uevents) \in Nat
        BY <1>32, <2>1, LenProperties DEF PartnerAttach, Send, DataOK
      <3>2. /\ Len(uevents') = Len(uevents) + 1
            /\ uevents'[Len(uevents) + 1] = "add"
        BY <3>1, AppendProperties DEF DataOK, Messages
      <3>3. Pending'
        BY <3>1, <3>2 DEF Pending
      <3>4. QED
        BY <3>3 DEF StatusInv
    <2>2. CASE ~(SocketOpen /\ Len(uevents) < MaxQueue)
      BY <1>32, <2>2 DEF PartnerAttach, Send, StatusInv
    <2>3. QED
      BY <2>1, <2>2
  <1>33. CASE PartnerDetach
    <2>1. CASE SocketOpen /\ Len(uevents) < MaxQueue
      <3>1. uevents' = Append(uevents, "typec") /\ Len(uevents) \in Nat
        BY <1>33, <2>1, LenProperties DEF PartnerDetach, Send, DataOK
      <3>2. /\ Len(uevents') = Len(uevents) + 1
            /\ uevents'[Len(uevents) + 1] = "typec"
        BY <3>1, AppendProperties DEF DataOK, Messages
      <3>3. Pending'
        BY <3>1, <3>2 DEF Pending
      <3>4. QED
        BY <3>3 DEF StatusInv
    <2>2. CASE ~(SocketOpen /\ Len(uevents) < MaxQueue)
      BY <1>33, <2>2 DEF PartnerDetach, Send, StatusInv
    <2>3. QED
      BY <2>1, <2>2
  <1>34. ASSUME NEW m \in {"typec", "other"}, OtherUevent(m)
        PROVE  StatusInv'
    <2>1. CASE SocketOpen /\ Len(uevents) < MaxQueue
      <3>1. uevents' = Append(uevents, m) /\ Len(uevents) \in Nat
        BY <1>34, <2>1, LenProperties DEF OtherUevent, Send, DataOK
      <3>2. /\ Len(uevents') = Len(uevents) + 1
            /\ \A i \in 1..Len(uevents) : uevents'[i] = uevents[i]
        BY <3>1, AppendProperties DEF DataOK, Messages
      <3>3. Pending => Pending'
        BY <1>34, <3>1, <3>2 DEF OtherUevent, Pending, At
      <3>4. QED
        BY <1>34, <2>1, <3>3 DEF OtherUevent, Send, StatusInv, Holding,
          RealStatus, At, Threads
    <2>2. CASE ~(SocketOpen /\ Len(uevents) < MaxQueue)
      BY <1>34, <2>2 DEF OtherUevent, Send, StatusInv
    <2>3. QED
      BY <2>1, <2>2
  <1>35. ASSUME NEW t \in Threads, QueryLock(t)  PROVE StatusInv'
    BY <1>35 DEF QueryLock, SocketOpen, StatusInv, Pending, Holding,
      RealStatus, LocksHeld, At, Goto, Free, Threads, DataOK, FlagsOK
  <1>36. ASSUME NEW t \in Threads, FillStatus(t)  PROVE StatusInv'
    BY <1>36 DEF FillStatus, RolesReadable, PowerTransferLimited,
      ContaminantDetection, StatusInv, Pending, Holding, RealStatus,
      LocksHeld, At, Goto, Free, Threads, DataOK, FlagsOK
  <1>37. ASSUME NEW t \in Threads, ReportStatus(t)  PROVE StatusInv'
    BY <1>37 DEF ReportStatus, AfterQuery, StatusInv, Pending, Holding,
      RealStatus, LocksHeld, At, Goto, Free, Threads, DataOK, FlagsOK
  <1>38. CASE UNCHANGED vars
    BY <1>38 DEF vars, StatusInv, Pending, Holding, RealStatus, LocksHeld,
      At, Goto, Free, Threads, DataOK, FlagsOK
  <1>39. QED
    BY <1>1, <1>2, <1>3, <1>4, <1>5, <1>6, <1>7, <1>8, <1>9, <1>10, <1>11,
      <1>12, <1>13, <1>14, <1>15, <1>16, <1>17, <1>18, <1>19, <1>20,
      <1>21, <1>22, <1>23, <1>24, <1>25, <1>26, <1>27, <1>28, <1>29,
      <1>30, <1>31, <1>32, <1>33, <1>34, <1>35, <1>36, <1>37, <1>38 DEF
      Next, Serve, SwitchRole, Work, Monitor, Kernel, Query, Threads

-----------------------------------------------------------------------------
(* The invariant holds when the service starts.                            *)
LEMMA IndInvInit == Init => IndInv
  <1> SUFFICES ASSUME Init PROVE IndInv
    OBVIOUS
  <1> USE ConstantsAssumption
  <1>1. FlagsOK
    BY DEF Init, FlagsOK
  <1>2. DataOK
    BY NoUevents DEF Init, DataOK, Threads, BinderPcs, WorkerPcs, MonitorPcs,
      Requests, Status, NoStatus, Free
  <1>3. ReqInv /\ LocksHeld /\ WaitInv /\ WorkerInv /\ FailedSwitchIsDrp
    BY DEF Init, ReqInv, LocksHeld, WaitInv, WorkerInv, NoLostPartner,
      SwitchHasUevent, NoWorkerWithoutCallback, FailedSwitchIsDrp, Switching,
      SwitchingPcs, At, Threads, Free
  <1>4. StatusInv
    BY DEF Init, StatusInv
  <1>5. QED
    BY <1>1, <1>2, <1>3, <1>4 DEF IndInv, TypeOK

(* Every step keeps it.                                                    *)
LEMMA IndInvStep == IndInv /\ [Next]_vars => IndInv'
  BY FlagsStep, DataStep, ReqStep, LocksStep, WaitStep, WorkerStep,
     StatusStep, DrpStep DEF IndInv, TypeOK

(* Hence it holds always.                                                  *)
THEOREM Invariance == Spec => []IndInv
  BY IndInvInit, IndInvStep, PTL DEF Spec

(* Every variable keeps its type, in every instance.                       *)
THEOREM TypeCorrect == Spec => []TypeOK
  <1>1. IndInv => TypeOK
    BY DEF IndInv
  <1>2. QED
    BY <1>1, Invariance, PTL

(* The worker never returns the port to DRP in the middle of switchRole(). *)
THEOREM RoleSwitchExclusive == Spec => []NoDrpDuringSwitch
  <1>1. IndInv => NoDrpDuringSwitch
    BY DEF IndInv, LocksHeld, NoDrpDuringSwitch
  <1>2. QED
    BY <1>1, Invariance, PTL

(* A partner uevent is never lost between the write of port_type and the   *)
(* wait of switchMode(): who waits with mPartnerUp set has been signalled. *)
THEOREM PartnerNotLost == Spec => []NoLostPartner
  <1>1. IndInv => NoLostPartner
    BY DEF IndInv, WaitInv
  <1>2. QED
    BY <1>1, Invariance, PTL

(* A mode switch that is reported as done is due to a partner uevent that  *)
(* was handled after port_type was written, spurious wake-ups included.    *)
THEOREM SwitchDueToUevent == Spec => []SwitchHasUevent
  <1>1. IndInv => SwitchHasUevent
    BY DEF IndInv, WaitInv
  <1>2. QED
    BY <1>1, Invariance, PTL

(* When setCallback(NULL) has returned there is no uevent thread.          *)
THEOREM WorkerNeedsCallback == Spec => []NoWorkerWithoutCallback
  <1>1. IndInv => NoWorkerWithoutCallback
    BY DEF IndInv, WorkerInv
  <1>2. QED
    BY <1>1, Invariance, PTL

(* A mode switch that is reported as failed has left the port in DRP.      *)
THEOREM FailedSwitchRecovers == Spec => []FailedSwitchIsDrp
  <1>1. IndInv => FailedSwitchIsDrp
    BY DEF IndInv
  <1>2. QED
    BY <1>1, Invariance, PTL

(* The status last notified to the framework is the port's real status     *)
(* whenever no uevent and no query is on its way.                          *)
THEOREM FrameworkIsCurrent == Spec => []ReportedStatusCurrent
  <1>1. IndInv => ReportedStatusCurrent
    <2> SUFFICES ASSUME IndInv, Quiet PROVE reported = RealStatus
      BY DEF ReportedStatusCurrent, RealStatus
    <2>1. Len(uevents) = 0
      BY DEF Quiet
    <2>2. ~Pending
      BY <2>1 DEF Pending, Quiet, At
    <2>3. \A t \in Threads : ~Holding(t)
      BY DEF Quiet, Holding, Threads
    <2>4. QED
      BY <2>2, <2>3 DEF IndInv, StatusInv, Quiet
  <1>2. QED
    BY <1>1, Invariance, PTL

=============================================================================
