------------------------------- MODULE UsbHal -------------------------------
(***************************************************************************)
(* The threads of the USB HAL service (usb/usb/Usb.cpp) and what they      *)
(* share:                                                                  *)
(*                                                                         *)
(*   "binder"   the one binder thread (service.cpp sets the pool maximum   *)
(*              to 0 and joins it), which serves the IUsb requests;        *)
(*   "worker"   the uevent thread work(), which setCallback() creates and  *)
(*              destroys;                                                  *)
(*   "monitor"  the UsbDataSessionMonitor thread, which enters this code   *)
(*              through updatePortStatus() only.                           *)
(*                                                                         *)
(* pc[t] is the place in the code thread t executes next.  A step ends     *)
(* where another thread or the kernel can see or change what it uses: at a *)
(* lock, an unlock, a wait, a sysfs access or a system call.  One Type-C   *)
(* port is modelled (the device has one, port0).                           *)
(***************************************************************************)
EXTENDS Naturals, Sequences

CONSTANTS
    Callbacks,    \* IUsbCallback objects the framework may register
    NULL,         \* no callback
    Issued,       \* the requests the framework issues in this instance
    SysfsFaults,  \* may a sysfs write fail or be refused by the kernel?
    ThreadFaults, \* may pthread_create, the uevent socket or epoll fail?
    MaxEvents,    \* bound on the events of the kernel and of the monitor
    MaxQueue      \* uevents the socket buffer holds, the others are dropped

Threads == {"binder", "worker", "monitor"}
Free    == "free"

(* The requests of IUsb that reach the HAL.  A mode role is named by the   *)
(* string convertRoletoString() writes to port_type for it.                *)
(* "none" stands for every mode but UFP and DFP, the kernel refuses it.    *)
ModeRoles == {"sink", "source", "none"}
Requests ==
    [op : {"setCallback"}, arg : Callbacks \cup {NULL}]
      \cup [op : {"switchRole"}, arg : ModeRoles \cup {"data", "power"}]
      \cup [op : {"enableUsbData", "limitPowerTransfer",
                  "enableContaminantPresenceDetection"},
            arg : {"enable", "disable"}]
      \cup [op : {"enableUsbDataWhileDocked", "resetUsbPort",
                  "queryPortStatus"}, arg : {NULL}]

ASSUME ConstantsAssumption ==
    /\ NULL \notin Callbacks
    /\ Issued \subseteq Requests
    /\ SysfsFaults \in BOOLEAN
    /\ ThreadFaults \in BOOLEAN
    /\ MaxEvents \in Nat
    /\ MaxQueue \in Nat \ {0}

VARIABLES
    pc,              \* the next step of every thread
    req,             \* the request the binder thread serves
    result,          \* the status it will report (roleSwitch, result, success)
    timedOut,        \* pthread_cond_timedwait() returned ETIMEDOUT
    seen,            \* currentPortStatus, local to every thread
    mCallback, mLock, mRoleSwitchLock, mPartnerLock,
    mPartnerUp,
    cvSignalled,     \* mPartnerCV: the waiting binder thread was signalled
    destroyThread, sigPending,  \* SIGUSR1 sent, its handler not yet run
    mUsbDataEnabled,
    enabledPath,     \* has a query set the path of contaminant_detection?
    sinkLimit,       \* usb_limit_sink_enable is "1"
    contaminant,     \* contaminant_detection is "1"
    partner,         \* /sys/class/typec/port0-partner exists
    portType,        \* port_type, "dual" or the single role forced on the port
    uevents,         \* messages in the worker's uevent socket, oldest first
    budget,          \* events the environment may still cause
    reported,        \* the port status last notified (ghost)
    synced,          \* a query began since a uevent was last missed (ghost)
    handledSince     \* a partner uevent was handled since the write (ghost)

locks    == <<mLock, mRoleSwitchLock, mPartnerLock>>
cond     == <<mPartnerUp, cvSignalled, timedOut>>
thread   == <<mCallback, destroyThread, sigPending>>
settings == <<mUsbDataEnabled, enabledPath, sinkLimit, contaminant>>
port     == <<partner, portType, uevents>>
ghosts   == <<reported, synced, handledSince>>
vars     == <<pc, req, result, seen, locks, cond, thread, settings, port,
              budget, ghosts>>

BinderPcs  == {"idle", "setCallback", "join", "switchRole", "partnerLock",
               "write", "wait", "cvWait", "relock", "drp", "notifyRole", "body",
               "limit", "notify", "query", "fill", "report", "notifyQuery"}
WorkerPcs  == {"off", "start", "check", "enter", "poll", "add", "query",
               "fill", "report", "trylock", "opendir", "drp", "exited"}
MonitorPcs == {"idle", "query", "fill", "report"}

PortTypes  == {"dual", "sink", "source"}
Messages   == {"add", "typec", "other"}

Status == [conn : BOOLEAN, ok : BOOLEAN, data : BOOLEAN,
           limit : BOOLEAN, contam : BOOLEAN]
NoStatus == [conn |-> FALSE, ok |-> FALSE, data |-> FALSE,
             limit |-> FALSE, contam |-> FALSE]

Init ==
    /\ pc = [t \in Threads |-> IF t = "worker" THEN "off" ELSE "idle"]
    /\ req = [op |-> "queryPortStatus", arg |-> NULL]
    /\ result = FALSE /\ timedOut = FALSE
    /\ seen = [t \in Threads |-> NoStatus]
    /\ mCallback = NULL
    /\ mLock = Free /\ mRoleSwitchLock = Free /\ mPartnerLock = Free
    /\ mPartnerUp = FALSE /\ cvSignalled = FALSE
    /\ destroyThread = FALSE /\ sigPending = FALSE
    /\ mUsbDataEnabled = TRUE /\ enabledPath = FALSE
    \* the kernel's side is as an earlier run of the service left it
    /\ sinkLimit \in BOOLEAN /\ contaminant \in BOOLEAN
    /\ partner \in BOOLEAN /\ portType \in PortTypes /\ uevents = <<>>
    /\ budget = MaxEvents
    /\ reported = NoStatus /\ synced = FALSE
    /\ handledSince = FALSE

Goto(t, l)  == pc' = [pc EXCEPT ![t] = l]
At(t, l)    == pc[t] = l
(* The outcomes of a sysfs write: done, and refused where faults happen.   *)
WriteOk     == IF SysfsFaults THEN BOOLEAN ELSE {TRUE}
(* work() has its uevent socket open.                                      *)
SocketOpen  == pc["worker"] \notin {"off", "start", "exited"}

-----------------------------------------------------------------------------
(* queryVersionHelper(): the port status is read and notified under mLock. *)

QueryLock(t) ==
    /\ At(t, "query") /\ mLock = Free
    /\ mLock' = t
    \* getTypeCPortNamesHelper(): is there a "-partner" link?
    /\ seen' = [seen EXCEPT ![t] = [NoStatus EXCEPT !.conn = partner]]
    /\ synced' = (synced \/ (SocketOpen /\ mCallback # NULL))
    /\ Goto(t, "fill")
    /\ UNCHANGED <<req, result, mRoleSwitchLock, mPartnerLock, cond, thread,
                   settings, port, budget, reported, handledSince>>

(* getCurrentRoleHelper(): a port without partner has no roles; of a       *)
(* partner that went away since its link was found, accessory_mode cannot  *)
(* be read.                                                                *)
RolesReadable(t) == seen[t].conn => partner
(* queryPowerTransferStatus() and queryMoistureDetectionStatus().          *)
PowerTransferLimited == sinkLimit
ContaminantDetection == contaminant

(* getPortStatusHelper() stops with ERROR at roles it cannot read, before  *)
(* it fills in usbDataStatus; the other nodes are read all the same.       *)
FillStatus(t) ==
    /\ At(t, "fill")
    /\ seen' = [seen EXCEPT ![t] =
                  [conn   |-> seen[t].conn,
                   ok     |-> RolesReadable(t),
                   data   |-> RolesReadable(t) /\ mUsbDataEnabled,
                   limit  |-> PowerTransferLimited,
                   contam |-> ContaminantDetection]]
    /\ enabledPath' = TRUE
    /\ Goto(t, "report")
    /\ UNCHANGED <<req, result, locks, cond, thread, mUsbDataEnabled,
                   sinkLimit, contaminant, port, budget, ghosts>>

M_AfterQuery(t) == "idle"
AfterQuery(t) == CASE t = "worker"  -> "trylock"
                   [] t = "monitor" -> "idle"
                   [] t = "binder"  -> IF req.op = "queryPortStatus"
                                       THEN "notifyQuery" ELSE "idle"

(* notifyPortStatusChange() is called before mLock is released.            *)
ReportStatus(t) ==
    /\ At(t, "report")
    /\ mLock' = Free
    /\ reported' = IF mCallback # NULL THEN seen[t] ELSE reported
    /\ seen' = [seen EXCEPT ![t] = NoStatus]
    /\ Goto(t, AfterQuery(t))
    /\ UNCHANGED <<req, result, mRoleSwitchLock, mPartnerLock, cond,
                   thread, settings, port, budget, synced, handledSince>>

Query(t) == QueryLock(t) \/ FillStatus(t) \/ ReportStatus(t)

-----------------------------------------------------------------------------
(* Requests of the framework, one at a time.                               *)

FirstStep(op) ==
    CASE op = "setCallback"        -> "setCallback"
      [] op = "switchRole"         -> "switchRole"
      [] op = "limitPowerTransfer" -> "limit"
      [] op = "queryPortStatus"    -> "query"
      [] OTHER                     -> "body"

Issue(r) ==
    /\ At("binder", "idle")
    /\ req' = r
    /\ Goto("binder", FirstStep(r.op))
    /\ UNCHANGED <<result, seen, locks, cond, thread, settings, port, budget,
                   ghosts>>

(* setCallback(): only a change between NULL and not NULL touches the      *)
(* thread.  mLock is held throughout, also while the thread is joined.     *)
M_SameRegistration == TRUE
SameRegistration == (mCallback = NULL) = (req.arg = NULL)

SetCallbackReplace ==
    /\ At("binder", "setCallback") /\ mLock = Free
    /\ SameRegistration
    /\ mCallback' = req.arg
    /\ synced' = FALSE
    /\ Goto("binder", "idle")
    /\ UNCHANGED <<req, result, seen, locks, cond, destroyThread, sigPending,
                   settings, port, budget, reported, handledSince>>

(* pthread_kill() of a thread that already ended fails or changes nothing. *)
SetCallbackClear ==
    /\ At("binder", "setCallback") /\ mLock = Free
    /\ mCallback # NULL /\ req.arg = NULL
    /\ mCallback' = NULL
    /\ mLock' = "binder"
    /\ sigPending' = (pc["worker"] # "exited")
    /\ synced' = FALSE
    /\ Goto("binder", "join")
    /\ UNCHANGED <<req, result, seen, mRoleSwitchLock, mPartnerLock, cond,
                   destroyThread, settings, port, budget, reported,
                   handledSince>>

JoinWorker ==
    /\ At("binder", "join") /\ At("worker", "exited")
    /\ mLock' = Free
    /\ sigPending' = FALSE
    /\ pc' = [pc EXCEPT !["binder"] = "idle", !["worker"] = "off"]
    /\ UNCHANGED <<req, result, seen, mRoleSwitchLock, mPartnerLock, cond,
                   mCallback, destroyThread, settings, port, budget, ghosts>>

SetCallbackCreate ==
    /\ At("binder", "setCallback") /\ mLock = Free
    /\ mCallback = NULL /\ req.arg # NULL
    /\ destroyThread' = FALSE
    /\ synced' = FALSE
    /\ \/ /\ mCallback' = req.arg
          /\ pc' = [pc EXCEPT !["binder"] = "idle", !["worker"] = "start"]
       \/ /\ ThreadFaults      \* pthread_create() failed
          /\ mCallback' = NULL
          /\ Goto("binder", "idle")
    /\ UNCHANGED <<req, result, seen, locks, cond, sigPending, settings, port,
                   budget, reported, handledSince>>

-----------------------------------------------------------------------------
(* switchRole(), with switchMode() for the mode roles.                     *)

SwitchRoleLock ==
    /\ At("binder", "switchRole") /\ mRoleSwitchLock = Free
    /\ mRoleSwitchLock' = "binder"
    /\ \/ /\ req.arg \in ModeRoles /\ result' = FALSE
          /\ \/ Goto("binder", "partnerLock")
             \/ SysfsFaults /\ Goto("binder", "drp")       \* fopen() fails
       \/ /\ req.arg \notin ModeRoles      \* written, then read back
          /\ result' \in WriteOk
          /\ Goto("binder", "notifyRole")
    /\ UNCHANGED <<req, seen, mLock, mPartnerLock, cond, thread, settings,
                   port, budget, ghosts>>

M_PartnerUpReset == mPartnerUp
PartnerUpReset == FALSE

LockPartner ==
    /\ At("binder", "partnerLock") /\ mPartnerLock = Free
    /\ mPartnerLock' = "binder"
    /\ mPartnerUp' = PartnerUpReset
    /\ timedOut' = FALSE
    /\ Goto("binder", "write")
    /\ UNCHANGED <<req, result, seen, mLock, mRoleSwitchLock, cvSignalled,
                   thread, settings, port, budget, ghosts>>

(* The stream is buffered: the kernel's refusal reaches fclose(), whose    *)
(* result is not looked at, and the code waits as if the write was done.   *)
WritePortType ==
    /\ At("binder", "write")
    /\ portType' \in {portType} \cup ({req.arg} \ {"none"})
    /\ portType' # req.arg => (SysfsFaults \/ req.arg = "none")
    /\ handledSince' = FALSE
    /\ \/ /\ Goto("binder", "wait")
          /\ UNCHANGED mPartnerLock
       \/ /\ SysfsFaults /\ portType' = portType      \* fputs() fails
          /\ mPartnerLock' = Free
          /\ Goto("binder", "drp")
    /\ UNCHANGED <<req, result, seen, mLock, mRoleSwitchLock, cond, thread,
                   settings, partner, uevents, budget, reported, synced>>

(* pthread_cond_timedwait(): the lock is released and the wait begun in    *)
(* one step; a wake-up takes the lock again before it returns.             *)
WaitPartner ==
    /\ At("binder", "wait")
    /\ mPartnerLock' = Free
    /\ cvSignalled' = FALSE
    /\ Goto("binder", "cvWait")
    /\ UNCHANGED <<req, result, seen, mLock, mRoleSwitchLock, mPartnerUp,
                   timedOut, thread, settings, port, budget, ghosts>>

WakeSignalled ==
    /\ At("binder", "cvWait") /\ cvSignalled
    /\ Goto("binder", "relock")
    /\ UNCHANGED <<req, result, seen, locks, cond, thread, settings, port,
                   budget, ghosts>>

WakeTimeout ==
    /\ At("binder", "cvWait")
    /\ timedOut' = TRUE
    /\ Goto("binder", "relock")
    /\ UNCHANGED <<req, result, seen, locks, mPartnerUp, cvSignalled, thread,
                   settings, port, budget, ghosts>>

WakeSpurious ==
    /\ At("binder", "cvWait") /\ budget > 0
    /\ budget' = budget - 1
    /\ Goto("binder", "relock")
    /\ UNCHANGED <<req, result, seen, locks, cond, thread, settings, port,
                   ghosts>>

(* wait_again restarts the deadline: timedOut stays FALSE.                 *)
M_Relocked == IF timedOut THEN "notifyRole"
              ELSE IF mPartnerUp THEN "notifyRole" ELSE "wait"
Relocked == IF timedOut THEN "drp"
            ELSE IF mPartnerUp THEN "notifyRole" ELSE "wait"

Relock ==
    /\ At("binder", "relock") /\ mPartnerLock = Free
    /\ mPartnerLock' = IF Relocked = "wait" THEN "binder" ELSE Free
    /\ result' = (~timedOut /\ mPartnerUp)
    /\ Goto("binder", Relocked)
    /\ UNCHANGED <<req, seen, mLock, mRoleSwitchLock, cond, thread, settings,
                   port, budget, ghosts>>

(* switchToDrp(): a refused write is logged and not repeated.              *)
SwitchToDrp == portType' = "dual" \/ (SysfsFaults /\ UNCHANGED portType)

SwitchModeFailed ==
    /\ At("binder", "drp")
    /\ SwitchToDrp
    /\ Goto("binder", "notifyRole")
    /\ UNCHANGED <<req, result, seen, locks, cond, thread, settings, partner,
                   uevents, budget, ghosts>>

M_RoleUnlock == mRoleSwitchLock
RoleUnlock == Free

NotifyRoleSwitchStatus ==
    /\ At("binder", "notifyRole") /\ mLock = Free
    /\ mRoleSwitchLock' = RoleUnlock
    /\ Goto("binder", "idle")
    /\ UNCHANGED <<req, result, seen, mLock, mPartnerLock, cond, thread,
                   settings, port, budget, ghosts>>

SwitchRole == \/ SwitchRoleLock \/ LockPartner \/ WritePortType \/ WaitPartner
              \/ WakeSignalled \/ WakeTimeout \/ WakeSpurious \/ Relock
              \/ SwitchModeFailed \/ NotifyRoleSwitchStatus

-----------------------------------------------------------------------------
(* The requests that write their nodes, notify their result under mLock    *)
(* and then query the port.                                                *)

Enabling == req.arg = "enable"

(* Enabling data that is enabled writes nothing and reports success.       *)
EnableUsbData ==
    /\ At("binder", "body") /\ req.op = "enableUsbData"
    /\ result' \in (IF Enabling /\ mUsbDataEnabled THEN {TRUE} ELSE WriteOk)
    /\ mUsbDataEnabled' = IF result' THEN Enabling ELSE mUsbDataEnabled
    /\ Goto("binder", "notify")
    /\ UNCHANGED <<req, seen, locks, cond, thread, enabledPath, sinkLimit,
                   contaminant, port, budget, ghosts>>

(* The path is empty until the first query; the write may also be disabled *)
(* by the property vendor.usb.contaminantdisable, which reports success.   *)
EnableContaminantPresenceDetection ==
    /\ At("binder", "body") /\ req.op = "enableContaminantPresenceDetection"
    /\ \/ /\ result' = TRUE /\ UNCHANGED contaminant   \* disabled by property
       \/ /\ result' \in (IF enabledPath THEN WriteOk ELSE {FALSE})
          /\ contaminant' = IF result' THEN Enabling ELSE contaminant
    /\ Goto("binder", "notify")
    /\ UNCHANGED <<req, seen, locks, cond, thread, mUsbDataEnabled,
                   enabledPath, sinkLimit, port, budget, ghosts>>

(* enableUsbDataWhileDocked() and resetUsbPort() write nodes that no other *)
(* step here reads.                                                        *)
WriteOtherNode ==
    /\ At("binder", "body")
    /\ req.op \in {"enableUsbDataWhileDocked", "resetUsbPort"}
    /\ result' \in WriteOk
    /\ Goto("binder", "notify")
    /\ UNCHANGED <<req, seen, locks, cond, thread, settings, port, budget,
                   ghosts>>

M_AfterNotify == "idle"
AfterNotify == IF req.op = "resetUsbPort" THEN "idle" ELSE "query"

NotifyResult ==
    /\ At("binder", "notify") /\ mLock = Free
    /\ Goto("binder", AfterNotify)
    /\ UNCHANGED <<req, result, seen, locks, cond, thread, settings, port,
                   budget, ghosts>>

(* limitPowerTransfer() writes and notifies under mLock; one of its other  *)
(* nodes may fail where the sink limit was written.                        *)
LimitPowerTransfer ==
    /\ At("binder", "limit") /\ mLock = Free
    /\ \E sinkOk, othersOk \in WriteOk :
         /\ sinkLimit' = IF sinkOk THEN Enabling ELSE sinkLimit
         /\ result' = (sinkOk /\ othersOk)
    /\ Goto("binder", "query")
    /\ UNCHANGED <<req, seen, locks, cond, thread, mUsbDataEnabled,
                   enabledPath, contaminant, port, budget, ghosts>>

NotifyQueryPortStatus ==
    /\ At("binder", "notifyQuery") /\ mLock = Free
    /\ Goto("binder", "idle")
    /\ UNCHANGED <<req, result, seen, locks, cond, thread, settings, port,
                   budget, ghosts>>

Serve == \/ SetCallbackReplace \/ SetCallbackClear \/ JoinWorker
         \/ SetCallbackCreate \/ SwitchRole \/ EnableUsbData
         \/ EnableContaminantPresenceDetection \/ WriteOtherNode
         \/ NotifyResult \/ LimitPowerTransfer \/ NotifyQueryPortStatus
         \/ Query("binder")

-----------------------------------------------------------------------------
(* work() and uevent_event().                                              *)

WorkStart ==
    /\ At("worker", "start")
    /\ \/ Goto("worker", "check")
       \/ ThreadFaults /\ Goto("worker", "exited")
    /\ UNCHANGED <<req, result, seen, locks, cond, thread, settings, port,
                   budget, ghosts>>

WorkExit == /\ Goto("worker", "exited")       \* the socket is closed
            /\ uevents' = <<>>
            /\ synced' = FALSE

WorkCheck ==
    /\ At("worker", "check")
    /\ \/ destroyThread /\ WorkExit
       \/ /\ ~destroyThread
          /\ Goto("worker", "enter")
          /\ UNCHANGED <<uevents, synced>>
    /\ UNCHANGED <<req, result, seen, locks, cond, thread, settings, partner,
                   portType, budget, reported, handledSince>>

(* epoll_wait() is entered: only from here on does a signal interrupt it.  *)
WorkEnterWait ==
    /\ At("worker", "enter")
    /\ Goto("worker", "poll")
    /\ UNCHANGED <<req, result, seen, locks, cond, thread, settings, port,
                   budget, ghosts>>

(* One message per wake-up.  An "add" of a partner has DEVTYPE=typec_ in   *)
(* the same message, so the port is queried after the waiter is woken.     *)
M_AfterUevent(m) == IF m = "add" THEN "add"
                    ELSE IF m = "typec" /\ mLock = Free THEN "query"
                    ELSE "check"
AfterUevent(m) == CASE m = "add"   -> "add"
                    [] m = "typec" -> "query"
                    [] m = "other" -> "check"

WorkWake ==
    /\ At("worker", "poll")
    /\ \/ /\ uevents # <<>>
          /\ uevents' = Tail(uevents)
          /\ Goto("worker", AfterUevent(Head(uevents)))
          /\ UNCHANGED synced
       \/ ThreadFaults /\ WorkExit            \* epoll_wait() fails
    /\ UNCHANGED <<req, result, seen, locks, cond, thread, settings, partner,
                   portType, budget, reported, handledSince>>

M_PartnerLockFree == TRUE
PartnerLockFree == mPartnerLock = Free

PartnerAdded ==
    /\ At("worker", "add") /\ PartnerLockFree
    /\ mPartnerUp' = TRUE
    /\ cvSignalled' = (cvSignalled \/ At("binder", "cvWait"))
    /\ handledSince' = TRUE
    /\ Goto("worker", "query")
    /\ UNCHANGED <<req, result, seen, locks, timedOut, thread, settings, port,
                   budget, reported, synced>>

M_RoleSwitchTryLock == TRUE
RoleSwitchTryLock == mRoleSwitchLock = Free

TryRoleSwitchLock ==
    /\ At("worker", "trylock")
    /\ \/ /\ RoleSwitchTryLock
          /\ mRoleSwitchLock' = "worker"
          /\ Goto("worker", "opendir")
       \/ /\ ~RoleSwitchTryLock
          /\ UNCHANGED mRoleSwitchLock
          /\ Goto("worker", "check")
    /\ UNCHANGED <<req, result, seen, mLock, mPartnerLock, cond, thread,
                   settings, port, budget, ghosts>>

M_PartnerDirExists == ~partner
PartnerDirExists == partner

OpenPartner ==
    /\ At("worker", "opendir")
    /\ mRoleSwitchLock' = IF PartnerDirExists THEN Free ELSE mRoleSwitchLock
    /\ Goto("worker", IF PartnerDirExists THEN "check" ELSE "drp")
    /\ UNCHANGED <<req, result, seen, mLock, mPartnerLock, cond, thread,
                   settings, port, budget, ghosts>>

DisconnectedToDrp ==
    /\ At("worker", "drp")
    /\ SwitchToDrp
    /\ mRoleSwitchLock' = Free
    /\ Goto("worker", "check")
    /\ UNCHANGED <<req, result, seen, mLock, mPartnerLock, cond, thread,
                   settings, partner, uevents, budget, ghosts>>

Work == \/ WorkStart \/ WorkCheck \/ WorkEnterWait \/ WorkWake
        \/ PartnerAdded \/ Query("worker") \/ TryRoleSwitchLock
        \/ OpenPartner \/ DisconnectedToDrp

(* sighandler() in the worker thread.  It interrupts epoll_wait() and no   *)
(* other call: run just before epoll_wait() is entered, it wakes nothing.  *)
SigDeliver ==
    /\ sigPending
    /\ sigPending' = FALSE
    /\ destroyThread' = TRUE
    /\ pc' = IF At("worker", "poll") THEN [pc EXCEPT !["worker"] = "check"]
             ELSE pc
    /\ UNCHANGED <<req, result, seen, locks, cond, mCallback, settings, port,
                   budget, ghosts>>

-----------------------------------------------------------------------------
(* updatePortStatus(), the callback of UsbDataSessionMonitor's thread.     *)

UpdatePortStatus ==
    /\ At("monitor", "idle") /\ budget > 0
    /\ budget' = budget - 1
    /\ Goto("monitor", "query")
    /\ UNCHANGED <<req, result, seen, locks, cond, thread, settings, port,
                   ghosts>>

Monitor == Query("monitor")

(* The Type-C driver: the partner's link changes, then the uevent is sent  *)
(* to the sockets that are open.  One that does not fit is dropped; the    *)
(* receiver is told by an error, which uevent_event() takes for no message.*)
Send(m) ==
    IF SocketOpen /\ Len(uevents) < MaxQueue
    THEN uevents' = Append(uevents, m) /\ UNCHANGED synced
    ELSE synced' = FALSE /\ UNCHANGED uevents

PartnerAttach ==
    /\ ~partner /\ budget > 0
    /\ partner' = TRUE
    /\ Send("add")
    /\ budget' = budget - 1
    /\ UNCHANGED <<pc, req, result, seen, locks, cond, thread, settings,
                   portType, reported, handledSince>>

PartnerDetach ==
    /\ partner /\ budget > 0
    /\ partner' = FALSE
    /\ Send("typec")
    /\ budget' = budget - 1
    /\ UNCHANGED <<pc, req, result, seen, locks, cond, thread, settings,
                   portType, reported, handledSince>>

(* A power supply or port uevent ("typec") and any other one.              *)
OtherUevent(m) ==
    /\ budget > 0
    /\ Send(m)
    /\ budget' = budget - 1
    /\ UNCHANGED <<pc, req, result, seen, locks, cond, thread, settings,
                   partner, portType, reported, handledSince>>

Kernel == \/ PartnerAttach \/ PartnerDetach
          \/ \E m \in {"typec", "other"} : OtherUevent(m)

Next == \/ \E r \in Issued : Issue(r)
        \/ Serve \/ Work \/ SigDeliver
        \/ UpdatePortStatus \/ Monitor \/ Kernel

Spec == Init /\ [][Next]_vars

(* A thread that can go on does.  The framework may issue requests without *)
(* end, and the binder thread then takes mLock again and again; a pthread  *)
(* mutex is not a queue, but its waiters are woken at every unlock, so the *)
(* two other threads do not lose it for ever: strong fairness for them.    *)
Fairness == /\ WF_vars(Serve) /\ WF_vars(SigDeliver)
            /\ SF_vars(Work) /\ SF_vars(Monitor)

FairSpec == Spec /\ Fairness

-----------------------------------------------------------------------------
(* Properties.                                                             *)

FlagsOK ==
    /\ result \in BOOLEAN /\ timedOut \in BOOLEAN
    /\ mPartnerUp \in BOOLEAN /\ cvSignalled \in BOOLEAN
    /\ destroyThread \in BOOLEAN /\ sigPending \in BOOLEAN
    /\ mUsbDataEnabled \in BOOLEAN /\ enabledPath \in BOOLEAN
    /\ sinkLimit \in BOOLEAN /\ contaminant \in BOOLEAN
    /\ partner \in BOOLEAN /\ synced \in BOOLEAN
    /\ handledSince \in BOOLEAN

DataOK ==
    /\ pc \in [Threads -> BinderPcs \cup WorkerPcs \cup MonitorPcs]
    /\ pc["binder"] \in BinderPcs
    /\ pc["worker"] \in WorkerPcs
    /\ pc["monitor"] \in MonitorPcs
    /\ req \in Requests
    /\ seen \in [Threads -> Status]
    /\ mCallback \in Callbacks \cup {NULL}
    /\ mLock \in Threads \cup {Free}
    /\ mRoleSwitchLock \in {"binder", "worker", Free}
    /\ mPartnerLock \in {"binder", Free}
    /\ portType \in PortTypes
    /\ uevents \in Seq(Messages) /\ Len(uevents) <= MaxQueue
    /\ budget \in 0..MaxEvents
    /\ reported \in Status

(* Every variable has its type.                                            *)
TypeOK == FlagsOK /\ DataOK

(* Where switchRole() holds mRoleSwitchLock.                               *)
SwitchingPcs == {"partnerLock", "write", "wait", "cvWait", "relock", "drp",
                 "notifyRole"}
Switching == pc["binder"] \in SwitchingPcs

(* The mutexes are held exactly where the code is between lock and unlock. *)
LocksHeld ==
    /\ (mLock = "binder") <=> pc["binder"] \in {"join", "fill", "report"}
    /\ (mLock = "worker") <=> pc["worker"] \in {"fill", "report"}
    /\ (mLock = "monitor") <=> pc["monitor"] \in {"fill", "report"}
    /\ (mRoleSwitchLock = "binder") <=> Switching
    /\ (mRoleSwitchLock = "worker") <=> pc["worker"] \in {"opendir", "drp"}
    /\ (mPartnerLock = "binder") <=> pc["binder"] \in {"write", "wait"}

(* uevent_event() looks for a disconnected port and returns it to DRP only *)
(* while no role switch is in progress (the trylock of mRoleSwitchLock):   *)
(* the worker never overwrites a port_type that switchMode() is trying.    *)
NoDrpDuringSwitch == pc["worker"] \in {"opendir", "drp"} => ~Switching

(* switchMode() holds mPartnerLock from the reset of mPartnerUp to the     *)
(* wait, "to prevent loosing connected signals": a partner uevent that was *)
(* handled while the binder thread waits has always signalled it.          *)
NoLostPartner == At("binder", "cvWait") /\ mPartnerUp => cvSignalled

ModeRequest == req.op = "switchRole" /\ req.arg \in ModeRoles

(* switchRole() reports a mode switch as done only if the worker handled a *)
(* partner uevent after port_type was written, whatever wakes the wait.    *)
SwitchHasUevent ==
    At("binder", "notifyRole") /\ ModeRequest /\ result => handledSince

(* A mode switch that is reported as failed has left the port in DRP, when *)
(* the kernel accepts the write of switchToDrp().                          *)
FailedSwitchIsDrp ==
    At("binder", "notifyRole") /\ ModeRequest /\ ~result /\ ~SysfsFaults
        => portType = "dual"

(* Without a callback there is no uevent thread: setCallback(NULL) returns *)
(* after the thread was joined, and a thread is created with the callback. *)
NoWorkerWithoutCallback ==
    mCallback = NULL /\ ~At("binder", "join") => At("worker", "off")

(* Nothing that changed the port's status is still on its way: no uevent   *)
(* is queued or being handled and no request is before its query.          *)
Quiet == /\ synced /\ mCallback # NULL /\ uevents = <<>>
         /\ pc["worker"] \notin {"add", "query", "fill", "report"}
         /\ pc["monitor"] \notin {"fill", "report"}
         /\ pc["binder"] \notin {"notify", "query", "fill", "report"}

(* The framework's picture of the port is current: once the worker listens *)
(* and a query ran, the last notified status equals the real one whenever  *)
(* nothing is on its way, also when the partner came or left in the middle *)
(* of a query and when several threads query at once.  A uevent dropped by *)
(* a full socket voids this until the next query (synced).                 *)
ReportedStatusCurrent ==
    Quiet => reported = [conn |-> partner, ok |-> TRUE,
                         data |-> mUsbDataEnabled, limit |-> sinkLimit,
                         contam |-> contaminant]

(* Every request of the framework is answered: the binder thread comes     *)
(* back to serve the next one, whatever the worker and the kernel do.      *)
RequestsComplete == (~At("binder", "idle")) ~> At("binder", "idle")

(* A worker that finds mRoleSwitchLock free and the port disconnected      *)
(* returns it to DRP, unless a partner or another role switch comes first. *)
DisconnectedPortToDrp ==
    (At("worker", "trylock") /\ ~partner /\ mRoleSwitchLock = Free)
        ~> (portType = "dual" \/ partner \/ Switching)

(* Usb.cpp says of destroyThread "Set by the signal handler to destroy the *)
(* thread": once it is set the thread ends and is joined.                  *)
DestroyThreadDestroys ==
    destroyThread ~> (At("worker", "off") \/ ~destroyThread)

-----------------------------------------------------------------------------
(* The abstract role switch that UsbHal implements, by the place of the    *)
(* binder thread in switchMode().                                          *)

Phase ==
    IF ~ModeRequest THEN "idle"
    ELSE IF pc["binder"] \in {"partnerLock", "write"} THEN "trying"
    ELSE IF pc["binder"] \in {"wait", "cvWait", "relock", "drp"} THEN "waiting"
    ELSE IF ~At("binder", "notifyRole") THEN "idle"
    ELSE IF result THEN "done" ELSE "failed"

RS == INSTANCE RoleSwitch WITH
        SingleRoles <- {"sink", "source"},
        Refusals    <- SysfsFaults,
        phase       <- Phase,
        wanted      <- IF Phase = "idle" THEN "none" ELSE req.arg,
        handled     <- handledSince

(* switchRole(), the uevent thread and the kernel together behave as the   *)
(* abstract switch does: whatever the interleaving, the port's type is     *)
(* forced once per switch, only a partner uevent handled after that (which *)
(* may have been sent before it) makes it a success, a failure leaves the  *)
(* port dual role, the uevent thread's own return to dual role falls       *)
(* between switches, and every switch ends.                                *)
ImplementsRoleSwitch == RS!FairSpec

(* The same but for its last part, also when the kernel refuses writes and *)
(* callbacks come and go (a join may then keep the framework waiting).     *)
RoleSwitchSafety == RS!Spec

=============================================================================
