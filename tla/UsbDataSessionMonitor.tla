----------------------- MODULE UsbDataSessionMonitor -----------------------
(***************************************************************************)
(* The data session monitor of the USB HAL (UsbDataSessionMonitor.cpp):    *)
(* one thread that waits in epoll_wait() for uevents, its timer, the data  *)
(* role node and the state nodes of three devices, keeps the states seen   *)
(* in the current data session and derives compliance warnings from them.  *)
(*                                                                         *)
(* epoll hands the ready files to the thread in the order in which they    *)
(* became ready (the sequence ready).  A node that changes again before it *)
(* is read is read once, with its last value.  Time is one bit: has the    *)
(* session lasted WARNING_SURFACE_DELAY_SEC?                               *)
(***************************************************************************)
EXTENDS Naturals, Sequences, FiniteSets

CONSTANTS
    EnumFailThreshold,  \* ENUM_FAIL_DEFAULT_COUNT_THRESHOLD
    FlakyThreshold,     \* DEVICE_FLAKY_CONNECTION_CONFIGURED_COUNT_THRESHOLD
    InitialRoles,       \* what the uninitialised mDataRole may hold
    MaxEvents           \* bound on the events of the kernel

Roles   == {"none", "device", "host"}
Hosts   == {"host1", "host2"}
Devices == {"udc"} \cup Hosts
(* The states that are told apart; "other" is any further valid state.     *)
ValidStates == {"notAttached", "default", "configured", "other"}
Warnings == {"ENUMERATION_FAIL", "FLAKY_CONNECTION", "MISSING_DATA_LINES"}
Uevents  == {<<"change", "udc">>} \cup ({"bind", "unbind"} \X Hosts)
Sources  == {"uevent", "timer", "role"} \cup Devices

ASSUME ConstantsAssumption ==
    /\ EnumFailThreshold \in Nat /\ FlakyThreshold \in Nat
    /\ InitialRoles \subseteq Roles
    /\ MaxEvents \in Nat

VARIABLES
    pc,          \* "wait" in epoll_wait(), "usleep" in handleUevent(), or in
                 \* the callback: "notify", "pulldown" (updateUdcBindStatus())
    mDataRole, mUdcBind, mWarningSet,
    states,      \* the states vector of every device
    fds,         \* the devices whose state file is open and watched
    aged,        \* WARNING_SURFACE_DELAY_SEC passed since mDataSessionStart
    timer,       \* "off" or "armed"
    ready,       \* epoll's list of ready files
    uevents,     \* messages in the uevent socket
    role, udc, node,  \* kernel: data role, "bound", "unbinding" or "unbound",
                      \* and the state of every device, "gone" without its file
    budget,      \* events the kernel may still cause
    session,     \* reports due for the session and made of it (ghost)
    ended,       \* the same of the session before (ghost)
    misread      \* mUdcBind was last read where the node did not tell (ghost)

reports == <<session, ended>>
memory  == <<mDataRole, mUdcBind, mWarningSet, states, fds, reports, misread>>
clock   == <<aged, timer>>
kernel  == <<role, udc, node, budget>>
vars    == <<pc, memory, clock, ready, uevents, kernel>>

Reports    == [due : 0..1, made : 0..2]
NoReports  == [due |-> 0, made |-> 0]
NodeStates == ValidStates \cup {"gone"}

(* An attribute that was never read is ready at once, so every file opened *)
(* by the constructor is, in the order in which it adds them.              *)
Opened(h) == IF node[h] = "gone" THEN <<>> ELSE <<h>>
OpenOrder == <<"role", "udc">> \o Opened("host1") \o Opened("host2")
(* ReadFileToString(UDC) && !udc.empty().  Of an unbound gadget the node   *)
(* is empty or, as it is not trimmed, holds a newline.                     *)
UdcNotEmpty == {udc # "unbound", TRUE}

Init ==
    /\ role \in Roles /\ udc \in {"bound", "unbound"}
    /\ node \in [Devices -> {"notAttached", "gone"}]
    /\ node["udc"] # "gone"         \* the udc device always exists
    /\ role # "host" => \A h \in Hosts : node[h] = "gone"
    /\ budget = MaxEvents
    /\ pc = "wait" /\ ready = OpenOrder /\ uevents = <<>>
    /\ mDataRole \in InitialRoles
    /\ mUdcBind \in UdcNotEmpty /\ misread = (mUdcBind /\ udc = "unbound")
    /\ mWarningSet = {}
    /\ session = NoReports /\ ended = NoReports
    /\ states = [d \in Devices |-> <<>>]
    /\ fds = {d \in Devices : node[d] # "gone"}
    /\ aged \in BOOLEAN             \* mDataSessionStart is the boot
    /\ timer = "off"

-----------------------------------------------------------------------------
(* evaluateComplianceWarning(): the warnings the session deserves.         *)

Count(ss, s) == Cardinality({i \in DOMAIN ss : ss[i] = s})

DeviceWarnings(ss) ==
    {w \in Warnings :
        \/ /\ w = "ENUMERATION_FAIL"
           /\ Count(ss, "configured") = 0
           /\ Count(ss, "default") > EnumFailThreshold
        \/ w = "FLAKY_CONNECTION" /\ Count(ss, "configured") > FlakyThreshold}

HostWarnings(ss1, ss2) ==
    {w \in Warnings :
        \/ /\ w = "ENUMERATION_FAIL"
           /\ Count(ss1, "configured") = 0 /\ Count(ss2, "configured") = 0
           /\ \/ Count(ss1, "default") > EnumFailThreshold
              \/ Count(ss2, "default") > EnumFailThreshold
        \/ w = "MISSING_DATA_LINES" /\ ss1 = <<"notAttached">> /\ ss2 = ss1}

(* The warnings a session of role r can have at all.                       *)
RoleWarnings(r) == CASE r = "none"   -> {}
                     [] r = "device" -> Warnings \ {"MISSING_DATA_LINES"}
                     [] r = "host"   -> Warnings \ {"FLAKY_CONNECTION"}

M_Evaluate(r, bind, old, ss) ==
    IF r = "device" /\ bind THEN DeviceWarnings(ss["udc"])
    ELSE IF r = "host" THEN HostWarnings(ss["host1"], ss["host2"])
    ELSE {}
Evaluate(r, bind, old, ss) ==
    IF ~old THEN {}
    ELSE IF r = "device" /\ bind THEN DeviceWarnings(ss["udc"])
    ELSE IF r = "host" THEN HostWarnings(ss["host1"], ss["host2"])
    ELSE {}

(* The callback is called, at place l, when the set changes.               *)
M_Notifies(ws) == ws # mWarningSet /\ ws # {}
Notifies(ws) == ws # mWarningSet

SetWarnings(ws, l) ==
    /\ mWarningSet' = ws
    /\ pc' = IF Notifies(ws) THEN l ELSE "wait"

(* reportUsbDataSessionMetrics() for the session.                          *)
Reported == [session EXCEPT !.made = @ + 1]

(* setupNewSession() sets the timer unless the role is none.               *)
M_SessionTimer(r) == timer
SessionTimer(r) == IF r # "none" THEN "armed" ELSE timer

(* setupNewSession() for role r, of a session that last, is bound or not.  *)
SetupNewSession(r, bound, last) ==
    /\ mWarningSet' = {}
    /\ aged' = FALSE
    /\ states' = [d \in Devices |->
                    IF (r = "device" /\ d = "udc") \/ (r = "host" /\ d \in Hosts)
                    THEN <<>> ELSE states[d]]
    /\ timer' = SessionTimer(r)
    /\ session' = [due  |-> IF r = "host" \/ (r = "device" /\ bound) THEN 1 ELSE 0,
                   made |-> 0]
    /\ ended' = last

-----------------------------------------------------------------------------
(* The handlers.  Each takes the first ready file.                         *)

Handles(f) == pc = "wait" /\ ready # <<>> /\ Head(ready) = f

(* The file open for d is the one of the device that is there now.         *)
M_Watched(d) == d \in fds
Watched(d) == /\ d \in fds /\ node[d] # "gone"
              /\ \A i \in DOMAIN uevents : uevents[i] # <<"unbind", d>>

(* handleDeviceStateEvent(): an unreadable state is ignored.               *)
HandleDeviceState(d) ==
    /\ Handles(d)
    /\ ready' = Tail(ready)
    /\ IF Watched(d)
       THEN /\ states' = [states EXCEPT ![d] = Append(@, node[d])]
            /\ SetWarnings(Evaluate(mDataRole, mUdcBind, aged, states'),
                           "notify")
       ELSE UNCHANGED <<pc, states, mWarningSet>>
    /\ UNCHANGED <<mDataRole, mUdcBind, fds, reports, misread, clock,
                   uevents, kernel>>

(* handleTimerEvent().                                                     *)
M_TimerWarnings == mWarningSet
TimerWarnings == Evaluate(mDataRole, mUdcBind, aged, states)

HandleTimer ==
    /\ Handles("timer")
    /\ ready' = Tail(ready)
    /\ SetWarnings(TimerWarnings, "notify")
    /\ UNCHANGED <<mDataRole, mUdcBind, states, fds, reports, misread, clock,
                   uevents, kernel>>

(* handleDataRoleEvent() reports the session that ended.                   *)
M_ReportsAtRoleChange == mDataRole # "none"
ReportsAtRoleChange == mDataRole = "host" \/ (mDataRole = "device" /\ mUdcBind)

HandleDataRole ==
    /\ Handles("role")
    /\ ready' = Tail(ready)
    /\ IF role # mDataRole
       THEN /\ mDataRole' = role
            /\ SetupNewSession(role, mUdcBind,
                               IF ReportsAtRoleChange THEN Reported ELSE session)
       ELSE UNCHANGED <<mDataRole, mWarningSet, states, reports, clock>>
    /\ UNCHANGED <<pc, mUdcBind, fds, misread, uevents, kernel>>

(* handleUevent(): one message; the socket is ready again if it holds more.*)
TakeUevent(m, rest) ==
    /\ Handles("uevent") /\ uevents # <<>> /\ Head(uevents) = m
    /\ uevents' = Tail(uevents)
    /\ ready' = IF Len(uevents) > 1 THEN Append(rest, "uevent") ELSE rest

(* The other ready files without h, which is among them once if at all.    *)
Without(h) ==
    LET rest == Tail(ready)
        i    == CHOOSE j \in DOMAIN rest : rest[j] = h
    IN  IF \E j \in DOMAIN rest : rest[j] = h
        THEN SubSeq(rest, 1, i - 1) \o SubSeq(rest, i + 1, Len(rest))
        ELSE rest

(* addEpollFile(): a newly opened attribute is ready at once.              *)
HandleHostBind(h) ==
    /\ TakeUevent(<<"bind", h>>,
                  IF node[h] # "gone" THEN Append(Without(h), h) ELSE Tail(ready))
    /\ fds' = IF node[h] # "gone" THEN fds \cup {h} ELSE fds
    /\ UNCHANGED <<pc, mDataRole, mUdcBind, mWarningSet, states, reports,
                   misread, clock, kernel>>

(* removeEpollFile() gives the descriptor up; it is never closed.          *)
HandleHostUnbind(h) ==
    /\ TakeUevent(<<"unbind", h>>, Without(h))
    /\ fds' = fds \ {h}
    /\ UNCHANGED <<pc, mDataRole, mUdcBind, mWarningSet, states, reports,
                   misread, clock, kernel>>

HandleUdcChange ==
    /\ TakeUevent(<<"change", "udc">>, Tail(ready))
    /\ pc' = "usleep"
    /\ UNCHANGED <<memory, clock, kernel>>

ChangePending == \E i \in DOMAIN uevents : uevents[i] = <<"change", "udc">>

(* updateUdcBindStatus() after usleep(50000), which may or may not outlast *)
(* the unbind that was announced.  mUdcBind is assigned last: the          *)
(* evaluation at a pulldown still sees the gadget as bound.                *)
M_NewUdcBind == udc # "bound"
NewUdcBind == udc # "unbound"

UpdateUdcBindStatus ==
    /\ pc = "usleep"
    /\ misread' = (udc = "unbinding")
    /\ \/ /\ mDataRole # "device" \/ NewUdcBind = mUdcBind
          /\ mUdcBind' = NewUdcBind /\ pc' = "wait"
          /\ UNCHANGED <<mWarningSet, states, reports, clock>>
       \/ /\ mDataRole = "device" /\ mUdcBind /\ ~NewUdcBind      \* pulldown
          /\ session' = Reported
          /\ SetWarnings(Evaluate(mDataRole, mUdcBind, aged, states), "pulldown")
          /\ mUdcBind' = (pc' = "pulldown")
          /\ UNCHANGED <<states, ended, clock>>
       \/ /\ mDataRole = "device" /\ ~mUdcBind /\ NewUdcBind      \* pullup
          /\ SetupNewSession(mDataRole, TRUE, session)
          /\ mUdcBind' = NewUdcBind /\ pc' = "wait"
    /\ UNCHANGED <<mDataRole, fds, ready, uevents, kernel>>

(* notifyComplianceWarning() returns; a pulldown then ends.                *)
NotifyComplianceWarning ==
    /\ pc \in {"notify", "pulldown"}
    /\ mUdcBind' = (mUdcBind /\ pc # "pulldown")
    /\ pc' = "wait"
    /\ UNCHANGED <<mDataRole, mWarningSet, states, fds, reports, misread,
                   clock, ready, uevents, kernel>>

Handle == \/ \E d \in Devices : HandleDeviceState(d)
          \/ HandleTimer \/ HandleDataRole
          \/ \E h \in Hosts : HandleHostBind(h) \/ HandleHostUnbind(h)
          \/ HandleUdcChange \/ UpdateUdcBindStatus
          \/ NotifyComplianceWarning

-----------------------------------------------------------------------------
(* The kernel and the clock.                                               *)

Raise(f) == ready' = IF \E i \in DOMAIN ready : ready[i] = f THEN ready
                     ELSE Append(ready, f)

Spend == budget > 0 /\ budget' = budget - 1

ChangeRole(r) ==
    /\ Spend /\ role # r
    /\ role' = r
    /\ Raise("role")
    /\ UNCHANGED <<pc, memory, clock, uevents, udc, node>>

ChangeState(d, s) ==
    /\ Spend /\ node[d] \notin {"gone", s}
    /\ node' = [node EXCEPT ![d] = s]
    /\ IF Watched(d) THEN Raise(d) ELSE UNCHANGED ready
    /\ UNCHANGED <<pc, memory, clock, uevents, role, udc>>

(* The ports of the host controller exist in host mode only.               *)
HostPort(h) ==
    /\ Spend
    /\ \/ /\ role = "host" /\ node[h] = "gone"
          /\ node' = [node EXCEPT ![h] = "notAttached"]
          /\ uevents' = Append(uevents, <<"bind", h>>)
       \/ /\ node[h] # "gone"
          /\ node' = [node EXCEPT ![h] = "gone"]
          /\ uevents' = Append(uevents, <<"unbind", h>>)
    /\ Raise("uevent")
    /\ UNCHANGED <<pc, memory, clock, role, udc>>

(* A bind is announced after it is done, an unbind before.                 *)
BindUdc ==
    /\ Spend
    /\ \/ udc = "unbound" /\ udc' = "bound"
       \/ udc = "bound" /\ udc' = "unbinding"
    /\ uevents' = Append(uevents, <<"change", "udc">>)
    /\ Raise("uevent")
    /\ UNCHANGED <<pc, memory, clock, role, node>>

FinishUnbind ==
    /\ udc = "unbinding" /\ udc' = "unbound"
    /\ UNCHANGED <<pc, memory, clock, ready, uevents, role, node, budget>>

PassDelay ==
    /\ ~aged /\ aged' = TRUE
    /\ UNCHANGED <<pc, memory, timer, ready, uevents, kernel>>

(* The timer is set after mDataSessionStart is taken, for the same delay.  *)
ExpireTimer ==
    /\ timer = "armed" /\ aged
    /\ timer' = "off"
    /\ Raise("timer")
    /\ UNCHANGED <<pc, memory, aged, uevents, kernel>>

Kernel == \/ \E r \in Roles : ChangeRole(r)
          \/ \E d \in Devices, s \in ValidStates : ChangeState(d, s)
          \/ \E h \in Hosts : HostPort(h)
          \/ BindUdc

Next == Handle \/ Kernel \/ FinishUnbind \/ PassDelay \/ ExpireTimer

Spec == Init /\ [][Next]_vars

(* The thread handles what is ready, an unbind ends, and time passes.      *)
Fairness == /\ WF_vars(Handle) /\ WF_vars(FinishUnbind)
            /\ WF_vars(PassDelay) /\ WF_vars(ExpireTimer)
FairSpec == Spec /\ Fairness

-----------------------------------------------------------------------------
(* Properties.                                                             *)

(* Every variable has its type.                                            *)
TypeOK ==
    /\ pc \in {"wait", "usleep", "notify", "pulldown"}
    /\ mDataRole \in Roles /\ mUdcBind \in BOOLEAN
    /\ mWarningSet \subseteq Warnings
    /\ states \in [Devices -> Seq(ValidStates)]
    /\ fds \subseteq Devices
    /\ aged \in BOOLEAN /\ timer \in {"off", "armed"}
    /\ ready \in Seq(Sources) /\ uevents \in Seq(Uevents)
    /\ role \in Roles /\ udc \in {"bound", "unbinding", "unbound"}
    /\ node \in [Devices -> NodeStates]
    /\ budget \in 0..MaxEvents
    /\ session \in Reports /\ ended \in Reports /\ misread \in BOOLEAN

(* No warning surfaces in the first WARNING_SURFACE_DELAY_SEC of a data    *)
(* session, whatever was surfaced in the session before.                   *)
NoEarlyWarning == mWarningSet # {} => aged

(* Once the delay is over and its timer was handled, the warnings are the  *)
(* ones the states of the session deserve, whichever of the timer, the     *)
(* state files and the role file became ready first.  (A gadget that was   *)
(* pulled down is excepted, see UnbindClearsWarnings.)                     *)
WarningsAreCurrent ==
    /\ aged /\ timer = "off" /\ ~\E i \in DOMAIN ready : ready[i] = "timer"
    /\ mDataRole = "device" => mUdcBind
    => mWarningSet = Evaluate(mDataRole, mUdcBind, aged, states)

(* "It reports Suez metrics for each data session": a host session and a   *)
(* session of a bound gadget are reported exactly once, when they end by a *)
(* role change or a pulldown; a session without a gadget is not reported.  *)
ReportedOncePerSession == session.made <= session.due /\ ended.made = ended.due

(* mUdcBind "indicates whether the udc device is bound": it does whenever  *)
(* no change of the binding is under way or still to be handled, unless    *)
(* the unbind took longer than the 50 ms that handleUevent() allows or the *)
(* constructor met a newline (misread).                                    *)
UdcBindCurrent ==
    pc = "wait" /\ ~ChangePending /\ udc # "unbinding" /\ ~misread
        => mUdcBind = (udc = "bound")

(* A session whose states deserve warnings gets them after the delay: the  *)
(* timer set by setupNewSession() leads to an evaluation.                  *)
Deserved == Evaluate(mDataRole, mUdcBind, TRUE, states)
WarningsSurface == (Deserved # {}) ~> (mWarningSet = Deserved)

(* At a soft pulldown the code says it will "re-evaluate compliance        *)
(* warnings to clear existing warnings if any".                            *)
UnbindClearsWarnings == [][mDataRole = "device" /\ mUdcBind /\ ~mUdcBind'
                            => mWarningSet' = {}]_vars

(* "The callback is invoked when the compliance warings changes" and is    *)
(* there "to notify the caller when there's a change in compliance         *)
(* warnings": a step that changes the set goes on to the callback.  It     *)
(* does not when setupNewSession() clears a set that was not empty.        *)
ChangesAreNotified ==
    [][mWarningSet' # mWarningSet => pc' \in {"notify", "pulldown"}]_vars

(* Whatever the order of state changes, timer, role changes and pullups,   *)
(* the monitor is the source of warnings the USB HAL meets: each change of *)
(* the set by evaluateComplianceWarning() is followed by the callback      *)
(* before the set or the role changes again, setupNewSession() clears the  *)
(* set in silence (which ChangesAreNotified would forbid), and no set      *)
(* holds a warning that its role does not allow.                           *)
WS == INSTANCE WarningSource WITH
        notifying <- pc \in {"notify", "pulldown"},
        Possible  <- RoleWarnings
ImplementsWarningSource == WS!FairSpec

=============================================================================
