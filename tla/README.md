# TLA+ development for android_device_google_gs101

This directory models the part of the gs101 device tree that is a program
rather than configuration: the USB HAL with its data session monitor, the USB
gadget HAL (`src/usb`), what the two do to each other, and the Health HAL
(`src/health`). The modules are checked with TLC on small instances; most of the
safety properties, and two refinements, are proved with TLAPS for every
instance.

`PROJECT.json` holds the inventory, the runs, the line map from every
definition to the source, the hazards and the findings.

## 1. Inventory

### 1.1 USB HAL service: `usb/usb/Usb.cpp`, `Usb.h`, `service.cpp`

**Threads.** One binder thread (`service.cpp` sets the pool maximum to 0 and
joins the pool), the uevent thread `work()`, created and joined by
`setCallback()`, and the thread of the data session monitor, which enters
through `updatePortStatus()`.

**State.** `mCallback` and the status notification are guarded by `mLock`;
`mRoleSwitchLock` is held by `switchRole()` and tried by the uevent thread;
`mPartnerLock`, `mPartnerCV` and `mPartnerUp` carry the signal "the partner is
back"; `destroyThread` is set by the SIGUSR1 handler; `mUsbDataEnabled` caches
what the HAL last wrote; the rest is in sysfs (`port_type`, the partner
directory, the role, charger and dock nodes, `usb_limit_sink_enable`,
`contaminant_detection`).

**Operations.** The eight requests of `IUsb`; the uevents of the kernel; the
signal.

**Hard.** A mode switch writes `port_type`, waits for a partner to come back,
and competes with the uevent thread, the timeout, the spurious wake-up and the
kernel. The uevent thread is destroyed by a signal and a join. Three threads
query and notify the same port while it changes; one query reads some fifteen
nodes, one after the other, and the partner may leave between two of them.

**Correct means.** The uevent thread never writes `port_type` during a switch;
no partner signal is lost; success of a switch is due to a uevent handled since
the write; a failed switch leaves the port dual role (together: `RoleSwitch`); a
thread exists only with a callback; the framework ends up with the true status,
not mixed from two moments; a status is an error only if the partner left or a
read failed during that query, and the first is corrected; every request ends.

### 1.2 Data session monitor: `usb/usb/UsbDataSessionMonitor.cpp`, `.h`

**Thread.** One, in `epoll_wait()` on a uevent socket, a timer, the data role
node and the state nodes of the udc and of two host ports.

**State.** `mDataRole`, `mUdcBind`, the states seen per device, the start of
the session, `mWarningSet`.

**Operations.** `handleTimerEvent`, `handleDeviceStateEvent`,
`handleDataRoleEvent`, `handleUevent` (host port bound or unbound, udc change),
`updateUdcBindStatus`, `evaluateComplianceWarning`, `setupNewSession`,
`reportUsbDataSessionMetrics`.

**Hard.** Files become ready in any order, a new session's state may be read
before its role; the udc announces an unbind before it happens; sessions end by
two different events.

**Correct means.** Warnings are not early, not stale and do surface; every
session is reported once; `mUdcBind` follows the gadget; what an evaluation
changes reaches the callback (`WarningSource`) and, through the HAL, the
framework. The comments promise the callback for every change; a new session's
clearing does not keep that (3.2).

### 1.3 USB gadget HAL service: `usb/gadget/UsbGadget.cpp`, `.h`, `service_gadget.cpp`

**Threads.** One binder thread and the thread of `MonitorFfs` (libpixelusb).

**State.** `mCurrentUsbFunctions`, `mCurrentUsbFunctionsApplied`, the
endpoints given to `monitorFfs`; in configfs the links, the ids and the pull-up;
the core of the gadget's interrupt and the accessory current limit.

**Operations.** `setCurrentUsbFunctions()` with `tearDownGadget()`,
`validateAndSetVidPid()` and `setupFunctions()`; `reset()`; the callback
`currentFunctionsAppliedCallback()`; three getters.

**Hard.** Every configfs call and every callback may fail halfway; the pull-up
is done by another thread when daemons have written their descriptors, which
may be late, never, or undone; the service may die in the middle of it, and
another service writes the same pull-up.

**Correct means.** One answer per request; success only after a pull-up; the
gadget stays down while it is rebuilt; the product id tells the truth about
adb; the gadget does come up; every request ends.

### 1.4 Health HAL: `health/Health.cpp`

**Threads.** One: the health loop and the binder calls.

**State.** Static variables: `ufs_last_query_time`, `ufs_version`, `eol`,
`lifetimeA`, `lifetimeB`, `needs_wlc_updates`. All are lost with the process.

**Operations.** `private_healthd_board_init`, `private_get_storage_info`,
`private_healthd_board_battery_update` (a chain of updates from libpixelhealth),
`private_get_disk_stats`, which keeps nothing.

**Hard.** A cache whose age is measured with a clock that can be set; files that
cannot be read while the time of the reading advances.

**Correct means.** No report is older than the interval says, however long after
the first, and each holds values the device had.

### 1.5 How they interact

- Monitor to HAL: `updatePortStatus()` runs `queryVersionHelper()` on the
  monitor's thread. The HAL reads `mWarningSet` through
  `getComplianceWarnings()`, without a common lock (`UsbPortStatus`).
- USB HAL and gadget HAL are two processes. Both write `PULLUP_PATH`: the USB
  HAL in `enableUsbData()` and `resetUsbPort()`, the gadget HAL in every switch.
  The gadget HAL never looks at whether USB data is enabled (`UsbDataPath`).
- The kernel side (Type-C driver, udc core, xhci, configfs) answers through
  sysfs nodes and uevents. It is modelled from how the code uses it, as are
  `MonitorFfs` of libpixelusb and the updates of libpixelhealth.

### 1.6 The rest of the tree

None of it is modelled.

| Part | Why |
|---|---|
| pKVM enabler (`pkvm/pkvm_enabler.c`) | one pass at boot: `misc_writer` and a failure exit when `/dev/kvm` is absent; what follows is up to the bootloader |
| eUICC disabler (`parts/`) | one idempotent assignment at boot |
| UWB calibration scripts (`uwb/calibration/`) | choose and copy data once at boot |
| Power stats, pixel stats | tables of names and paths handed to libraries, no logic of their own |
| Fingerprint scripts and factory test, dumpstate | print, file reports or call a vendor library |
| Init scripts, fstab, SELinux policy, overlays, media and build files | configuration |

## 2. Modules and how they correspond to the code

| Module | Models | State and steps |
|---|---|---|
| `UsbHal` | `Usb.cpp` | `pc[t]` is the place of each thread in its code; a step ends at a lock, unlock, wait, sysfs access or system call. The members of `Usb` keep their names. `Serve` is the binder thread (one action per handler, or per section of it between two such points), `Work` the uevent thread, `Monitor` a query of the monitor's thread, `SigDeliver` the signal handler; `Kernel` is the partner and the uevents. |
| `MCUsbHal` | | The sets of requests of each instance and the usual initial settings. |
| `UsbHalProofs` | | The inductive invariant of `UsbHal` and the theorems. |
| `RoleSwitch` | `switchRole()` and what disturbs it | Abstract: the port's type and a switch that is tried, waits, and is done once a partner uevent is handled, or failed. No threads or locks. |
| `RoleSwitchProofs` | | `UsbHal` implements `RoleSwitch`. |
| `UsbPortStatus` | `queryVersionHelper()` and its helpers | `at` is the next node the query in progress reads; `status` is the `PortStatus` built so far. One step per node that is read, which may fail (`Skip` where the code logs and goes on, `GiveUp` where it returns an error); the drivers change nodes in between and announce each change. `mWarningSet` comes from `WarningSource`; an assignment to it takes two steps, and a reader in between may see any set or end the service, as the race in the code may. |
| `MCUsbPortStatus` | | Two partners. |
| `UsbPortStatusProofs` | | Errors have a cause in their own query; the status that was told is current. |
| `UsbDataSessionMonitor` | `UsbDataSessionMonitor.cpp` | `ready` is epoll's list in the order in which files became ready; one action per handler; the 50 ms sleep of `handleUevent()` and the callback are places of their own (`pc`) because the kernel goes on meanwhile. Time is one bit: has the session lasted the delay? |
| `WarningSource` | what the HAL sees of the monitor | Abstract: a role, a set of warnings, and a callback after each change that is not a new session. It states what the code does, which is less than its comments say (3.2). |
| `MonitorProofs` | | The invariants of the monitor, and that it implements `WarningSource`. |
| `UsbGadget` | `UsbGadget.cpp` | `pc` follows `setCurrentUsbFunctions()` and `reset()` from one configfs access, sleep or wait to the next; `monitor` is the thread of `MonitorFfs`; `Restart` is a service that dies anywhere and finds configfs as it left it. |
| `MCUsbGadget` | | The function sets of each instance. |
| `UsbGadgetProofs` | | The invariants of the gadget HAL. |
| `UsbDataPath` | `enableUsbData()`, `resetUsbPort()` beside the gadget HAL | `UsbGadget` with the binder thread of the USB HAL (`halPc`), which reads and writes the same pull-up in separate steps, and may restart. |
| `MCUsbDataPath` | | The function sets of the instance. |
| `UsbDataPathProofs` | | What the two services promise together; extends `UsbGadgetProofs`. |
| `Health` | `Health.cpp` | The statics by their names; `clock` is the system clock in hours, `age` the hours that really passed since the files were tried, `reported` that age at the last report. A battery report leaves with what the libraries' updates make of it. |
| `HealthProofs` | | Freshness of every report, real values. |

`UsbHal` and `UsbPortStatus` look at the same queries from two sides. `UsbHal`
has every lock, the switch and the life of the threads, and a query of four
steps; `UsbPortStatus` has every node of a query and the warnings, and of the
threads only who holds `mLock`.

Variables marked (ghost) record history for a property; no guard reads them.
A definition whose name starts with `M_` is a faulty variant of the definition
after it. No specification uses these; they show that a property can fail.

Abstractions: in `UsbHal` a port status has the five fields that depend on a
partner or a request (connected, readable, data enabled, limited, contaminant
detection); the others are in `UsbPortStatus`. A uevent is one of three classes
that `uevent_event()` tells apart. Names, paths and messages are left out. In
`UsbPortStatus` a failed query is `ERROR` whether a node could not be read or
held an unknown role; a typec directory that cannot be opened leaves no port, of
which the code then uses the first, so the service dies (`Crash`). The links of
a group of functions are one step of `UsbGadget`, which may fail with any proper
part of them made.

## 3. Runs

### 3.1 Passing

| Run | Shows | Bounds |
|---|---|---|
| `hal_safety` | `NoDrpDuringSwitch`, `NoLostPartner`, `SwitchHasUevent`, `NoWorkerWithoutCallback`, `ReportedStatusCurrent`, `RoleSwitchSafety`, `TypeOK` | a callback that is registered, registered again and unregistered; mode switches that the kernel accepts or refuses, a data swap, a setting and queries; 3 events, 2 queued uevents, so that the socket overflows; writes, thread, socket and epoll may fail (4.3 million states) |
| `hal_liveness` | `RequestsComplete`, `DisconnectedPortToDrp`, `FailedSwitchIsDrp`, `ReportedStatusCurrent`, `ImplementsRoleSwitch` | a framework that does not unregister, with mode switches, two settings and a reset of the port; 2 events, 1 queued uevent; writes are accepted; fair (330,000 states) |
| `monitor` | `NoEarlyWarning`, `WarningsAreCurrent`, `WarningsSurface`, `ImplementsWarningSource`, `ReportedOncePerSession`, `UdcBindCurrent`, `TypeOK` | 3 kernel events, unbinds of any duration, an unbound UDC node that is empty or holds a newline; fair (970,000 states) |
| `port_status` | `StatusIsCurrent`, `ErrorHasReason`, `ErrorIsCorrected`, `WarningsReachFramework` | two partners, one with PD and one an accessory; 2 events of the drivers, the framework and the monitor or failed reads; fair (640,000 states) |
| `gadget_switch` | `AnsweredOnce`, `SuccessMeansUp`, `DownWhileSwitching`, `TypeOK` | six function sets, two vendor settings, 3 events; configfs and callbacks may fail, the service may restart (1.4 million states) |
| `data_path` | `UpWhenEnabled`, `PidShowsAdb`, `PullsUpWhenWritten`, `RequestsEnd` | three function sets, two vendor settings, both services, 2 events (restarts of the USB HAL included), no faults; fair (530,000 states) |
| `health` | `ReportIsFresh`, `ReportIsReal` | an interval of 3 hours, a clock of 7, 2 adjustments or restarts, every file may be unreadable (730,000 states) |

`FailedSwitchIsDrp` needs writes that are accepted: `switchToDrp()` has no other
means than such a write; what a refused one leaves is in `RoleSwitchSafety`.
`DisconnectedPortToDrp` is about a uevent that finds `mRoleSwitchLock` free: one
that meets a switch is dropped. `DownWhileSwitching` is a promise of the gadget
HAL alone, and false beside the USB HAL (section 4). The three properties of
`port_status` about what the framework ends up with except a query of which a
read failed: nothing in the code repeats it. `data_path` needs configfs without
faults; what happens with faults is the run `gadget_stale`. `UpWhenEnabled`
excepts a USB HAL that restarted and `resetUsbPort()`: after both the code skips
an enable (`mUsbDataEnabled` is true), and no comment promises otherwise.
`PidShowsAdb` excepts the moment between a request's assignment of
`mCurrentUsbFunctions` and its teardown: if the USB HAL pulled up a gadget with
RNDIS and adb when only RNDIS was linked, and RNDIS alone is asked for next, the
old gadget has by chance the new functions, under the old id. The function sets
of the instance include that case. The `monitor` run starts with a role of none
in `mDataRole`, which the code does not initialise: with any other value
`ReportedOncePerSession` fails, since the first role event then reports a
session that never was.

Why the bounds are enough to meet the hard cases. Requests are not bounded
(except in `port_status`, where they share the bound of the events); the
framework issues them for ever; only the steps of the environment are. Two
partner events give a detach and an attach around one switch, a third leaves
one over for the next switch or for a query that overlaps. One queued uevent is
the shortest socket that overflows, two hold a fresh message behind a stale
one. In `port_status` two events are a change in the middle of a query and
another in the middle of the query that follows it, or of a query of another
thread. In the monitor three events make a session begin, see a state and end,
or a bind, unbind and bind; the thresholds are 0, so that one event above them
is enough (the code has them as constants). In the gadget three events are a
daemon that starts, dies and starts again, a property that changes between its
two reads, or a death of the service around either. In `health` the clock holds
two intervals and an hour, so that a second reading is due, late or early.

`CHECK_DEADLOCK FALSE` is said where the system may really rest: the monitor's
thread sleeps in `epoll_wait()` once the kernel has no more events, so do the
threads of `port_status`, and in the runs that unregister callbacks the join of
3.2 blocks for ever.

### 3.2 Where the code and its comments disagree

Each of these runs ends in a counterexample to a sentence of the repository,
quoted in `PROJECT.json` under "findings".

| Run | What happens |
|---|---|
| `hal_destroy_thread` | `setCallback(NULL)` joins the uevent thread while holding `mLock`. A thread that needs `mLock`, or that took the signal just before `epoll_wait()`, does not end. |
| `monitor_pulldown` | The warnings are evaluated before `mUdcBind` is assigned, so a pulldown does not clear them. |
| `monitor_silent` | `setupNewSession()` clears the warnings without the callback, which "is invoked when the compliance warings changes" (`UsbDataSessionMonitor.h:54`, and `:97`). |
| `gadget_stale` | Endpoints added before a failed link stay with `MonitorFfs`, and the next gadget waits for their daemons. |
| `data_status` | `enableUsbData(false)` reads the pull-up and writes it in two steps. The gadget HAL pulls down in between, the write fails, the data node is turned off all the same, and `mUsbDataEnabled` stays true: the next enable is skipped and answered with SUCCESS. |

One more disagreement has no run of its own. `Usb.h:84` calls `mPartnerUp` a
"Variable to signal partner coming back online after type switch"; the uevent of
an earlier partner that is still queued when `port_type` is written sets it too
(`Usb.cpp:1055`), and completes the new mode switch although no partner came
back. The model of the HAL has this behaviour in both its runs, and `RoleSwitch`
allows it: `SwitchHasUevent`, `RoleSwitchSafety` and `ImplementsRoleSwitch`
speak of a uevent handled since the write and say nothing of when it was sent.

Further behaviours are in the models, and we found no sentence of the repository
that they contradict (`PROJECT.json` has most of them under "hazards"): a
partner uevent handled between the expiry and the return of
`pthread_cond_timedwait()` is ignored and the switch undone; a partner may
attach between `opendir()` and the write of "dual"; the newline of an unbound
`UDC` node counts as bound when the monitor starts (`misread` excepts this from
`UdcBindCurrent` until the first change is handled); the gadget request without
functions returns an error although it was carried out and answered; the last
callback of an old monitor marks the new functions as applied; the accessory
current limit is taken back only by a request that succeeds and has functions;
the UFS version of an unreadable file is whatever the stack held, for as long as
the service runs.

### 3.3 Fairness

- `UsbHal`: weak fairness of the binder thread and of signal delivery: a thread
  that can run does. Strong fairness of the uevent thread and of the monitor's
  thread: a framework that never stops issuing requests takes `mLock` again and
  again; the mutex is not a queue but wakes its waiters at each unlock, so no
  waiter loses it for ever. Nothing is assumed of the kernel or the framework.
- `UsbDataSessionMonitor`: weak fairness of the thread, of the end of an unbind,
  of the clock and of the timer.
- `UsbPortStatus`: weak fairness of the three threads and of the assignment of
  the warnings. Requests and events are bounded there, so nobody takes `mLock`
  for ever.
- `UsbDataPath`: weak fairness of the binder threads of the two services and of
  the thread of `MonitorFfs`. Nothing is assumed of the daemons or the
  framework: the timeout of `waitForPullUp()` ends the wait.
- `RoleSwitch` and `WarningSource` state the fairness that their implementation
  owes: a switch that began ends, a callback that was called returns.

## 4. Proofs

Every theorem holds for all values of the constants that the named assumptions
of the modules allow: every set of callbacks, requests and partners, every bound
and threshold, with or without faults, except where the table names a
condition.

| Theorem | States |
|---|---|
| `UsbHalProofs!TypeCorrect` | `Spec => []TypeOK` |
| `UsbHalProofs!RoleSwitchExclusive` | `Spec => []NoDrpDuringSwitch` |
| `UsbHalProofs!PartnerNotLost` | `Spec => []NoLostPartner` |
| `UsbHalProofs!SwitchDueToUevent` | `Spec => []SwitchHasUevent` |
| `UsbHalProofs!WorkerNeedsCallback` | `Spec => []NoWorkerWithoutCallback` |
| `UsbHalProofs!FailedSwitchRecovers` | `Spec => []FailedSwitchIsDrp` |
| `UsbHalProofs!FrameworkIsCurrent` | `Spec => []ReportedStatusCurrent` |
| `RoleSwitchProofs!RoleSwitchRefinement` | `Spec => RS!Spec`: the HAL implements `RoleSwitch`; success needs a uevent handled since the write, not one sent since |
| `MonitorProofs!WarningsNotEarly` | `Spec => []NoEarlyWarning` |
| `MonitorProofs!SessionsReportedOnce` | `Spec => []ReportedOncePerSession`, if `InitialRoles \subseteq {"none"}` |
| `MonitorProofs!BindingIsCurrent` | `Spec => []UdcBindCurrent` |
| `MonitorProofs!MonitorIsWarningSource` | `Spec => WS!Spec`: the monitor implements `WarningSource`, with its silent new session |
| `MonitorProofs!WarningsCurrent` | `Spec => []WarningsAreCurrent`, if `InitialRoles \subseteq {"none"}` |
| `MonitorProofs!TypeCorrect` | `Spec => []TypeOK` |
| `UsbPortStatusProofs!ErrorHasCause` | `Spec => []ErrorHasReason` |
| `UsbPortStatusProofs!StatusCurrent` | `Spec => []StatusIsCurrent` |
| `UsbGadgetProofs!GadgetTypeCorrect` | `Spec => []TypeOK` |
| `UsbGadgetProofs!RequestsAnsweredOnce` | `Spec => []AnsweredOnce` |
| `UsbGadgetProofs!GadgetDownWhileSwitching` | `Spec => []DownWhileSwitching` |
| `UsbGadgetProofs!SuccessAfterPullUp` | `Spec => []SuccessMeansUp` |
| `UsbDataPathProofs!AnswersBesideUsbHal` | `PathSpec => [](AnsweredOnce /\ SuccessMeansUp)` |
| `UsbDataPathProofs!UpAfterBothAnswers` | `PathSpec => []UpWhenEnabled`, if `~NodeFaults` |
| `UsbDataPathProofs!PidOfAdb` | `PathSpec => []PidShowsAdb`, if `~ConfigfsFaults` and `~MayRestart` |
| `HealthProofs!FreshReports` | `Spec => []ReportIsFresh` |
| `HealthProofs!RealReports` | `Spec => ReportIsReal` |

**USB HAL.** All follow from `Invariance`, `Spec => []IndInv`. `IndInv`
conjoins:

- `TypeOK`, and `ReqInv`: the code of a request runs for that request, so
  that `switchMode()` has a mode role to write;
- `LocksHeld`: each mutex is held exactly where the code is between its lock and
  unlock. `NoDrpDuringSwitch` is its consequence for `mRoleSwitchLock`;
- `WaitInv`: `mPartnerUp` is FALSE from its reset to the wait, because
  `mPartnerLock` keeps the uevent thread out, and once TRUE during the wait it
  stands for a uevent handled since the write. Without the first half neither
  `NoLostPartner` nor `SwitchHasUevent` is inductive;
- `WorkerInv`: the thread exists only with a callback, also around the join;
- `StatusInv`: unless a query is on its way (a uevent about the port is queued
  or in hand, or a request has written and not yet queried), what each querying
  thread has read so far is true and the last notification is true. Its two
  middle clauses carry the argument over the steps of a query;
- `FailedSwitchIsDrp` itself.

Each conjunct has one lemma (`FlagsStep`, `DataStep`, `ReqStep`, `LocksStep`,
`WaitStep`, `WorkerStep`, `DrpStep`, `StatusStep`) with one case per action;
`IndInvStep` combines them. The refinement (`RoleSwitchStep`) maps the place of
the binder thread to the phase of the abstract switch (`Phase`) and uses
`IndInv` three times: `WaitInv` for success, `FailedSwitchIsDrp` for failure and
`LocksHeld` for the uevent thread's write, which the abstract specification
allows only between switches.

**Monitor.** `ControlOK` types what the steps depend on. `SessionInv` says how
often the session was reported as a function of the role, the binding and the
place in `updateUdcBindStatus()`: without that place the callback in its middle
breaks the count. `BindInv` says that `mUdcBind` agrees with the gadget unless a
change message is queued or in hand. The refinement maps `notifying` to the
places of the callback. `CurrentInv` adds to `WarningsAreCurrent` that a young
session with a role has its timer armed and that a port without a role has no
warnings; what a file's place in the list of ready files means is in the lemmas
`HasTail`, `HasAppend` and `HasWithout`, and `ReadyStep` says which steps take a
file from the list. A role that is uninitialised garbage starts a session whose
timer was never armed, hence the condition. `CountInv` gives the reports of
`TypeOK` their bound.

**Port status.** `QueryInv`: the thread that holds `mLock` is the one that
queries, a partner that was there when the ports were listed is there still or
has left since, and a status that is an error so far has one of its two causes
in the query that builds it. `StatusInv` is about the fields: unless a query is
to come (a uevent or a callback is on its way) or a read of this query failed,
every field that the query in progress has read so far is the one the nodes have
now (`Undisturbed`, which follows the order of the reads), and with `mLock` free
what was last told is complete. A driver that changes a node disturbs the fields
already read, and announces the change, so that a query is to come; the last
read of a query makes `CompleteStatus` of `Undisturbed`.

**Gadget.** `AnswerInv` ties the number of answers to the place of the binder
thread (nothing is told before the last steps); `DownInv` adds to
`DownWhileSwitching` that nothing is linked right after the teardown, so that a
monitor that is still running has nothing to pull up; `UpInv` that a pull-up
which `MonitorFfs` remembers is one since the last teardown, except while the
old monitor is being stopped; `GadgetOK` and `SettingsOK` are the types.

**Data path.** A step of the gadget HAL is a step of `UsbGadget`, so that its
lemmas apply; one of the USB HAL touches only the pull-up (`HalApart`).
`UpOrWorking` says that the gadget is up unless a request is under way, has
ended without SUCCESS or without functions, or `MonitorFfs` has yet to act: no
step of the gadget HAL, of a daemon or of the kernel breaks it
(`UpOrWorkingStep`), a step of the USB HAL may. `HalInv` is the USB HAL's half:
`UpOrWorking` holds unless the HAL keeps the gadget down, and an enable about to
succeed has seen or made the gadget up, so that it may only be down through the
gadget HAL. `UpOrWorkingStep` needs `LinkInv` and `WatchInv`: a daemon whose
death takes the gadget down is watched, so that `MonitorFfs` knows. With failing
nodes `UpWhenEnabled` is false: an enable whose read of the pull-up fails writes
none and succeeds. `DownWhileSwitching`, which the gadget HAL keeps alone, is
false beside the USB HAL, whose pull-up may fall between two links.
`PidInv`: the id is that of `mCurrentUsbFunctions` while anything is linked,
except before the teardown; `AdbOfPid` is the fact about the tables that no id
stands both for a set with adb and for one without. A failed teardown, or a
service that restarts with an uninitialised `mCurrentUsbFunctions`, breaks
`PidInv`, hence the two conditions.

**Health.** `ClockInv`: the clock, unless set back, shows at least the hours
that passed since the last reading, so that what is not due is not late; a
report notes the age of what it holds, also when it changes nothing else.
`RealInv`: no cached
value is above the device's, which only grows, and the last report is the cache.

Only model-checked: the liveness properties (`RequestsComplete`,
`DisconnectedPortToDrp`, `WarningsSurface`, `ErrorIsCorrected`,
`WarningsReachFramework`, `PullsUpWhenWritten`, `RequestsEnd`) and the fair
halves of the refinements `ImplementsRoleSwitch` and `ImplementsWarningSource`,
which need fairness or ENABLED, which the prover does not handle; the
counterexamples of 3.2. Every safety property of a passing run is proved.

## 5. Not modelled

- USB HAL: the overheat metric, the search for the i2c path, more than one
  port, the getters of the interface version. The constructor is one step,
  although it starts the monitor's thread before its last fields. A crash of the
  whole service is in `UsbDataPath` and, as an outcome of the data race, in
  `UsbPortStatus`; `Init` of `UsbHal` starts from any sysfs settings an earlier
  run may have left.
- Monitor: the content of the metrics; leaked file descriptors.
- Gadget: the getters with `mUsbSpeed`, the search for the interrupt and i2c
  paths, the enumeration timeout of the charger.
- Health: `getDiskStats`, which keeps nothing, the recovery build, the content
  of the libraries' updates.
- The parts of 1.6.

## 6. Plan

What is left, in this order:

1. **Data path**: an abstract specification of one pull-up with two masters
   that `UsbDataPath` implements, from `UpOrWorking` and `HalInv`.
2. **USB HAL**: the constructor as several steps, with a monitor that already
   calls `updatePortStatus()`, and the invariant carried over.
3. **Gadget**: what the old monitor's last callback may still do to
   `mCurrentUsbFunctionsApplied`.
