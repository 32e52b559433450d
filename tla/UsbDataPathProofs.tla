------------------------- MODULE UsbDataPathProofs -------------------------
(***************************************************************************)
(* Proofs about UsbDataPath: what the two services promise together over   *)
(* one pull-up, for every set of requests and vendor functions and every   *)
(* bound.  The steps of the gadget HAL are those of UsbGadget, so that the *)
(* lemmas of UsbGadgetProofs serve for them.                               *)
(***************************************************************************)
EXTENDS UsbDataPath, UsbGadgetProofs

-----------------------------------------------------------------------------
(* A step is one of the gadget HAL or one of the USB HAL, and the latter   *)
(* touches nothing of the gadget HAL but the pull-up.                      *)

HalActs == \/ EnableSkipped \/ \E op \in HalOps : EnableUsbData(op)
           \/ HalServe \/ ResetUsbPort \/ HalRestart

apart == <<pc, req, status, mCurrentUsbFunctions, group, linked, pid, monitor,
           watched, pulledUp, deleted, answers, failed>>

LEMMA PathSteps ==
    ASSUME [PathNext]_pathVars
    PROVE  ([Next]_vars /\ UNCHANGED hal) \/ HalActs
  BY DEF PathNext, HalActs, pathVars

LEMMA HalApart ==
    ASSUME HalActs
    PROVE  /\ UNCHANGED apart
           /\ bound' \in {bound, {}, linked}
           /\ wasUp \in BOOLEAN => wasUp' \in BOOLEAN /\ (wasUp => wasUp')
<1>1. CASE EnableSkipped \/ (\E op \in HalOps : EnableUsbData(op))
             \/ ReadPullup \/ WriteNodes
  <2>1. UNCHANGED vars
    BY <1>1 DEF EnableSkipped, EnableUsbData, ReadPullup, WriteNodes
  <2> QED BY <2>1 DEF vars, apart, current, gadget, ffs, outcome
<1>2. CASE PullUp
  BY <1>2 DEF PullUp, gadgetHal, apart, current, ffs, outcome
<1>3. CASE PullDown \/ ResetUsbPort
  BY <1>3 DEF PullDown, ResetUsbPort, gadgetHal, apart, current, ffs, outcome
<1>4. CASE HalRestart
  BY <1>4 DEF HalRestart, apart, current, gadget, ffs, outcome
<1> QED BY <1>1, <1>2, <1>3, <1>4 DEF HalActs, HalServe

(* The gadget HAL keeps its word beside the USB HAL.                       *)
GadgetInv == ControlOK /\ AnswerInv /\ UpTypeOK /\ UpInv

LEMMA GadgetInit == Init => GadgetInv
<1> SUFFICES ASSUME Init PROVE UpTypeOK /\ UpInv
  BY InitControl DEF GadgetInv
<1>1. <<"SUCCESS">> # <<>>
  OBVIOUS
<1> QED BY <1>1 DEF Init, UpTypeOK, UpInv, SuccessMeansUp

LEMMA GadgetKept == GadgetInv /\ [PathNext]_pathVars => GadgetInv'
<1> SUFFICES ASSUME GadgetInv, [PathNext]_pathVars PROVE GadgetInv'
  OBVIOUS
<1>1. CASE [Next]_vars
  BY <1>1, ControlStep, AnswerStep, UpStep DEF GadgetInv
<1>2. CASE HalActs
  <2>1. /\ UNCHANGED apart
        /\ wasUp \in BOOLEAN => wasUp' \in BOOLEAN /\ (wasUp => wasUp')
    BY <1>2, HalApart
  <2>2. ControlOK' /\ AnswerInv'
    BY <2>1 DEF GadgetInv, ControlOK, AnswerInv, apart
  <2>3. UpTypeOK' /\ UpInv'
    BY <2>1 DEF GadgetInv, UpTypeOK, UpInv, SuccessMeansUp, apart
  <2> QED BY <2>2, <2>3 DEF GadgetInv
<1> QED BY <1>1, <1>2, PathSteps

(* A request to the gadget HAL is answered exactly once, and with SUCCESS  *)
(* only when the gadget was up since the teardown, also while the USB HAL  *)
(* reads, writes, fails and restarts beside it.                            *)
THEOREM AnswersBesideUsbHal == PathSpec => [](AnsweredOnce /\ SuccessMeansUp)
<1>1. PathInit => GadgetInv
  BY GadgetInit DEF PathInit
<1>2. GadgetInv /\ [PathNext]_pathVars => GadgetInv'
  BY GadgetKept
<1>3. GadgetInv => AnsweredOnce /\ SuccessMeansUp
  BY DEF GadgetInv, AnswerInv, UpInv, AnsweredOnce
<1> QED BY <1>1, <1>2, <1>3, PTL DEF PathSpec

-----------------------------------------------------------------------------
(* What is linked and what the monitor watches.                            *)

(* A request links what it asks for, group by group, from nothing.  The    *)
(* vendor functions are not counted: they may change on the way.           *)
LinkInv ==
    /\ bound \subseteq linked
    /\ pc \in {"stopMonitor", "sleep", "validate"} => linked = {} /\ group = 0
    /\ pc \notin {"idle", "resetDown", "resetUp"}
         => mCurrentUsbFunctions = req.functions
    /\ pc = "link" /\ group >= 1 => req.functions \ {"ADB", "NCM"} \subseteq linked
    /\ pc = "link" /\ group >= 3 => req.functions \cap {"ADB"} \subseteq linked
    /\ pc = "start" => /\ req.functions \cap Ffs # {}
                       /\ req.functions \cap Ffs \subseteq linked

(* The monitor runs only for functionfs functions, all of which it         *)
(* watches, and not while a request has torn the gadget down.              *)
WatchInv ==
    /\ pc # "stopMonitor" /\ monitor # "off"
         => linked \cap Ffs # {} /\ linked \cap Ffs \subseteq watched
    /\ pc \in Switching => monitor = "off" /\ ~pulledUp
    /\ pc \in Switching => linked \cap Ffs \subseteq watched

LEMMA LinkStep ==
    ControlOK /\ group \in 0..4 /\ LinkInv /\ [Next]_vars
        => group' \in 0..4 /\ LinkInv'
<1> SUFFICES ASSUME ControlOK, group \in 0..4, LinkInv, [Next]_vars
             PROVE  group' \in 0..4 /\ LinkInv'
  OBVIOUS
<1> USE DEF LinkInv
<1>1. CASE Restart
  BY <1>1 DEF Restart, gadget
<1>2. ASSUME NEW fs \in Issued, NEW cb \in BOOLEAN,
             SetCurrentUsbFunctions(fs, cb)
      PROVE  group' \in 0..4 /\ LinkInv'
  BY <1>2 DEF SetCurrentUsbFunctions, gadget
<1>3. ASSUME NEW cb \in BOOLEAN, Reset(cb) PROVE group' \in 0..4 /\ LinkInv'
  BY <1>3 DEF Reset, gadget
<1>4. CASE Serve
  <2>1. CASE ResetGadget
    BY <2>1 DEF ResetGadget, current
  <2>2. CASE StopMonitor
    BY <2>2 DEF StopMonitor, current, gadget
  <2>3. CASE Disconnected \/ NoFunctions \/ ValidateFails
    BY <2>3 DEF Disconnected, NoFunctions, ValidateFails, current, gadget
  <2>4. CASE Validate
    BY <2>4 DEF Validate, current
  <2>5. CASE LinkGroup
    <3>1. /\ pc = "link" /\ group \in 0..3
          /\ UNCHANGED <<req, mCurrentUsbFunctions, bound>>
      BY <2>5 DEF LinkGroup, LinkGroups, current
    <3>2. CASE pc' = "error"
      <4>1. linked \subseteq linked' /\ group' = group
        BY <2>5, <3>1, <3>2 DEF LinkGroup
      <4> QED BY <3>1, <3>2, <4>1
    <3>3. CASE pc' # "error"
      <4>1. /\ pc' = "link" /\ group' = group + 1
            /\ linked' = linked \cup LinkGroups[group + 1]
        BY <2>5, <3>1, <3>3 DEF LinkGroup
      <4>2. /\ LinkGroups[1] = req.functions \ {"ADB", "NCM"}
            /\ LinkGroups[3] = req.functions \cap {"ADB"}
        BY DEF LinkGroups
      <4>3. group = 0 => req.functions \ {"ADB", "NCM"} \subseteq linked'
        BY <4>1, <4>2
      <4>4. group = 2 => req.functions \cap {"ADB"} \subseteq linked'
        BY <4>1, <4>2
      <4> QED BY <3>1, <4>1, <4>3, <4>4
    <3> QED BY <3>2, <3>3
  <2>6. CASE FunctionsLinked
    <3>1. /\ pc = "link" /\ group = 4
          /\ pc' = IF req.functions \cap Ffs = {} THEN "pullup" ELSE "start"
          /\ UNCHANGED <<req, mCurrentUsbFunctions, bound, linked, group>>
      BY <2>6 DEF FunctionsLinked, LinkGroups, current, gadget
    <3>2. req.functions \cap Ffs \subseteq linked
      BY <3>1 DEF Ffs
    <3> QED BY <3>1, <3>2
  <2>7. CASE PullUpNow
    BY <2>7 DEF PullUpNow
  <2>8. CASE StartMonitor
    BY <2>8 DEF StartMonitor, current, gadget
  <2>9. CASE WaitForPullUp
    BY <2>9 DEF WaitForPullUp, AfterAnswer, current, gadget
  <2>10. CASE Finish \/ SetFailed
    BY <2>10 DEF Finish, SetFailed, current, gadget
  <2>11. CASE ResetDown \/ ResetUp
    BY <2>11 DEF ResetDown, ResetUp, current
  <2> QED BY <1>4, <2>1, <2>2, <2>3, <2>4, <2>5, <2>6, <2>7, <2>8, <2>9,
             <2>10, <2>11 DEF Serve
<1>5. CASE Monitor
  BY <1>5 DEF Monitor, MonitorPullUp, MonitorPullDown,
              CurrentFunctionsAppliedCallback, current, gadget
<1>6. ASSUME NEW f, WriteDescriptors(f) \/ DaemonDies(f)
      PROVE  group' \in 0..4 /\ LinkInv'
  BY <1>6 DEF WriteDescriptors, DaemonDies, current, gadget
<1>7. ASSUME NEW v, ChangeProperty(v) PROVE group' \in 0..4 /\ LinkInv'
  BY <1>7 DEF ChangeProperty, current, gadget
<1>8. CASE UNCHANGED vars
  BY <1>8 DEF vars, current, gadget
<1> QED BY <1>1, <1>2, <1>3, <1>4, <1>5, <1>6, <1>7, <1>8 DEF Next

LEMMA WatchStep ==
    ControlOK /\ group \in 0..4 /\ LinkInv /\ WatchInv /\ [Next]_vars
        => WatchInv'
<1> SUFFICES ASSUME ControlOK, group \in 0..4, LinkInv, WatchInv, [Next]_vars
             PROVE  WatchInv'
  OBVIOUS
<1> USE DEF WatchInv, Switching
<1>k. ASSUME UNCHANGED <<linked, monitor, watched, pulledUp>>,
             pc # "stopMonitor", pc' \in Switching => pc \in Switching
      PROVE  WatchInv'
  BY <1>k
<1>1. CASE Restart
  BY <1>1 DEF Restart
<1>2. ASSUME NEW fs \in Issued, NEW cb \in BOOLEAN,
             SetCurrentUsbFunctions(fs, cb)
      PROVE  WatchInv'
  BY <1>2 DEF SetCurrentUsbFunctions, gadget, ffs
<1>3. ASSUME NEW cb \in BOOLEAN, Reset(cb) PROVE WatchInv'
  BY <1>3 DEF Reset, gadget, ffs
<1>4. CASE Serve
  <2>1. CASE ResetGadget
    BY <2>1 DEF ResetGadget, ffs
  <2>2. CASE StopMonitor
    BY <2>2 DEF StopMonitor, MonitorStopped, LinkInv, gadget
  <2>3. CASE Disconnected \/ NoFunctions \/ ValidateFails
    BY <2>3, <1>k DEF Disconnected, NoFunctions, ValidateFails, gadget, ffs
  <2>4. CASE Validate
    BY <2>4, <1>k DEF Validate, ffs
  <2>5. CASE LinkGroup
    <3>1. /\ pc = "link" /\ UNCHANGED <<monitor, pulledUp>>
          /\ pc' \in {"link", "error"}
      BY <2>5 DEF LinkGroup
    <3>2. \E part : /\ linked' = linked \cup part
                    /\ watched' = watched \cup (part \cap Ffs)
      BY <2>5 DEF LinkGroup
    <3>3. linked' \cap Ffs \subseteq watched'
      BY <3>1, <3>2
    <3> QED BY <3>1, <3>3
  <2>6. CASE FunctionsLinked
    BY <2>6, <1>k DEF FunctionsLinked, gadget, ffs
  <2>7. CASE PullUpNow
    BY <2>7, <1>k DEF PullUpNow, ffs
  <2>8. CASE StartMonitor
    BY <2>8 DEF StartMonitor, LinkInv, gadget
  <2>9. CASE WaitForPullUp
    BY <2>9, <1>k DEF WaitForPullUp, AfterAnswer, gadget, ffs
  <2>10. CASE Finish \/ SetFailed
    BY <2>10, <1>k DEF Finish, SetFailed, gadget, ffs
  <2>11. CASE ResetDown \/ ResetUp
    BY <2>11, <1>k DEF ResetDown, ResetUp, ffs
  <2> QED BY <1>4, <2>1, <2>2, <2>3, <2>4, <2>5, <2>6, <2>7, <2>8, <2>9,
             <2>10, <2>11 DEF Serve
<1>5. CASE Monitor
  BY <1>5 DEF Monitor, MonitorPullUp, MonitorPullDown,
              CurrentFunctionsAppliedCallback, gadget
<1>6. ASSUME NEW f, WriteDescriptors(f) \/ DaemonDies(f) PROVE WatchInv'
  BY <1>6 DEF WriteDescriptors, DaemonDies, gadget, ffs
<1>7. ASSUME NEW v, ChangeProperty(v) PROVE WatchInv'
  BY <1>7 DEF ChangeProperty, gadget, ffs
<1>8. CASE UNCHANGED vars
  BY <1>8 DEF vars, gadget, ffs
<1> QED BY <1>1, <1>2, <1>3, <1>4, <1>5, <1>6, <1>7, <1>8 DEF Next

-----------------------------------------------------------------------------
(* The gadget is up, or the gadget HAL still owes a pull-up.               *)

WorkPcs == {"teardown", "stopMonitor", "sleep", "validate", "link", "pullup",
            "start", "error", "resetDown", "resetUp"}
(* MonitorFfs pulled the gadget up and knows of no reason why it is down.  *)
MonitorUp == ~deleted /\ (monitor = "notifyUp" \/ (monitor = "wait" /\ pulledUp))

(* A request is under way, or has ended without SUCCESS or without         *)
(* functions, or the monitor has yet to act.                               *)
Working ==
    \/ pc \in WorkPcs
    \/ pc \in {"finish", "idle"} /\ (\/ answers # <<"SUCCESS">>
                                     \/ mCurrentUsbFunctions = {})
    \/ linked \cap Ffs # {} /\ ~MonitorUp
UpOrWorking == udc \/ Working

(* No step of the gadget HAL, of a daemon or of the kernel takes the       *)
(* gadget down and leaves it so with an answer of SUCCESS.                 *)
LEMMA UpOrWorkingStep ==
    /\ ControlOK /\ AnswerInv /\ LinkInv /\ WatchInv
    /\ pulledUp \in BOOLEAN /\ deleted \in BOOLEAN
    /\ UpOrWorking /\ [Next]_vars
    => UpOrWorking'
<1> SUFFICES ASSUME ControlOK, AnswerInv, LinkInv, WatchInv,
                    pulledUp \in BOOLEAN, deleted \in BOOLEAN,
                    UpOrWorking, [Next]_vars
             PROVE  UpOrWorking'
  OBVIOUS
<1>w. ASSUME pc' \in WorkPcs PROVE UpOrWorking'
  BY <1>w DEF UpOrWorking, Working
<1>a. ASSUME pc' \in {"finish", "idle"}, answers' # <<"SUCCESS">>
      PROVE  UpOrWorking'
  BY <1>a DEF UpOrWorking, Working
<1>n. ASSUME NEW s \in Results, s # "SUCCESS", NEW ok \in BOOLEAN,
             Answer(s, ok), pc \notin {"idle", "finish"}
      PROVE  answers' # <<"SUCCESS">>
  <2>1. answers' \in {<<>>, <<s>>}
    BY <1>n, AnswerLength DEF ControlOK, AnswerInv
  <2>2. <<>> # <<"SUCCESS">> /\ <<s>> # <<"SUCCESS">>
    BY <1>n
  <2> QED BY <2>1, <2>2
<1>1. CASE Restart
  <2>1. answers' = <<>> /\ pc' = "idle" /\ <<>> # <<"SUCCESS">>
    BY <1>1 DEF Restart
  <2> QED BY <2>1, <1>a
<1>2. ASSUME NEW fs \in Issued, NEW cb \in BOOLEAN,
             SetCurrentUsbFunctions(fs, cb)
      PROVE  UpOrWorking'
  BY <1>2, <1>w DEF SetCurrentUsbFunctions, WorkPcs
<1>3. ASSUME NEW cb \in BOOLEAN, Reset(cb) PROVE UpOrWorking'
  BY <1>3, <1>w DEF Reset, WorkPcs
<1>4. CASE Serve
  <2>1. CASE \/ ResetGadget \/ StopMonitor \/ Disconnected \/ Validate
             \/ ValidateFails \/ LinkGroup \/ FunctionsLinked
    BY <2>1, <1>w DEF ResetGadget, StopMonitor, Disconnected, Validate,
       ValidateFails, LinkGroup, FunctionsLinked, WorkPcs
  <2>2. CASE NoFunctions
    <3>1. pc' = "idle" /\ mCurrentUsbFunctions' = {}
      BY <2>2 DEF NoFunctions, LinkInv, current
    <3> QED BY <3>1 DEF UpOrWorking, Working
  <2>3. CASE PullUpNow
    <3>1. CASE pc' = "error"
      BY <3>1, <1>w DEF WorkPcs
    <3>2. CASE pc' # "error"
      <4>1. Bindable /\ bound' = linked
        BY <2>3, <3>2 DEF PullUpNow, PullUpWorked
      <4> QED BY <4>1 DEF Bindable, UpOrWorking, udc
    <3> QED BY <3>1, <3>2
  <2>4. CASE StartMonitor
    <3>1. /\ monitor' = "wait" /\ ~pulledUp' /\ linked' = linked
          /\ pc = "start"
      BY <2>4 DEF StartMonitor, WatchInv, Switching, gadget
    <3>2. linked' \cap Ffs # {}
      BY <3>1 DEF LinkInv
    <3> QED BY <3>1, <3>2 DEF UpOrWorking, Working, MonitorUp
  <2>5. CASE WaitForPullUp
    <3>1. PICK up \in PullUpSeen, ok \in CallbackOk :
            /\ Answer(IF up THEN "SUCCESS" ELSE "ERROR", ok)
            /\ pc' = IF ok THEN "finish" ELSE "error"
      BY <2>5 DEF WaitForPullUp, AfterAnswer
    <3>2. /\ pc = "wait" /\ ok \in BOOLEAN
          /\ UNCHANGED <<bound, linked, monitor, deleted, pulledUp>>
      BY <2>5 DEF WaitForPullUp, CallbackOk, gadget, ffs
    <3>3. udc \/ (linked \cap Ffs # {} /\ ~MonitorUp)
      BY <3>2 DEF UpOrWorking, Working, WorkPcs
    <3> QED BY <3>2, <3>3 DEF UpOrWorking, Working, MonitorUp, udc
  <2>6. CASE Finish
    <3>1. /\ pc = "finish" /\ pc' = "idle"
          /\ UNCHANGED <<bound, linked, monitor, deleted, pulledUp, answers,
                         mCurrentUsbFunctions>>
      BY <2>6 DEF Finish, current, gadget, ffs, outcome
    <3> QED BY <3>1 DEF UpOrWorking, Working, MonitorUp, WorkPcs, udc
  <2>7. CASE SetFailed
    <3>1. PICK ok \in CallbackOk : Answer(status, ok)
      BY <2>7 DEF SetFailed
    <3>2. pc = "error" /\ pc' = "idle" /\ ok \in BOOLEAN
      BY <2>7 DEF SetFailed, CallbackOk
    <3>3. status \in Results /\ status # "SUCCESS"
      BY <3>2 DEF ControlOK, AnswerInv
    <3>4. answers' # <<"SUCCESS">>
      BY <3>1, <3>2, <3>3, <1>n
    <3> QED BY <3>2, <3>4, <1>a
  <2>8. CASE ResetDown
    <3>1. PICK ok \in PullDownOk, told \in CallbackOk :
            IF ok THEN pc' = "resetUp"
                  ELSE pc' = "idle" /\ Answer("ERROR", told)
      BY <2>8 DEF ResetDown
    <3>2. pc = "resetDown" /\ told \in BOOLEAN
      BY <2>8 DEF ResetDown, CallbackOk
    <3>3. CASE ok
      BY <3>1, <3>3, <1>w DEF WorkPcs
    <3>4. CASE ~ok
      BY <3>1, <3>2, <3>4, <1>n, <1>a DEF Results
    <3> QED BY <3>3, <3>4
  <2>9. CASE ResetUp
    <3>1. PICK wrote \in ConfigfsOk, told \in CallbackOk :
            /\ bound' = IF wrote /\ Bindable THEN linked ELSE bound
            /\ Answer(IF wrote /\ Bindable THEN "SUCCESS" ELSE "ERROR", told)
      BY <2>9 DEF ResetUp
    <3>2. pc = "resetUp" /\ pc' = "idle" /\ told \in BOOLEAN
      BY <2>9 DEF ResetUp, CallbackOk
    <3>3. CASE wrote /\ Bindable
      BY <3>1, <3>3 DEF Bindable, UpOrWorking, udc
    <3>4. CASE ~(wrote /\ Bindable)
      BY <3>1, <3>2, <3>4, <1>n, <1>a DEF Results
    <3> QED BY <3>3, <3>4
  <2> QED BY <1>4, <2>1, <2>2, <2>3, <2>4, <2>5, <2>6, <2>7, <2>8, <2>9
          DEF Serve
<1>5. CASE Monitor
  <2>1. CASE MonitorPullUp
    BY <2>1 DEF MonitorPullUp, Bindable, UpOrWorking, udc
  <2>2. CASE pc = "stopMonitor"
    <3>1. pc' = pc
      BY <1>5 DEF Monitor, MonitorPullUp, MonitorPullDown,
                  CurrentFunctionsAppliedCallback
    <3> QED BY <2>2, <3>1, <1>w DEF WorkPcs
  <2>3. CASE MonitorPullDown /\ pc # "stopMonitor"
    <3>1. linked' \cap Ffs # {}
      BY <2>3 DEF MonitorPullDown, WatchInv
    <3>2. ~MonitorUp'
      BY <2>3 DEF MonitorPullDown, MonitorUp
    <3> QED BY <3>1, <3>2 DEF UpOrWorking, Working
  <2>4. CASE CurrentFunctionsAppliedCallback
    <3>1. UNCHANGED <<pc, bound, linked, answers, mCurrentUsbFunctions>>
      BY <2>4 DEF CurrentFunctionsAppliedCallback, gadget, outcome
    <3>2. MonitorUp' => MonitorUp
      BY <2>4 DEF CurrentFunctionsAppliedCallback, MonitorUp
    <3> QED BY <3>1, <3>2 DEF UpOrWorking, Working, udc
  <2> QED BY <1>5, <2>1, <2>2, <2>3, <2>4 DEF Monitor
<1>6. ASSUME NEW f \in Ffs, DaemonDies(f) PROVE UpOrWorking'
  <2>1. /\ UNCHANGED <<pc, linked, monitor, pulledUp, answers,
                       mCurrentUsbFunctions>>
        /\ bound' = IF f \in bound THEN {} ELSE bound
        /\ deleted' = (deleted \/ (monitor # "off" /\ f \in watched))
    BY <1>6 DEF DaemonDies, current, outcome
  <2>2. CASE pc = "stopMonitor"
    BY <2>1, <2>2, <1>w DEF WorkPcs
  <2>3. CASE pc # "stopMonitor" /\ f \in bound
    <3>1. f \in linked \cap Ffs
      BY <2>3 DEF LinkInv
    <3>2. monitor = "off" \/ deleted'
      BY <2>1, <2>3, <3>1 DEF WatchInv
    <3> QED BY <2>1, <3>1, <3>2 DEF UpOrWorking, Working, MonitorUp
  <2>4. CASE f \notin bound
    <3>1. MonitorUp' => MonitorUp
      BY <2>1 DEF MonitorUp
    <3> QED BY <2>1, <2>4, <3>1 DEF UpOrWorking, Working, udc
  <2> QED BY <2>2, <2>3, <2>4
<1>7. CASE \/ \E f : WriteDescriptors(f)
           \/ \E v : ChangeProperty(v)
           \/ UNCHANGED vars
  <2>1. UNCHANGED <<pc, bound, linked, monitor, deleted, pulledUp, answers,
                    mCurrentUsbFunctions>>
    BY <1>7 DEF WriteDescriptors, ChangeProperty, vars, current, gadget, ffs,
                outcome
  <2> QED BY <2>1 DEF UpOrWorking, Working, MonitorUp, udc
<1> QED BY <1>1, <1>2, <1>3, <1>4, <1>5, <1>6, <1>7 DEF Next

-----------------------------------------------------------------------------
(* What the USB HAL knows of the pull-up.                                  *)

(* It keeps the gadget down, or believes it up when it is not (stale).     *)
HalDown == \/ ~mUsbDataEnabled \/ stale
           \/ halPc = "nodes" /\ halOp = "disable" /\ halResult

HalTypes ==
    /\ halPc \in {"idle", "read", "pull", "nodes"}
    /\ halPc # "idle" => halOp \in {"enable", "disable"}
    /\ halResult \in BOOLEAN /\ mUsbDataEnabled \in BOOLEAN
    /\ toldEnabled \in BOOLEAN /\ stale \in BOOLEAN

(* An enable that is about to succeed found the gadget up, or pulled it    *)
(* up: should it be down again, that is the gadget HAL's doing.            *)
HalInv ==
    /\ halPc = "idle" /\ toldEnabled => mUsbDataEnabled
    /\ halPc = "nodes" /\ halOp = "enable" /\ halResult => UpOrWorking
    /\ UpOrWorking \/ HalDown

MonitorTypes == group \in 0..4 /\ pulledUp \in BOOLEAN /\ deleted \in BOOLEAN

PathInv == /\ GadgetInv /\ MonitorTypes /\ LinkInv /\ WatchInv
           /\ HalTypes /\ HalInv

LEMMA PathInitInv == PathInit => PathInv
<1> SUFFICES ASSUME PathInit PROVE PathInv
  OBVIOUS
<1>1. GadgetInv
  BY GadgetInit DEF PathInit
<1>2. MonitorTypes
  <2>1. pulledUp \in BOOLEAN /\ deleted \in BOOLEAN
    BY Zenon DEF PathInit, Init
  <2>2. group \in 0..4
    BY DEF PathInit, Init
  <2> QED BY <2>1, <2>2 DEF MonitorTypes
<1>3. LinkInv /\ WatchInv
  BY DEF PathInit, Init, LinkInv, WatchInv, Switching
<1>4. HalTypes
  <2>1. /\ halResult \in BOOLEAN /\ mUsbDataEnabled \in BOOLEAN
        /\ toldEnabled \in BOOLEAN /\ stale \in BOOLEAN
    BY Zenon DEF PathInit
  <2>2. halPc = "idle"
    BY DEF PathInit
  <2> QED BY <2>1, <2>2 DEF HalTypes
<1>5. HalInv
  <2>1. pc = "idle" /\ answers = <<>> /\ <<>> # <<"SUCCESS">>
    BY DEF PathInit, Init
  <2>2. halPc = "idle" /\ ~toldEnabled
    BY DEF PathInit
  <2> QED BY <2>1, <2>2 DEF HalInv, UpOrWorking, Working
<1> QED BY <1>1, <1>2, <1>3, <1>4, <1>5 DEF PathInv

LEMMA MonitorTypesStep ==
    MonitorTypes /\ [Next]_vars => pulledUp' \in BOOLEAN /\ deleted' \in BOOLEAN
<1> SUFFICES ASSUME MonitorTypes, [Next]_vars
             PROVE  pulledUp' \in BOOLEAN /\ deleted' \in BOOLEAN
  OBVIOUS
<1> USE DEF MonitorTypes
<1>1. CASE Restart
  BY <1>1 DEF Restart
<1>2. CASE \/ \E fs, cb : SetCurrentUsbFunctions(fs, cb)
           \/ \E cb : Reset(cb)
  BY <1>2 DEF SetCurrentUsbFunctions, Reset, ffs
<1>3. CASE Serve
  BY <1>3 DEF Serve, ResetGadget, StopMonitor, Disconnected, NoFunctions,
     Validate, ValidateFails, LinkGroup, FunctionsLinked, PullUpNow,
     StartMonitor, WaitForPullUp, Finish, SetFailed, ResetDown, ResetUp, ffs
<1>4. CASE Monitor
  BY <1>4 DEF Monitor, MonitorPullUp, MonitorPullDown,
              CurrentFunctionsAppliedCallback
<1>5. CASE \/ \E f : WriteDescriptors(f) \/ DaemonDies(f)
           \/ \E v : ChangeProperty(v)
  BY <1>5 DEF WriteDescriptors, DaemonDies, ChangeProperty, ffs
<1>6. CASE UNCHANGED vars
  BY <1>6 DEF vars, ffs
<1> QED BY <1>1, <1>2, <1>3, <1>4, <1>5, <1>6 DEF Next

(* The part of the invariant that is about the gadget HAL.                 *)
LEMMA LowerKept ==
    ASSUME PathInv, [PathNext]_pathVars
    PROVE  (GadgetInv /\ MonitorTypes /\ LinkInv /\ WatchInv)'
<1>1. GadgetInv'
  BY GadgetKept DEF PathInv
<1>2. CASE [Next]_vars
  BY <1>1, <1>2, LinkStep, WatchStep, MonitorTypesStep
     DEF PathInv, GadgetInv, MonitorTypes
<1>3. CASE HalActs
  <2>1. UNCHANGED apart /\ bound' \in {bound, {}, linked}
    BY <1>3, HalApart
  <2> QED BY <1>1, <2>1 DEF PathInv, MonitorTypes, LinkInv, WatchInv, apart
<1> QED BY <1>2, <1>3, PathSteps

(* The USB HAL's own steps.                                                *)
LEMMA HalKept ==
    ASSUME ~NodeFaults, PathInv, HalActs
    PROVE  HalTypes' /\ HalInv'
<1>1. UNCHANGED apart
  BY HalApart
<1>2. Working' <=> Working
  BY <1>1 DEF Working, MonitorUp, apart
<1>3. NodeOk = {TRUE}
  BY DEF NodeOk
<1>4. HalTypes /\ HalInv
  BY DEF PathInv
<1> HIDE DEF Working
<1> USE DEF HalTypes, HalInv, UpOrWorking, HalDown
<1>5. CASE EnableSkipped
  <2>1. bound' = bound
    BY <1>5 DEF EnableSkipped, vars, gadget
  <2> QED BY <1>2, <1>4, <1>5, <2>1 DEF EnableSkipped, Answered, udc
<1>6. ASSUME NEW op \in HalOps, EnableUsbData(op) PROVE HalTypes' /\ HalInv'
  <2>1. bound' = bound
    BY <1>6 DEF EnableUsbData, vars, gadget
  <2> QED BY <1>2, <1>4, <1>6, <2>1 DEF EnableUsbData, udc
<1>7. CASE ReadPullup
  <2>1. bound' = bound
    BY <1>7 DEF ReadPullup, vars, gadget
  <2>2. halPc' = IF NeedsPull THEN "pull" ELSE "nodes"
    BY <1>3, <1>7 DEF ReadPullup
  <2> QED BY <1>2, <1>4, <1>7, <2>1, <2>2 DEF ReadPullup, NeedsPull, udc
<1>8. CASE PullUp
  <2>1. /\ bound' = IF Bindable THEN linked ELSE bound
        /\ halResult' = Bindable
    BY <1>3, <1>8 DEF PullUp, Bindable, udc
  <2>2. udc => udc'
    BY <2>1 DEF Bindable, udc
  <2>3. halResult' \in BOOLEAN /\ (halResult' => udc')
    BY <2>1 DEF Bindable, udc
  <2> QED BY <1>2, <1>4, <1>8, <2>2, <2>3 DEF PullUp
<1>9. CASE PullDown
  <2>1. halResult' = udc /\ bound' = {}
    BY <1>3, <1>9 DEF PullDown, udc
  <2>2. halResult' \in BOOLEAN
    BY <2>1 DEF udc
  <2> QED BY <1>2, <1>4, <1>9, <2>1, <2>2 DEF PullDown
<1>10. CASE WriteNodes
  <2>1. bound' = bound
    BY <1>10 DEF WriteNodes, vars, gadget
  <2>2. /\ mUsbDataEnabled' = IF halResult THEN halOp = "enable"
                                           ELSE mUsbDataEnabled
        /\ stale' = IF halResult THEN FALSE ELSE stale
        /\ halPc' = "idle" /\ halResult' = TRUE
        /\ toldEnabled' = (halResult /\ halOp = "enable")
    BY <1>3, <1>4, <1>10 DEF WriteNodes, Answered
  <2> QED BY <1>2, <1>4, <1>10, <2>1, <2>2 DEF WriteNodes, udc
<1>11. CASE ResetUsbPort
  <2>1. /\ bound' = {} /\ halPc = "idle" /\ halPc' = "idle"
        /\ halResult' = TRUE
        /\ stale' = (stale \/ (udc /\ mUsbDataEnabled))
        /\ toldEnabled' = FALSE /\ mUsbDataEnabled' = mUsbDataEnabled
    BY <1>3, <1>11 DEF ResetUsbPort, Answered
  <2> QED BY <1>2, <1>4, <2>1 DEF udc
<1>12. CASE HalRestart
  <2>1. /\ bound' = bound /\ halPc' = "idle" /\ halResult' = TRUE
        /\ stale' = (stale \/ ~mUsbDataEnabled \/ halPc # "idle")
        /\ toldEnabled' = FALSE /\ mUsbDataEnabled' = TRUE
    BY <1>12 DEF HalRestart, Answered, gadget
  <2> QED BY <1>2, <1>4, <2>1 DEF udc
<1> QED BY <1>5, <1>6, <1>7, <1>8, <1>9, <1>10, <1>11, <1>12
        DEF HalActs, HalServe

LEMMA PathStep ==
    ASSUME ~NodeFaults PROVE PathInv /\ [PathNext]_pathVars => PathInv'
<1> SUFFICES ASSUME PathInv, [PathNext]_pathVars PROVE PathInv'
  OBVIOUS
<1>1. (GadgetInv /\ MonitorTypes /\ LinkInv /\ WatchInv)'
  BY LowerKept
<1>2. CASE [Next]_vars /\ UNCHANGED hal
  <2>1. UpOrWorking => UpOrWorking'
    BY <1>2, UpOrWorkingStep DEF PathInv, GadgetInv, MonitorTypes
  <2>2. HalTypes' /\ HalInv'
    BY <1>2, <2>1 DEF PathInv, HalTypes, HalInv, HalDown, hal
  <2> QED BY <1>1, <2>2 DEF PathInv
<1>3. CASE HalActs
  BY <1>1, <1>3, HalKept DEF PathInv
<1> QED BY <1>2, <1>3, PathSteps

(* Two answers of success mean a gadget that is up, however the requests   *)
(* to the two services, the daemons, faults of configfs and of callbacks   *)
(* and restarts interleave; only the nodes of the USB HAL must not fail.   *)
THEOREM UpAfterBothAnswers == ~NodeFaults => (PathSpec => []UpWhenEnabled)
<1> SUFFICES ASSUME ~NodeFaults PROVE PathSpec => []UpWhenEnabled
  OBVIOUS
<1>1. PathInit => PathInv
  BY PathInitInv
<1>2. PathInv /\ [PathNext]_pathVars => PathInv'
  BY PathStep
<1>3. PathInv => UpWhenEnabled
  BY DEF PathInv, HalInv, HalDown, UpOrWorking, Working, WorkPcs, MonitorUp,
         UpWhenEnabled, MonitorRests
<1> QED BY <1>1, <1>2, <1>3, PTL DEF PathSpec

-----------------------------------------------------------------------------
(* The product id.                                                         *)

(* The ids that stand for adb.                                             *)
AdbPids == {"4ee2", "4ee4", "4ee6", "4ee7", "4ee9", "2d01", "2d03", "2d05",
            "4eec", "4eee", "6862"}
PidTable == PlainPids \cup {<<q[2], q[3]>> : q \in VendorPids}
PidFits(fs) == \A p \in PidTable : p[2] = pid => ("ADB" \in p[1]) = ("ADB" \in fs)

(* In the tables of validateAndSetVidPid() an id never stands both for a   *)
(* set with adb and for one without.                                       *)
LEMMA AdbOfPid ==
    /\ \A p \in PlainPids : ("ADB" \in p[1]) <=> (p[2] \in AdbPids)
    /\ \A q \in VendorPids : "ADB" \in q[2] /\ q[3] \in AdbPids
<1>1. \A p \in PlainPids : ("ADB" \in p[1]) <=> (p[2] \in AdbPids)
  BY DEF PlainPids, AdbPids
<1>2. \A q \in VendorPids : "ADB" \in q[2] /\ q[3] \in AdbPids
  BY DEF VendorPids, AdbPids
<1> QED BY <1>1, <1>2

LEMMA TableAdb ==
    \A p \in PidTable : ("ADB" \in p[1]) <=> (p[2] \in AdbPids)
  BY AdbOfPid DEF PidTable

(* The id that is written fits the functions asked for.                    *)
LEMMA WrittenPidFits ==
    ASSUME NEW fs, NEW v, NEW uvc, pid' \in PidsFor(fs, v, uvc)
    PROVE  \A p \in PidTable : p[2] = pid' => ("ADB" \in p[1]) = ("ADB" \in fs)
<1>1. (pid' \in AdbPids) <=> ("ADB" \in fs)
  BY AdbOfPid DEF PidsFor
<1> QED BY <1>1, TableAdb

(* The id is that of the current functions as long as any are linked,      *)
(* except between a new request and its teardown.                          *)
PidInv == (linked # {} /\ pc # "teardown") \/ pc = "link"
            => PidFits(mCurrentUsbFunctions)

LEMMA PidStep ==
    ASSUME ~ConfigfsFaults, ~MayRestart, LinkInv, PidInv, [Next]_vars
    PROVE  PidInv'
<1> HIDE DEF PidTable
<1>k. ASSUME UNCHANGED <<linked, pid, mCurrentUsbFunctions>>,
             pc # "teardown", pc' = "link" => pc = "link"
      PROVE  PidInv'
  BY <1>k DEF PidInv, PidFits
<1>1. CASE Restart
  BY <1>1 DEF Restart
<1>2. ASSUME NEW fs, NEW cb, SetCurrentUsbFunctions(fs, cb) PROVE PidInv'
  BY <1>2 DEF SetCurrentUsbFunctions, PidInv
<1>3. ASSUME NEW cb, Reset(cb) PROVE PidInv'
  BY <1>3, <1>k DEF Reset, current, gadget
<1>4. CASE Serve
  <2>1. CASE ResetGadget
    BY <2>1 DEF ResetGadget, PidInv
  <2>2. CASE Validate
    <3>1. /\ pid' \in PidsFor(req.functions, vendor, uvcEnabled)
          /\ pc = "validate" /\ mCurrentUsbFunctions' = mCurrentUsbFunctions
      BY <2>2 DEF Validate, ConfigfsOk, current
    <3>2. mCurrentUsbFunctions' = req.functions
      BY <3>1 DEF LinkInv
    <3> QED BY <3>1, <3>2, WrittenPidFits DEF PidInv, PidFits
  <2>3. CASE LinkGroup
    <3>1. pc = "link" /\ UNCHANGED <<pid, mCurrentUsbFunctions>>
      BY <2>3 DEF LinkGroup, current
    <3> QED BY <3>1 DEF PidInv, PidFits
  <2>4. CASE \/ StopMonitor \/ Disconnected \/ NoFunctions \/ ValidateFails
             \/ FunctionsLinked \/ StartMonitor \/ WaitForPullUp \/ Finish
             \/ SetFailed
    BY <2>4, <1>k DEF StopMonitor, Disconnected, NoFunctions, ValidateFails,
       FunctionsLinked, StartMonitor, WaitForPullUp, AfterAnswer, Finish,
       SetFailed, current, gadget
  <2>5. CASE PullUpNow \/ ResetDown \/ ResetUp
    BY <2>5, <1>k DEF PullUpNow, ResetDown, ResetUp, current
  <2> QED BY <1>4, <2>1, <2>2, <2>3, <2>4, <2>5 DEF Serve
<1>5. CASE \/ Monitor \/ \E f : WriteDescriptors(f) \/ DaemonDies(f)
           \/ \E v : ChangeProperty(v) \/ UNCHANGED vars
  <2>1. UNCHANGED <<pc, linked, pid, mCurrentUsbFunctions>>
    BY <1>5 DEF Monitor, MonitorPullUp, MonitorPullDown,
       CurrentFunctionsAppliedCallback, WriteDescriptors, DaemonDies,
       ChangeProperty, vars, current, gadget
  <2> QED BY <2>1 DEF PidInv, PidFits
<1> QED BY <1>1, <1>2, <1>3, <1>4, <1>5 DEF Next

(* The product id of a complete gadget shows whether adb is there,         *)
(* whatever the vendor property does and whoever pulled the gadget up, as  *)
(* long as configfs takes what is written and the gadget HAL lives.        *)
THEOREM PidOfAdb ==
    ~ConfigfsFaults /\ ~MayRestart => (PathSpec => []PidShowsAdb)
<1> SUFFICES ASSUME ~ConfigfsFaults, ~MayRestart
             PROVE  PathSpec => []PidShowsAdb
  OBVIOUS
<1> DEFINE Inv == ControlOK /\ group \in 0..4 /\ LinkInv /\ PidInv
<1>1. PathInit => Inv
  BY InitControl DEF PathInit, Init, LinkInv, PidInv
<1>2. Inv /\ [PathNext]_pathVars => Inv'
  <2> SUFFICES ASSUME Inv, [PathNext]_pathVars PROVE Inv'
    OBVIOUS
  <2>1. CASE [Next]_vars
    BY <2>1, ControlStep, LinkStep, PidStep
  <2>2. CASE HalActs
    <3>1. UNCHANGED apart /\ bound' \in {bound, {}, linked}
      BY <2>2, HalApart
    <3> QED BY <3>1 DEF ControlOK, LinkInv, PidInv, PidFits, apart
  <2> QED BY <2>1, <2>2, PathSteps
<1>3. Inv => PidShowsAdb
  <2> SUFFICES ASSUME Inv, udc, pc # "teardown",
                      bound \cap GadgetFunction = mCurrentUsbFunctions
               PROVE  PidFits(bound)
    BY DEF PidShowsAdb, PidFits, PidTable
  <2>1. linked # {}
    BY DEF LinkInv, udc
  <2>2. ("ADB" \in mCurrentUsbFunctions) = ("ADB" \in bound)
    BY DEF GadgetFunction
  <2> QED BY <2>1, <2>2 DEF PidInv, PidFits
<1> QED BY <1>1, <1>2, <1>3, PTL DEF PathSpec
=============================================================================
