-------------------------- MODULE UsbGadgetProofs --------------------------
(***************************************************************************)
(* Proofs about UsbGadget, for every set of requests and vendor functions, *)
(* every bound, and with or without faults and restarts of the service.    *)
(***************************************************************************)
EXTENDS UsbGadget, TLAPS

-----------------------------------------------------------------------------
(* The place of the binder thread and what it has said.                    *)

ControlOK == pc \in Pcs /\ req \in Requests /\ status \in Results

(* Before its last steps a request has told nothing; after them it has, or *)
(* a call failed.                                                          *)
AnswerInv ==
    /\ answers \in Seq(Results) /\ failed \in BOOLEAN
    /\ Len(answers) <= 1
    /\ pc \notin {"idle", "finish"} => answers = <<>>
    /\ pc \in {"idle", "finish"} /\ req.callback
         => failed \/ Len(answers) = 1
    /\ pc = "wait" => req.callback
    /\ pc = "error" => status # "SUCCESS"

(* After the teardown there is nothing to pull up until functions are      *)
(* linked, and no monitor that could.                                      *)
DownInv ==
    /\ pc = "stopMonitor" => bound = {}
    /\ pc \in {"stopMonitor", "sleep", "validate"} => linked = {}
    /\ DownWhileSwitching

(* A pull-up that MonitorFfs remembers is one since the last teardown,     *)
(* except between the teardown and the end of the monitor.                 *)
UpInv ==
    /\ pc # "stopMonitor" /\ (pulledUp \/ monitor = "notifyUp") => wasUp
    /\ SuccessMeansUp

environment == <<pc, req, status, answers, failed, wasUp, linked, monitor,
                 pulledUp>>

(* What the daemons and the properties do is no business of these fields.  *)
LEMMA EnvironmentStep ==
    ASSUME NEW f, NEW v,
           WriteDescriptors(f) \/ DaemonDies(f) \/ ChangeProperty(v)
    PROVE  UNCHANGED environment /\ bound' \in {bound, {}}
  BY DEF WriteDescriptors, DaemonDies, ChangeProperty, environment, outcome,
         gadget, ffs

(* The empty sequence and the sequences of one answer.                     *)
LEMMA AnswerLength ==
    ASSUME answers = <<>>, NEW s \in Results, NEW ok \in BOOLEAN,
           req \in Requests, failed \in BOOLEAN, Answer(s, ok)
    PROVE  /\ answers' \in Seq(Results) /\ failed' \in BOOLEAN
           /\ answers' \in {<<>>, <<s>>}
           /\ Len(answers') <= 1
           /\ req.callback => failed' \/ Len(answers') = 1
<1>1. req.callback \in BOOLEAN
  BY DEF Requests
<1>2. Append(<<>>, s) = <<s>> /\ Len(<<s>>) = 1 /\ <<s>> \in Seq(Results)
  OBVIOUS
<1>3. Len(<<>>) = 0 /\ <<>> \in Seq(Results)
  OBVIOUS
<1>4. CASE req.callback /\ ok
  <2>1. answers' = <<s>> /\ failed' = failed
    BY <1>2, <1>4 DEF Answer
  <2> QED BY <1>2, <2>1
<1>5. CASE ~(req.callback /\ ok)
  <2>1. answers' = <<>> /\ failed' = (failed \/ req.callback)
    BY <1>1, <1>5 DEF Answer
  <2> QED BY <1>1, <1>3, <2>1
<1> QED BY <1>4, <1>5

LEMMA InitControl == Init => ControlOK /\ AnswerInv
<1> SUFFICES ASSUME Init PROVE ControlOK /\ AnswerInv
  OBVIOUS
<1>1. ControlOK /\ ~req.callback /\ pc = "idle"
  BY DEF Init, ControlOK, Pcs, Requests, Results
<1>2. answers = <<>> /\ failed = FALSE /\ Len(answers) = 0
        /\ answers \in Seq(Results)
  BY DEF Init
<1>3. failed \in BOOLEAN
  BY <1>2
<1>4. Len(answers) <= 1
  BY <1>2
<1> QED BY <1>1, <1>2, <1>3, <1>4 DEF AnswerInv

LEMMA ControlStep == ControlOK /\ [Next]_vars => ControlOK'
<1> SUFFICES ASSUME ControlOK, [Next]_vars PROVE ControlOK'
  OBVIOUS
<1> USE DEF ControlOK, Pcs, Results
<1>1. CASE Restart
  BY <1>1 DEF Restart, Requests
<1>2. ASSUME NEW fs \in Issued, NEW cb \in BOOLEAN,
             SetCurrentUsbFunctions(fs, cb)
      PROVE  ControlOK'
  BY <1>2, ConstantsAssumption DEF SetCurrentUsbFunctions, Requests
<1>3. ASSUME NEW cb \in BOOLEAN, Reset(cb) PROVE ControlOK'
  BY <1>3 DEF Reset, Requests
<1>4. CASE Serve
  <2>1. CASE ResetGadget  BY <2>1 DEF ResetGadget
  <2>2. CASE StopMonitor  BY <2>2 DEF StopMonitor
  <2>3. CASE Disconnected  BY <2>3 DEF Disconnected
  <2>4. CASE NoFunctions  BY <2>4 DEF NoFunctions
  <2>5. CASE Validate  BY <2>5 DEF Validate
  <2>6. CASE ValidateFails  BY <2>6 DEF ValidateFails
  <2>7. CASE LinkGroup  BY <2>7 DEF LinkGroup
  <2>8. CASE FunctionsLinked  BY <2>8 DEF FunctionsLinked
  <2>9. CASE PullUpNow  BY <2>9 DEF PullUpNow
  <2>10. CASE StartMonitor  BY <2>10 DEF StartMonitor
  <2>11. CASE WaitForPullUp  BY <2>11 DEF WaitForPullUp, AfterAnswer
  <2>12. CASE Finish  BY <2>12 DEF Finish
  <2>13. CASE SetFailed  BY <2>13 DEF SetFailed
  <2>14. CASE ResetDown  BY <2>14 DEF ResetDown
  <2>15. CASE ResetUp  BY <2>15 DEF ResetUp
  <2> QED BY <1>4, <2>1, <2>2, <2>3, <2>4, <2>5, <2>6, <2>7, <2>8, <2>9,
             <2>10, <2>11, <2>12, <2>13, <2>14, <2>15 DEF Serve
<1>5. CASE Monitor
  BY <1>5 DEF Monitor, MonitorPullUp, MonitorPullDown,
              CurrentFunctionsAppliedCallback
<1>6. ASSUME NEW f, NEW v,
             WriteDescriptors(f) \/ DaemonDies(f) \/ ChangeProperty(v)
      PROVE  ControlOK'
  BY <1>6, EnvironmentStep DEF environment
<1>7. CASE UNCHANGED vars
  BY <1>7 DEF vars
<1> QED BY <1>1, <1>2, <1>3, <1>4, <1>5, <1>6, <1>7 DEF Next

(* Steps that neither tell the callback nor end a request.                 *)
LEMMA AnswerKept ==
    ASSUME AnswerInv, UNCHANGED <<answers, failed, req>>,
           pc \notin {"idle", "finish"}, pc' \notin {"idle", "finish"},
           pc' = "wait" => req.callback, pc' = "error" => status' # "SUCCESS"
    PROVE  AnswerInv'
  BY DEF AnswerInv

(* Each step keeps AnswerInv.                                              *)
LEMMA AnswerStep ==
    ControlOK /\ AnswerInv /\ [Next]_vars => AnswerInv'
<1> SUFFICES ASSUME ControlOK, AnswerInv, [Next]_vars PROVE AnswerInv'
  OBVIOUS
<1>a. ASSUME NEW s \in Results, NEW ok \in BOOLEAN, Answer(s, ok),
             pc \notin {"idle", "finish"}, req' = req,
             pc' \in {"idle", "finish"}
      PROVE  AnswerInv'
  <2>1. /\ answers' \in Seq(Results) /\ failed' \in BOOLEAN
        /\ Len(answers') <= 1
        /\ req.callback => failed' \/ Len(answers') = 1
    BY <1>a, AnswerLength DEF AnswerInv, ControlOK
  <2> QED BY <1>a, <2>1 DEF AnswerInv
<1>b. ASSUME answers' = <<>>, failed' = FALSE,
             pc' \notin {"finish", "wait", "error"},
             pc' = "idle" => ~req'.callback
      PROVE  AnswerInv'
  <2>1. answers' \in Seq(Results) /\ Len(answers') <= 1
    BY <1>b
  <2> QED BY <1>b, <2>1 DEF AnswerInv
<1>1. CASE Restart
  BY <1>1, <1>b DEF Restart
<1>2. ASSUME NEW fs \in Issued, NEW cb \in BOOLEAN,
             SetCurrentUsbFunctions(fs, cb)
      PROVE  AnswerInv'
  BY <1>2, <1>b DEF SetCurrentUsbFunctions
<1>3. ASSUME NEW cb \in BOOLEAN, Reset(cb) PROVE AnswerInv'
  BY <1>3, <1>b DEF Reset
<1>4. CASE Serve
  <2>1. CASE ResetGadget
    BY <2>1, AnswerKept DEF ResetGadget, outcome
  <2>2. CASE StopMonitor
    BY <2>2, AnswerKept DEF StopMonitor, outcome
  <2>3. CASE Disconnected
    BY <2>3, AnswerKept DEF Disconnected, outcome
  <2>4. CASE NoFunctions
    BY <2>4, <1>a DEF NoFunctions, CallbackOk, Results
  <2>5. CASE Validate
    BY <2>5, AnswerKept DEF Validate, outcome
  <2>6. CASE ValidateFails
    BY <2>6, AnswerKept DEF ValidateFails, outcome
  <2>7. CASE LinkGroup
    BY <2>7, AnswerKept DEF LinkGroup, outcome
  <2>8. CASE FunctionsLinked
    BY <2>8, AnswerKept DEF FunctionsLinked, outcome
  <2>9. CASE PullUpNow
    <3>1. PICK wrote \in ConfigfsOk, ok \in CallbackOk :
            IF wrote /\ Bindable
            THEN Answer("SUCCESS", ok) /\ pc' = "finish"
            ELSE /\ status' = "ERROR" /\ pc' = "error"
                 /\ UNCHANGED <<answers, failed>>
      BY <2>9 DEF PullUpNow, PullUpWorked
    <3>2. pc = "pullup" /\ req' = req /\ ok \in BOOLEAN
      BY <2>9 DEF PullUpNow, CallbackOk
    <3>3. CASE wrote /\ Bindable
      BY <3>1, <3>2, <3>3, <1>a DEF Results
    <3>4. CASE ~(wrote /\ Bindable)
      BY <3>1, <3>2, <3>4, AnswerKept
    <3> QED BY <3>3, <3>4
  <2>10. CASE StartMonitor
    <3>1. pc = "start" /\ UNCHANGED <<req, answers, failed>>
            /\ pc' = IF req.callback THEN "wait" ELSE "finish"
      BY <2>10 DEF StartMonitor, outcome
    <3> QED BY <3>1 DEF AnswerInv
  <2>11. CASE WaitForPullUp
    <3>1. PICK up \in PullUpSeen, ok \in CallbackOk :
            /\ Answer(IF up THEN "SUCCESS" ELSE "ERROR", ok)
            /\ pc' = IF ok THEN "finish" ELSE "error"
            /\ status' = IF ok THEN "SUCCESS" ELSE "ERROR"
      BY <2>11 DEF WaitForPullUp, AfterAnswer
    <3>2. pc = "wait" /\ req' = req /\ ok \in BOOLEAN
      BY <2>11 DEF WaitForPullUp, CallbackOk
    <3>3. CASE ok
      BY <3>1, <3>2, <3>3, <1>a DEF Results
    <3>4. CASE ~ok
      <4>1. answers' = answers /\ failed' \in BOOLEAN
        BY <3>1, <3>4 DEF Answer, AnswerInv
      <4>2. pc' = "error" /\ status' = "ERROR"
        BY <3>1, <3>4
      <4> QED BY <3>2, <4>1, <4>2 DEF AnswerInv
    <3> QED BY <3>2, <3>3, <3>4
  <2>12. CASE Finish
    BY <2>12 DEF Finish, AnswerInv, outcome
  <2>13. CASE SetFailed
    BY <2>13, <1>a DEF SetFailed, CallbackOk, ControlOK
  <2>14. CASE ResetDown
    <3>1. PICK ok \in PullDownOk, told \in CallbackOk :
            IF ok THEN pc' = "resetUp" /\ UNCHANGED outcome
                  ELSE pc' = "idle" /\ Answer("ERROR", told)
      BY <2>14 DEF ResetDown
    <3>2. pc = "resetDown" /\ req' = req /\ told \in BOOLEAN
      BY <2>14 DEF ResetDown, CallbackOk
    <3>3. CASE ok
      BY <3>1, <3>2, <3>3, AnswerKept DEF outcome
    <3>4. CASE ~ok
      BY <3>1, <3>2, <3>4, <1>a DEF Results
    <3> QED BY <3>3, <3>4
  <2>15. CASE ResetUp
    <3>1. PICK wrote \in ConfigfsOk, told \in CallbackOk :
            Answer(IF wrote /\ Bindable THEN "SUCCESS" ELSE "ERROR", told)
      BY <2>15 DEF ResetUp
    <3>2. pc = "resetUp" /\ pc' = "idle" /\ req' = req /\ told \in BOOLEAN
      BY <2>15 DEF ResetUp, CallbackOk
    <3> QED BY <3>1, <3>2, <1>a DEF Results
  <2> QED BY <1>4, <2>1, <2>2, <2>3, <2>4, <2>5, <2>6, <2>7, <2>8, <2>9,
             <2>10, <2>11, <2>12, <2>13, <2>14, <2>15 DEF Serve
<1>5. CASE Monitor
  <2>1. UNCHANGED <<pc, req, status, answers, failed>>
    BY <1>5 DEF Monitor, MonitorPullUp, MonitorPullDown,
                CurrentFunctionsAppliedCallback, outcome
  <2> QED BY <2>1 DEF AnswerInv
<1>6. ASSUME NEW f, NEW v,
             WriteDescriptors(f) \/ DaemonDies(f) \/ ChangeProperty(v)
      PROVE  AnswerInv'
  BY <1>6, EnvironmentStep DEF environment, AnswerInv
<1>7. CASE UNCHANGED vars
  BY <1>7 DEF vars, outcome, AnswerInv
<1> QED BY <1>1, <1>2, <1>3, <1>4, <1>5, <1>6, <1>7 DEF Next

(* A request that carries a callback is answered exactly once on every     *)
(* path of setCurrentUsbFunctions() and reset(), whatever fails.           *)
THEOREM RequestsAnsweredOnce == Spec => []AnsweredOnce
<1>1. Init => ControlOK /\ AnswerInv
  BY InitControl
<1>2. ControlOK /\ AnswerInv /\ [Next]_vars => (ControlOK /\ AnswerInv)'
  BY ControlStep, AnswerStep
<1>3. AnswerInv => AnsweredOnce
  BY DEF AnswerInv, AnsweredOnce
<1> QED BY <1>1, <1>2, <1>3, PTL DEF Spec

-----------------------------------------------------------------------------
(* The pull-up.                                                            *)

Switching == {"sleep", "validate", "link", "pullup", "start"}

LEMMA DownStep == ControlOK /\ DownInv /\ [Next]_vars => DownInv'
<1> SUFFICES ASSUME ControlOK, DownInv, [Next]_vars PROVE DownInv'
  OBVIOUS
<1> USE DEF DownInv, DownWhileSwitching, udc
<1>o. ASSUME pc' \notin Switching \cup {"stopMonitor"} PROVE DownInv'
  BY <1>o DEF Switching
<1>s. ASSUME pc \in Switching, UNCHANGED <<bound, monitor>>,
             pc' \in {"sleep", "validate"} => linked' = {},
             pc' # "stopMonitor"
      PROVE  DownInv'
  BY <1>s DEF Switching
<1>1. CASE Restart
  BY <1>1, <1>o DEF Restart, Switching
<1>2. ASSUME NEW fs \in Issued, NEW cb \in BOOLEAN,
             SetCurrentUsbFunctions(fs, cb)
      PROVE  DownInv'
  BY <1>2, <1>o DEF SetCurrentUsbFunctions, Switching
<1>3. ASSUME NEW cb \in BOOLEAN, Reset(cb) PROVE DownInv'
  BY <1>3, <1>o DEF Reset, Switching
<1>4. CASE Serve
  <2>1. CASE ResetGadget
    BY <2>1 DEF ResetGadget
  <2>2. CASE StopMonitor
    BY <2>2 DEF StopMonitor, MonitorStopped, gadget
  <2>3. CASE Disconnected
    BY <2>3, <1>s DEF Disconnected, Switching, gadget, ffs
  <2>4. CASE NoFunctions
    BY <2>4, <1>o DEF NoFunctions, Switching
  <2>5. CASE Validate
    BY <2>5, <1>s, <1>o DEF Validate, Switching, ffs
  <2>6. CASE ValidateFails
    BY <2>6, <1>o DEF ValidateFails, Switching
  <2>7. CASE LinkGroup
    BY <2>7, <1>s, <1>o DEF LinkGroup, Switching
  <2>8. CASE FunctionsLinked
    BY <2>8, <1>s DEF FunctionsLinked, Switching, gadget, ffs
  <2>9. CASE PullUpNow
    BY <2>9, <1>o DEF PullUpNow, Switching
  <2>10. CASE StartMonitor
    BY <2>10, <1>o DEF StartMonitor, Switching
  <2>11. CASE WaitForPullUp
    BY <2>11, <1>o DEF WaitForPullUp, AfterAnswer, Switching
  <2>12. CASE Finish
    BY <2>12, <1>o DEF Finish, Switching
  <2>13. CASE SetFailed
    BY <2>13, <1>o DEF SetFailed, Switching
  <2>14. CASE ResetDown
    BY <2>14, <1>o DEF ResetDown, Switching
  <2>15. CASE ResetUp
    BY <2>15, <1>o DEF ResetUp, Switching
  <2> QED BY <1>4, <2>1, <2>2, <2>3, <2>4, <2>5, <2>6, <2>7, <2>8, <2>9,
             <2>10, <2>11, <2>12, <2>13, <2>14, <2>15 DEF Serve
<1>5. CASE Monitor
  <2>1. CASE MonitorPullUp
    BY <2>1 DEF MonitorPullUp, Bindable
  <2>2. CASE MonitorPullDown
    BY <2>2 DEF MonitorPullDown
  <2>3. CASE CurrentFunctionsAppliedCallback
    BY <2>3 DEF CurrentFunctionsAppliedCallback, gadget
  <2> QED BY <1>5, <2>1, <2>2, <2>3 DEF Monitor
<1>6. ASSUME NEW f, NEW v,
             WriteDescriptors(f) \/ DaemonDies(f) \/ ChangeProperty(v)
      PROVE  DownInv'
  BY <1>6, EnvironmentStep DEF environment
<1>7. CASE UNCHANGED vars
  BY <1>7 DEF vars, gadget, ffs
<1> QED BY <1>1, <1>2, <1>3, <1>4, <1>5, <1>6, <1>7 DEF Next

(* Nothing pulls the gadget up between the teardown and the new functions, *)
(* the monitor of the old ones included.                                   *)
THEOREM GadgetDownWhileSwitching == Spec => []DownWhileSwitching
<1>1. Init => ControlOK /\ DownInv
  BY InitControl DEF Init, DownInv, DownWhileSwitching
<1>2. ControlOK /\ DownInv /\ [Next]_vars => (ControlOK /\ DownInv)'
  BY ControlStep, DownStep
<1>3. DownInv => DownWhileSwitching
  BY DEF DownInv
<1> QED BY <1>1, <1>2, <1>3, PTL DEF Spec

-----------------------------------------------------------------------------
(* The answer SUCCESS.                                                     *)

UpTypeOK == wasUp \in BOOLEAN /\ pulledUp \in BOOLEAN

LEMMA UpStep ==
    ControlOK /\ AnswerInv /\ UpTypeOK /\ UpInv /\ [Next]_vars
        => UpTypeOK' /\ UpInv'
<1> SUFFICES ASSUME ControlOK, AnswerInv, UpTypeOK, UpInv, [Next]_vars
             PROVE  UpTypeOK' /\ UpInv'
  OBVIOUS
<1>e. <<"SUCCESS">> # <<>>
  OBVIOUS
<1> USE DEF UpTypeOK, UpInv, SuccessMeansUp
<1>k. ASSUME UNCHANGED <<wasUp, pulledUp, monitor, answers, req>>,
             pc # "stopMonitor"
      PROVE  UpTypeOK' /\ UpInv'
  BY <1>k
<1>n. ASSUME NEW s \in Results, NEW ok \in BOOLEAN, Answer(s, ok),
             answers = <<>>, req' = req,
             UNCHANGED <<pulledUp, monitor>>, pc # "stopMonitor",
             wasUp' \in BOOLEAN, wasUp => wasUp',
             s = "SUCCESS" /\ req.op = "set" /\ req.functions # {} => wasUp'
      PROVE  UpTypeOK' /\ UpInv'
  <2>1. answers' \in {<<>>, <<s>>}
    BY <1>n, AnswerLength DEF ControlOK, AnswerInv
  <2>2. answers' = <<"SUCCESS">> => s = "SUCCESS"
    BY <2>1
  <2> QED BY <1>n, <2>2
<1>1. CASE Restart
  BY <1>1, <1>e DEF Restart
<1>2. ASSUME NEW fs \in Issued, NEW cb \in BOOLEAN,
             SetCurrentUsbFunctions(fs, cb)
      PROVE  UpTypeOK' /\ UpInv'
  BY <1>2, <1>e DEF SetCurrentUsbFunctions, ffs
<1>3. ASSUME NEW cb \in BOOLEAN, Reset(cb) PROVE UpTypeOK' /\ UpInv'
  BY <1>3, <1>e DEF Reset, ffs
<1>4. CASE Serve
  <2>1. CASE ResetGadget
    BY <2>1, <1>e DEF ResetGadget, AnswerInv, ffs, outcome
  <2>2. CASE StopMonitor
    BY <2>2, <1>e DEF StopMonitor, MonitorStopped, AnswerInv, outcome
  <2>3. CASE Disconnected
    BY <2>3, <1>k DEF Disconnected, ffs, outcome
  <2>4. CASE NoFunctions
    <3>1. PICK ok \in CallbackOk : Answer("SUCCESS", ok)
      BY <2>4 DEF NoFunctions
    <3>2. /\ pc = "sleep" /\ req.functions = {} /\ ok \in BOOLEAN
          /\ UNCHANGED <<req, wasUp, pulledUp, monitor>>
      BY <2>4 DEF NoFunctions, CallbackOk, ffs
    <3> QED BY <3>1, <3>2, <1>n DEF AnswerInv, Results
  <2>5. CASE Validate
    BY <2>5, <1>k DEF Validate, ffs, outcome
  <2>6. CASE ValidateFails
    BY <2>6, <1>k DEF ValidateFails, ffs, outcome
  <2>7. CASE LinkGroup
    BY <2>7, <1>k DEF LinkGroup, outcome
  <2>8. CASE FunctionsLinked
    BY <2>8, <1>k DEF FunctionsLinked, ffs, outcome
  <2>9. CASE PullUpNow
    <3>1. PICK wrote \in ConfigfsOk, ok \in CallbackOk :
            /\ bound' = IF wrote /\ Bindable THEN linked ELSE bound
            /\ IF wrote /\ Bindable
               THEN Answer("SUCCESS", ok)
               ELSE UNCHANGED <<answers, failed>>
      BY <2>9 DEF PullUpNow, PullUpWorked
    <3>2. /\ pc = "pullup" /\ ok \in BOOLEAN
          /\ UNCHANGED <<req, pulledUp, monitor>>
          /\ wasUp' = (wasUp \/ bound' # {})
      BY <2>9 DEF PullUpNow, CallbackOk, ffs
    <3>3. CASE wrote /\ Bindable
      <4>1. wasUp'
        BY <3>1, <3>2, <3>3 DEF Bindable
      <4>2. wasUp' \in BOOLEAN
        BY <3>2
      <4> QED BY <3>1, <3>2, <3>3, <4>1, <4>2, <1>n DEF AnswerInv, Results
    <3>4. CASE ~(wrote /\ Bindable)
      <4>1. answers' = <<>>
        BY <3>1, <3>2, <3>4 DEF AnswerInv
      <4> QED BY <3>2, <4>1, <1>e
    <3> QED BY <3>3, <3>4
  <2>10. CASE StartMonitor
    <3>1. /\ pc = "start" /\ monitor' = "wait"
          /\ UNCHANGED <<req, wasUp, pulledUp, answers>>
      BY <2>10 DEF StartMonitor, outcome
    <3> QED BY <3>1
  <2>11. CASE WaitForPullUp
    <3>1. PICK up \in PullUpSeen, ok \in CallbackOk :
            Answer(IF up THEN "SUCCESS" ELSE "ERROR", ok)
      BY <2>11 DEF WaitForPullUp
    <3>2. /\ pc = "wait" /\ ok \in BOOLEAN
          /\ UNCHANGED <<req, wasUp, pulledUp, monitor>>
      BY <2>11, <3>1 DEF WaitForPullUp, CallbackOk, ffs
    <3>3. up => pulledUp
      BY <3>1, Zenon DEF PullUpSeen
    <3>4. (IF up THEN "SUCCESS" ELSE "ERROR") = "SUCCESS" => wasUp
      BY <3>2, <3>3
    <3> QED BY <3>1, <3>2, <3>4, <1>n DEF AnswerInv, Results
  <2>12. CASE Finish
    BY <2>12, <1>k DEF Finish, ffs, outcome
  <2>13. CASE SetFailed
    <3>1. PICK ok \in CallbackOk : Answer(status, ok)
      BY <2>13 DEF SetFailed
    <3>2. /\ pc = "error" /\ ok \in BOOLEAN
          /\ UNCHANGED <<req, wasUp, pulledUp, monitor>>
      BY <2>13 DEF SetFailed, CallbackOk, ffs
    <3> QED BY <3>1, <3>2, <1>n DEF AnswerInv, ControlOK
  <2>14. CASE ResetDown
    <3>1. PICK ok \in PullDownOk, told \in CallbackOk :
            IF ok THEN UNCHANGED outcome ELSE Answer("ERROR", told)
      BY <2>14 DEF ResetDown
    <3>2. /\ pc = "resetDown" /\ told \in BOOLEAN
          /\ UNCHANGED <<req, wasUp, pulledUp, monitor>>
      BY <2>14 DEF ResetDown, CallbackOk, ffs
    <3>3. CASE ok
      BY <3>1, <3>2, <3>3, <1>k DEF outcome
    <3>4. CASE ~ok
      BY <3>1, <3>2, <3>4, <1>n DEF AnswerInv, Results
    <3> QED BY <3>3, <3>4
  <2>15. CASE ResetUp
    <3>1. PICK wrote \in ConfigfsOk, told \in CallbackOk :
            /\ wasUp' = (wasUp \/ (wrote /\ Bindable))
            /\ Answer(IF wrote /\ Bindable THEN "SUCCESS" ELSE "ERROR", told)
      BY <2>15 DEF ResetUp
    <3>2. /\ pc = "resetUp" /\ told \in BOOLEAN
          /\ UNCHANGED <<req, pulledUp, monitor>>
      BY <2>15 DEF ResetUp, CallbackOk, ffs
    <3>3. wasUp' \in BOOLEAN /\ (wasUp => wasUp')
      BY <3>1
    <3>4. (IF wrote /\ Bindable THEN "SUCCESS" ELSE "ERROR") = "SUCCESS"
            => wasUp'
      BY <3>1
    <3> QED BY <3>1, <3>2, <3>3, <3>4, <1>n DEF AnswerInv, Results
  <2> QED BY <1>4, <2>1, <2>2, <2>3, <2>4, <2>5, <2>6, <2>7, <2>8, <2>9,
             <2>10, <2>11, <2>12, <2>13, <2>14, <2>15 DEF Serve
<1>5. CASE Monitor
  <2>1. CASE MonitorPullUp
    BY <2>1 DEF MonitorPullUp, outcome
  <2>2. CASE MonitorPullDown
    BY <2>2 DEF MonitorPullDown, outcome
  <2>3. CASE CurrentFunctionsAppliedCallback
    BY <2>3 DEF CurrentFunctionsAppliedCallback, outcome
  <2> QED BY <1>5, <2>1, <2>2, <2>3 DEF Monitor
<1>6. ASSUME NEW f, NEW v,
             WriteDescriptors(f) \/ DaemonDies(f) \/ ChangeProperty(v)
      PROVE  UpTypeOK' /\ UpInv'
  BY <1>6, EnvironmentStep DEF environment
<1>7. CASE UNCHANGED vars
  BY <1>7 DEF vars, ffs, outcome
<1> QED BY <1>1, <1>2, <1>3, <1>4, <1>5, <1>6, <1>7 DEF Next

(* The framework is told SUCCESS of functions only when the gadget was     *)
(* pulled up since the teardown, late and lost pull-ups included.          *)
THEOREM SuccessAfterPullUp == Spec => []SuccessMeansUp
<1>1. Init => ControlOK /\ AnswerInv /\ UpTypeOK /\ UpInv
  <2> SUFFICES ASSUME Init PROVE UpTypeOK /\ UpInv
    BY InitControl
  <2>1. <<"SUCCESS">> # <<>>
    OBVIOUS
  <2> QED BY <2>1 DEF Init, UpTypeOK, UpInv, SuccessMeansUp
<1>2. ControlOK /\ AnswerInv /\ UpTypeOK /\ UpInv /\ [Next]_vars
        => (ControlOK /\ AnswerInv /\ UpTypeOK /\ UpInv)'
  BY ControlStep, AnswerStep, UpStep
<1>3. UpInv => SuccessMeansUp
  BY DEF UpInv
<1> QED BY <1>1, <1>2, <1>3, PTL DEF Spec

-----------------------------------------------------------------------------
(* The types.                                                              *)

AllFunctions == GadgetFunction \cup VendorFunction
Pids == {"none", "6862"} \cup {p[2] : p \in PlainPids}

SettingsOK ==
    /\ mCurrentUsbFunctions \subseteq GadgetFunction
    /\ mCurrentUsbFunctionsApplied \in BOOLEAN
    /\ vendor \in Vendors /\ uvcEnabled \in BOOLEAN
    /\ irqCore \in {"any", "big", "medium"} /\ accessoryLimit \in BOOLEAN
    /\ budget \in 0..MaxEvents
GadgetOK ==
    /\ linked \subseteq AllFunctions /\ bound \subseteq AllFunctions
    /\ pid \in Pids /\ group \in 0..4
    /\ monitor \in {"off", "wait", "notifyUp", "notifyDown"}
    /\ watched \subseteq Ffs /\ deleted \in BOOLEAN
    /\ ready \subseteq Ffs

(* validateAndSetVidPid() only writes ids of its tables.                   *)
LEMMA PidTypes ==
    ASSUME NEW fs, NEW v, NEW uvc PROVE PidsFor(fs, v, uvc) \subseteq Pids
<1>1. ASSUME NEW q \in VendorPids PROVE q[3] \in {"6862", "4ee2"}
  BY <1>1 DEF VendorPids
<1>2. "4ee2" \in {p[2] : p \in PlainPids}
  <2>1. <<{"ADB", "MTP"}, "4ee2">> \in PlainPids
    BY DEF PlainPids
  <2> QED BY <2>1
<1> QED BY <1>1, <1>2 DEF PidsFor, Pids

LEMMA LinkTypes ==
    ASSUME ControlOK, NEW g \in 0..3
    PROVE  LinkGroups[g + 1] \subseteq AllFunctions
<1>1. VendorLinks(vendor) \subseteq VendorFunction
  BY DEF VendorLinks, VendorFunction
<1>2. req.functions \subseteq GadgetFunction
  BY DEF ControlOK, Requests
<1>3. g + 1 \in {1, 2, 3, 4}
  OBVIOUS
<1>4. /\ LinkGroups[1] = req.functions \ {"ADB", "NCM"}
      /\ LinkGroups[2] = VendorLinks(vendor)
      /\ LinkGroups[3] = req.functions \cap {"ADB"}
      /\ LinkGroups[4] = req.functions \cap {"NCM"}
  BY DEF LinkGroups
<1> QED BY <1>1, <1>2, <1>3, <1>4 DEF AllFunctions

LEMMA SettingsStep == ControlOK /\ SettingsOK /\ [Next]_vars => SettingsOK'
<1> SUFFICES ASSUME ControlOK, SettingsOK, [Next]_vars PROVE SettingsOK'
  OBVIOUS
<1> USE ConstantsAssumption DEF SettingsOK
<1>1. CASE Restart
  BY <1>1 DEF Restart, property, tuning
<1>2. ASSUME NEW fs \in Issued, NEW cb \in BOOLEAN,
             SetCurrentUsbFunctions(fs, cb)
      PROVE  SettingsOK'
  BY <1>2 DEF SetCurrentUsbFunctions, property, tuning
<1>3. ASSUME NEW cb \in BOOLEAN, Reset(cb) PROVE SettingsOK'
  BY <1>3 DEF Reset, current, property, tuning
<1>4. CASE Serve
  <2>1. CASE PullUpNow
    BY <2>1 DEF PullUpNow, property, tuning
  <2>2. CASE Finish
    BY <2>2 DEF Finish, Core, ConfigfsOk, current, property
  <2>3. CASE ~PullUpNow /\ ~Finish
    BY <1>4, <2>3 DEF Serve, ResetGadget, StopMonitor, Disconnected,
           NoFunctions, Validate, ValidateFails, LinkGroup, FunctionsLinked,
           StartMonitor, WaitForPullUp, SetFailed, ResetDown, ResetUp,
           current, property, tuning
  <2> QED BY <2>1, <2>2, <2>3
<1>5. CASE Monitor
  BY <1>5 DEF Monitor, MonitorPullUp, MonitorPullDown,
              CurrentFunctionsAppliedCallback, current, property, tuning
<1>6. ASSUME NEW f, WriteDescriptors(f) \/ DaemonDies(f) PROVE SettingsOK'
  BY <1>6 DEF WriteDescriptors, DaemonDies, current, property, tuning
<1>7. ASSUME NEW v \in Vendors, ChangeProperty(v) PROVE SettingsOK'
  BY <1>7 DEF ChangeProperty, current, tuning
<1>8. CASE UNCHANGED vars
  BY <1>8 DEF vars, current, property, tuning
<1> QED BY <1>1, <1>2, <1>3, <1>4, <1>5, <1>6, <1>7, <1>8 DEF Next

LEMMA GadgetStep == ControlOK /\ GadgetOK /\ [Next]_vars => GadgetOK'
<1> SUFFICES ASSUME ControlOK, GadgetOK, [Next]_vars PROVE GadgetOK'
  OBVIOUS
<1> USE DEF GadgetOK
<1>1. CASE Restart
  BY <1>1 DEF Restart, gadget
<1>2. ASSUME NEW fs \in Issued, NEW cb \in BOOLEAN,
             SetCurrentUsbFunctions(fs, cb)
      PROVE  GadgetOK'
  BY <1>2 DEF SetCurrentUsbFunctions, gadget, ffs
<1>3. ASSUME NEW cb \in BOOLEAN, Reset(cb) PROVE GadgetOK'
  BY <1>3 DEF Reset, gadget, ffs
<1>4. CASE Serve
  <2>1. CASE ResetGadget
    BY <2>1 DEF ResetGadget, ffs
  <2>2. CASE StopMonitor
    BY <2>2 DEF StopMonitor, MonitorStopped, EndpointsLeft, gadget
  <2>3. CASE Validate
    BY <2>3, PidTypes DEF Validate, ffs
  <2>4. CASE LinkGroup
    <3>1. group \in 0..3 /\ pc = "link"
      BY <2>4 DEF LinkGroup, LinkGroups
    <3>2. LinkGroups[group + 1] \subseteq AllFunctions
      BY <3>1, LinkTypes
    <3>3. linked' \subseteq AllFunctions /\ watched' \subseteq Ffs
      BY <2>4, <3>2 DEF LinkGroup
    <3>4. group' \in 0..4
      BY <2>4, <3>1 DEF LinkGroup
    <3> QED BY <2>4, <3>3, <3>4 DEF LinkGroup
  <2>5. CASE PullUpNow
    BY <2>5 DEF PullUpNow, ffs
  <2>6. CASE StartMonitor
    BY <2>6 DEF StartMonitor, gadget
  <2>7. CASE ResetDown
    BY <2>7 DEF ResetDown, ffs
  <2>8. CASE ResetUp
    BY <2>8 DEF ResetUp, ffs
  <2>9. CASE \/ Disconnected \/ NoFunctions \/ ValidateFails
             \/ FunctionsLinked \/ WaitForPullUp \/ Finish \/ SetFailed
    BY <2>9 DEF Disconnected, NoFunctions, ValidateFails, FunctionsLinked,
           WaitForPullUp, Finish, SetFailed, gadget, ffs
  <2> QED BY <1>4, <2>1, <2>2, <2>3, <2>4, <2>5, <2>6, <2>7, <2>8, <2>9
          DEF Serve
<1>5. CASE Monitor
  BY <1>5 DEF Monitor, MonitorPullUp, MonitorPullDown,
              CurrentFunctionsAppliedCallback, gadget
<1>6. ASSUME NEW f \in Ffs, WriteDescriptors(f) \/ DaemonDies(f)
      PROVE  GadgetOK'
  BY <1>6 DEF WriteDescriptors, DaemonDies, gadget, ffs
<1>7. ASSUME NEW v \in Vendors, ChangeProperty(v) PROVE GadgetOK'
  BY <1>7 DEF ChangeProperty, gadget, ffs
<1>8. CASE UNCHANGED vars
  BY <1>8 DEF vars, gadget, ffs
<1> QED BY <1>1, <1>2, <1>3, <1>4, <1>5, <1>6, <1>7, <1>8 DEF Next

(* Every variable of the gadget HAL keeps its type.                        *)
THEOREM GadgetTypeCorrect == Spec => []TypeOK
<1> DEFINE Types == /\ ControlOK /\ AnswerInv /\ UpTypeOK /\ UpInv
                    /\ SettingsOK /\ GadgetOK
<1>1. Init => Types
  <2> SUFFICES ASSUME Init PROVE Types
    OBVIOUS
  <2>1. <<"SUCCESS">> # <<>>
    OBVIOUS
  <2>2. UpTypeOK /\ UpInv
    BY <2>1 DEF Init, UpTypeOK, UpInv, SuccessMeansUp
  <2>3. SettingsOK
    <3>1. /\ accessoryLimit \in BOOLEAN
          /\ mCurrentUsbFunctionsApplied \in BOOLEAN
          /\ vendor \in Vendors /\ uvcEnabled \in BOOLEAN
      BY Zenon DEF Init
    <3>2. /\ mCurrentUsbFunctions \subseteq GadgetFunction
          /\ budget \in 0..MaxEvents /\ irqCore = "any"
      BY ConstantsAssumption DEF Init
    <3> QED BY <3>1, <3>2 DEF SettingsOK
  <2>4. GadgetOK
    <3>1. deleted \in BOOLEAN
      BY Zenon DEF Init
    <3>2. /\ linked = {} /\ bound = {} /\ watched = {} /\ ready = {}
          /\ pid = "none" /\ group = 0 /\ monitor = "off"
      BY DEF Init
    <3> QED BY <3>1, <3>2 DEF GadgetOK, Pids
  <2> QED BY <2>2, <2>3, <2>4, InitControl
<1>2. Types /\ [Next]_vars => Types'
  BY ControlStep, AnswerStep, UpStep, SettingsStep, GadgetStep
<1>3. Types => TypeOK
  BY DEF ControlOK, AnswerInv, UpTypeOK, SettingsOK, GadgetOK, AllFunctions,
         Pids, TypeOK
<1> QED BY <1>1, <1>2, <1>3, PTL DEF Spec
=============================================================================
