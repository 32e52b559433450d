---------------------------- MODULE HealthProofs ----------------------------
(***************************************************************************)
(* Proofs about Health for every interval, every bound and with or without *)
(* faults.  That a report is fresh is a matter of two clocks: the one the  *)
(* code reads and the hours that really passed (age).  As long as the      *)
(* clock was not set back, it shows at least those hours since the last    *)
(* reading (ClockInv), so a reading that is not due is not yet needed.     *)
(***************************************************************************)
EXTENDS Health, TLAPS

(* The clock, unless set back, shows at least the hours that passed.       *)
ClockInv ==
    /\ clock \in Int /\ ufs_last_query_time \in Int
    /\ age \in 0..Interval /\ setBack \in BOOLEAN
    /\ ~setBack => ufs_last_query_time + age <= clock

(* Initially the files count as tried a whole interval before the epoch.   *)
LEMMA InitInv == Init => ClockInv
<1> SUFFICES ASSUME Init PROVE ClockInv
  OBVIOUS
<1>1. clock \in Int /\ ufs_last_query_time = 0 /\ age = Interval
  BY HealthAssumption DEF Init
<1>2. setBack = (clock < Interval)
  BY DEF Init
<1>3. CASE clock < Interval
  <2>1. setBack = TRUE
    BY <1>2, <1>3
  <2> QED BY <1>1, <2>1, HealthAssumption DEF ClockInv
<1>4. CASE ~(clock < Interval)
  BY <1>1, <1>2, <1>4, HealthAssumption DEF ClockInv
<1> QED BY <1>3, <1>4

(* Every step keeps the clocks in order.                                   *)
LEMMA ClockStep == ClockInv /\ [Next]_vars => ClockInv'
<1> SUFFICES ASSUME ClockInv, [Next]_vars PROVE ClockInv'
  OBVIOUS
<1> USE HealthAssumption DEF ClockInv
<1>1. CASE GetStorageInfo
  <2>1. CASE Due
    BY <1>1, <2>1 DEF GetStorageInfo
  <2>2. CASE ~Due
    BY <1>1, <2>2 DEF GetStorageInfo
  <2> QED BY <2>1, <2>2
<1>2. CASE UpdateHealthInfo
  BY <1>2 DEF UpdateHealthInfo, storage, world
<1>3. CASE Hour
  BY <1>3 DEF Hour, storage
<1>4. CASE SetClock
  <2>1. /\ clock' \in Int /\ UNCHANGED <<ufs_last_query_time, age>>
        /\ setBack' = (setBack \/ clock' < ufs_last_query_time + age)
    BY <1>4 DEF SetClock, storage
  <2>2. CASE setBack \/ clock' < ufs_last_query_time + age
    <3>1. setBack' = TRUE
      BY <2>1, <2>2
    <3> QED BY <2>1, <3>1
  <2>3. CASE ~(setBack \/ clock' < ufs_last_query_time + age)
    <3>1. setBack' = FALSE
      BY <2>1, <2>3
    <3> QED BY <2>1, <2>3, <3>1
  <2> QED BY <2>2, <2>3
<1>5. CASE WearOut
  BY <1>5 DEF WearOut, storage
<1>6. CASE Restart
  <2>1. /\ clock' = clock /\ ufs_last_query_time' = 0 /\ age' = Interval
        /\ setBack' = (clock < Interval)
    BY <1>6 DEF Restart
  <2>2. CASE clock < Interval
    <3>1. setBack' = TRUE
      BY <2>1, <2>2
    <3> QED BY <2>1, <3>1
  <2>3. CASE ~(clock < Interval)
    BY <2>1, <2>3
  <2> QED BY <2>2, <2>3
<1>7. CASE UNCHANGED vars
  BY <1>7 DEF vars, storage, world
<1> QED BY <1>1, <1>2, <1>3, <1>4, <1>5, <1>6, <1>7 DEF Next

(* No storage report rests on files that were last tried Interval hours or *)
(* more before it, unless the clock was set back: for every Interval.      *)
THEOREM FreshReports == Spec => []ReportIsFresh
<1>1. Init => ReportIsFresh
  BY HealthAssumption DEF Init, NotYet, ReportIsFresh
<1>2. ClockInv /\ ReportIsFresh /\ [Next]_vars => ReportIsFresh'
  <2> SUFFICES ASSUME ClockInv, ReportIsFresh, [Next]_vars
               PROVE  ReportIsFresh'
    OBVIOUS
  <2>1. CASE GetStorageInfo
    <3>1. /\ reported' = [age |-> age', behind |-> setBack']
          /\ age' = IF Due THEN 0 ELSE age
          /\ setBack' = (setBack /\ ~Due)
      BY <2>1 DEF GetStorageInfo
    <3>2. reported'.age = age' /\ reported'.behind = setBack'
      BY <3>1
    <3>3. CASE Due
      BY <3>1, <3>2, <3>3, HealthAssumption DEF ReportIsFresh
    <3>4. CASE ~Due /\ setBack
      BY <3>1, <3>2, <3>4 DEF ReportIsFresh
    <3>5. CASE ~Due /\ ~setBack
      <4>1. age < Interval
        BY <3>5, HealthAssumption DEF Due, ClockInv
      <4> QED BY <3>1, <3>2, <3>5, <4>1 DEF ReportIsFresh
    <3> QED BY <3>3, <3>4, <3>5
  <2>2. CASE Restart
    BY <2>2, HealthAssumption DEF Restart, NotYet, ReportIsFresh
  <2>3. CASE UNCHANGED reported
    BY <2>3 DEF ReportIsFresh
  <2> QED BY <2>1, <2>2, <2>3
          DEF Next, vars, UpdateHealthInfo, Hour, SetClock, WearOut
<1> QED BY <1>1, <1>2, InitInv, ClockStep, PTL DEF Spec

(* What is kept was read from the device, which only wears out, and what   *)
(* was reported is what is kept, but for the zeros of a fresh service.     *)
NothingRead == [f \in Files |-> 0]
RealInv ==
    /\ wear \in Nat
    /\ cache \in [Files -> Nat] /\ \A f \in Files : cache[f] <= wear
    /\ info.values # NothingRead => info.values = cache

RealValues ==
    info.values # NothingRead /\ info'.version # "none"
      => \A f \in Files : info'.values[f] \in info.values[f]..wear

(* Every step keeps that, and reports real values.                         *)
LEMMA RealStep ==
    ASSUME RealInv, [Next]_vars PROVE RealInv' /\ RealValues
<1>1. CASE GetStorageInfo
  <2>1. PICK versionOk \in AccessOk, opened \in [Files -> AccessOk] :
          /\ cache' = [f \in Files |-> IF Due THEN ReadValue(f, opened[f])
                                       ELSE cache[f]]
          /\ info' = [version |-> ufs_version', values |-> cache']
          /\ UNCHANGED wear
    BY <1>1 DEF GetStorageInfo
  <2>2. /\ cache' \in [Files -> Nat]
        /\ \A f \in Files : cache[f] <= cache'[f] /\ cache'[f] <= wear
    <3>1. ASSUME NEW f \in Files
          PROVE  cache'[f] \in {cache[f], wear}
      BY <2>1 DEF ReadValue
    <3>2. cache' = [f \in Files |-> cache'[f]]
      BY <2>1
    <3> QED BY <3>1, <3>2 DEF RealInv
  <2>3. info'.values = cache'
    BY <2>1
  <2> QED BY <2>1, <2>2, <2>3 DEF RealInv, RealValues
<1>2. CASE Restart
  <2>1. /\ cache' = NothingRead /\ UNCHANGED wear
        /\ info'.values = cache' /\ info'.version = "none"
    BY <1>2 DEF Restart, NothingRead
  <2> QED BY <2>1 DEF RealInv, RealValues, NothingRead
<1>3. CASE UNCHANGED storage
  <2>1. UNCHANGED <<cache, info>>
    BY <1>3 DEF storage
  <2>2. wear' = wear \/ wear' = wear + 1
    BY <1>3 DEF Next, GetStorageInfo, UpdateHealthInfo, Hour, SetClock,
                WearOut, Restart, world, vars
  <2> QED BY <2>1, <2>2 DEF RealInv, RealValues
<1> QED BY <1>1, <1>2, <1>3
        DEF Next, vars, UpdateHealthInfo, Hour, SetClock, WearOut

(* The wear values reported are values the device had, and never less than *)
(* those reported before: for every interval, whichever files can be read. *)
THEOREM RealReports == Spec => ReportIsReal
<1>1. Init => RealInv
  BY DEF Init, RealInv, NothingRead
<1>2. RealInv /\ [Next]_vars => RealInv' /\ [RealValues]_vars
  BY RealStep
<1> QED BY <1>1, <1>2, PTL DEF Spec, ReportIsReal, RealValues, NothingRead
=============================================================================
