------------------------------- MODULE Health -------------------------------
(***************************************************************************)
(* The Health HAL's own part (health/Health.cpp): the storage report, whose*)
(* wear values are read from the UFS device at most once a day of the      *)
(* system clock and kept in between, and the chain of updates a battery    *)
(* report goes through.  Its loop and its binder calls are one thread.     *)
(***************************************************************************)
EXTENDS Integers

CONSTANTS
    Interval,    \* kUfsQueryIntervalHours
    Faults,      \* may the access to a file fail?
    Levels,      \* battery levels
    Sources,     \* power sources that can be online
    MaxClock, MaxWear, MaxAdjustments    \* bounds

ASSUME HealthAssumption ==
    /\ Interval \in Nat \ {0} /\ Faults \in BOOLEAN
    /\ MaxClock \in Nat /\ MaxWear \in Nat /\ MaxAdjustments \in Nat

(* eol_info, life_time_estimation_a and life_time_estimation_b.            *)
Files    == {"eol", "lifetimeA", "lifetimeB"}
Versions == {"none", "ufs", "garbage"}
NoLevel  == -1

VARIABLES
    clock,               \* the system clock, in hours since its epoch
    ufs_last_query_time,
    ufs_version,         \* "none": not read yet
    cache,               \* the values kept of the three files
    wear,                \* the device: the value its three files hold
    info,                \* the last StorageInfo of this run of the service
    needs_wlc_updates,
    delivered,           \* the last battery report
    wlcCapacity,         \* the wireless charger's capacity node
    adjustments,         \* adjustments of the clock still allowed
    age,                 \* hours since the files were tried, at most Interval
    setBack,             \* the clock runs behind that time (ghost)
    reported             \* both, at the last storage report (ghost)

storage == <<ufs_last_query_time, ufs_version, cache, info>>
battery == <<needs_wlc_updates, delivered, wlcCapacity>>
world   == <<clock, wear, adjustments, setBack>>
vars    == <<storage, battery, world, age, reported>>

NoReport == [level |-> NoLevel, online |-> {}]
NotYet   == [age |-> 0, behind |-> FALSE]

(* private_healthd_board_init() looks for the wireless charger once.  A    *)
(* device without a set clock starts at the clock's epoch.                 *)
Init ==
    /\ clock \in {0, Interval} /\ ufs_last_query_time = 0
    /\ setBack = (clock < Interval) /\ age = Interval
    /\ ufs_version = "none" /\ cache = [f \in Files |-> 0]
    /\ info = [version |-> "none", values |-> cache]
    /\ wear = 1
    /\ needs_wlc_updates \in BOOLEAN
    /\ delivered = NoReport /\ wlcCapacity = NoLevel
    /\ adjustments = MaxAdjustments /\ reported = NotYet

AccessOk == IF Faults THEN BOOLEAN ELSE {TRUE}

-----------------------------------------------------------------------------
(* private_get_storage_info().                                             *)

(* read_ufs_version(): what a failed read leaves in value was never set.   *)
Version(readable) ==
    IF ufs_version # "none" THEN ufs_version
    ELSE IF readable THEN "ufs" ELSE "garbage"

M_Due == clock - ufs_last_query_time > Interval
Due == clock - ufs_last_query_time >= Interval

(* A file that cannot be opened leaves the value kept of it as it was.     *)
M_ReadValue(f, opened) == IF opened THEN wear ELSE 0
ReadValue(f, opened) == IF opened THEN wear ELSE cache[f]

(* The time of the reading is kept whatever became of it.                  *)
GetStorageInfo ==
    \E versionOk \in AccessOk, opened \in [Files -> AccessOk] :
       /\ ufs_version' = Version(versionOk)
       /\ ufs_last_query_time' = IF Due THEN clock ELSE ufs_last_query_time
       /\ cache' = [f \in Files |-> IF Due THEN ReadValue(f, opened[f])
                                    ELSE cache[f]]
       /\ info' = [version |-> ufs_version', values |-> cache']
       /\ age' = IF Due THEN 0 ELSE age
       /\ setBack' = (setBack /\ ~Due)
       /\ reported' = [age |-> age', behind |-> setBack']
       /\ UNCHANGED <<battery, clock, wear, adjustments>>

-----------------------------------------------------------------------------
(* private_healthd_board_battery_update(): DeviceHealth and the two loggers*)
(* leave the report as it is; ChargerDetect sets what is online, and       *)
(* BatteryDefender, which comes after it, may set anything else.           *)
UpdateHealthInfo ==
    \E level \in Levels, online \in SUBSET Sources, wrote \in AccessOk :
       /\ delivered' = [level |-> level, online |-> online]
       /\ wlcCapacity' = IF needs_wlc_updates /\ wrote THEN level
                        ELSE wlcCapacity
       /\ UNCHANGED <<needs_wlc_updates, storage, world, age, reported>>

-----------------------------------------------------------------------------
(* The device and the clock.                                               *)

Hour ==
    /\ clock < MaxClock /\ clock' = clock + 1
    /\ age' = IF age < Interval THEN age + 1 ELSE age
    /\ UNCHANGED <<storage, battery, wear, adjustments, setBack, reported>>

(* The clock is set: by the network, or by the user, also back.            *)
SetClock ==
    /\ adjustments > 0 /\ adjustments' = adjustments - 1
    /\ clock' \in 0..MaxClock
    /\ setBack' = (setBack \/ clock' < ufs_last_query_time + age)
    /\ UNCHANGED <<storage, battery, wear, age, reported>>

WearOut ==
    /\ wear < MaxWear /\ wear' = wear + 1
    /\ UNCHANGED <<storage, battery, clock, adjustments, age, setBack,
                   reported>>

(* init starts the service again; its statics start afresh.                *)
Restart ==
    /\ adjustments > 0 /\ adjustments' = adjustments - 1
    /\ ufs_last_query_time' = 0 /\ ufs_version' = "none"
    /\ cache' = [f \in Files |-> 0]
    /\ needs_wlc_updates' \in BOOLEAN
    /\ info' = [version |-> "none", values |-> cache'] /\ delivered' = NoReport
    /\ age' = Interval /\ setBack' = (clock < Interval)
    /\ reported' = NotYet
    /\ UNCHANGED <<wlcCapacity, clock, wear>>

Next == \/ GetStorageInfo \/ UpdateHealthInfo
        \/ Hour \/ SetClock \/ WearOut \/ Restart

Spec == Init /\ [][Next]_vars

-----------------------------------------------------------------------------
(* Properties.                                                             *)

(* No storage report, the first or a later one, due or not, rests on files *)
(* that were last tried a day or more before it, although the day is       *)
(* measured with a clock that can be set, also forward: only a clock that  *)
(* was set back, or that still counts from its epoch, delays the next      *)
(* reading.                                                                *)
ReportIsFresh == reported.behind \/ reported.age < Interval

(* The wear values of a report are values the device had: a file that      *)
(* cannot be read leaves the value read before, and the zeros of a service *)
(* that has just started are not reported once all files were read.        *)
ReportIsReal ==
    [][info.values # [f \in Files |-> 0] /\ info'.version # "none"
         => \A f \in Files : info'.values[f] \in info.values[f]..wear]_vars

=============================================================================
