--------------------------- MODULE WarningSource ---------------------------
(***************************************************************************)
(* What the USB HAL sees of the data session monitor, without devices,     *)
(* timers and epoll: it has a data role and a set of warnings that the     *)
(* role allows; a change of the set by an evaluation is followed by the    *)
(* callback, before anything else changes.  This is what the code does,    *)
(* which is less than the comments of the monitor's callback say: they     *)
(* promise a call at every change, and a new session clears the set        *)
(* without one.                                                            *)
(***************************************************************************)
CONSTANTS Roles,         \* the data roles, "none" among them
          Possible(_)    \* the warnings a session of a role can have

VARIABLES mDataRole, mWarningSet,
          notifying      \* the set changed and its callback has not returned

vars == <<mDataRole, mWarningSet, notifying>>

Init == mDataRole \in Roles /\ mWarningSet = {} /\ notifying = FALSE

(* A session starts with a role, or again with a pullup of the gadget.     *)
(* setupNewSession() clears the set and does not call the callback.        *)
NewSession(r) ==
    /\ ~notifying
    /\ r # mDataRole \/ r = "device"
    /\ mDataRole' = r /\ mWarningSet' = {}
    /\ UNCHANGED notifying

Change(ws) ==
    /\ ~notifying
    /\ ws # mWarningSet
    /\ mWarningSet' = ws /\ notifying' = TRUE
    /\ UNCHANGED mDataRole

Notify ==
    /\ notifying /\ notifying' = FALSE
    /\ UNCHANGED <<mDataRole, mWarningSet>>

Next == \/ \E r \in Roles : NewSession(r)
        \/ \E ws \in SUBSET Possible(mDataRole) : Change(ws)
        \/ Notify

Spec == Init /\ [][Next]_vars

(* A callback that was called returns.                                     *)
FairSpec == Spec /\ WF_vars(Notify)
=============================================================================
