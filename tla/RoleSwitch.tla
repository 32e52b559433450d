----------------------------- MODULE RoleSwitch -----------------------------
(***************************************************************************)
(* What switchRole() promises of a mode switch, without threads, locks,    *)
(* signals and timeouts: the switch forces the wanted role on the port at  *)
(* most once, then either a partner uevent is handled and it is done, or   *)
(* it fails and the port is dual role again.  While a switch is in         *)
(* progress nothing else changes the port's type; at other times it is     *)
(* only ever returned to dual role.                                        *)
(*                                                                         *)
(* The uevent need not be news: one that was sent before the type was      *)
(* forced and is handled after it counts as well.                          *)
(***************************************************************************)
CONSTANTS
    SingleRoles,  \* the roles a port can be forced into
    Refusals      \* may the kernel refuse a write of the port's type?

VARIABLES
    portType,     \* "dual" or a role of SingleRoles
    phase,        \* "idle", "trying", "waiting", "done" or "failed"
    wanted,       \* the role of the switch in progress, "none" if unsupported
    handled       \* a partner uevent was handled since the port's type was
                  \* forced, whenever it was sent

vars == <<portType, phase, wanted, handled>>

Init ==
    /\ portType \in SingleRoles \cup {"dual"}
    /\ phase = "idle" /\ wanted = "none" /\ handled = FALSE

(* A switch begins; it skips the attempt when the port cannot be opened.   *)
Begin(r) ==
    /\ phase = "idle"
    /\ wanted' = r
    /\ phase' = "trying" \/ (Refusals /\ phase' = "waiting")
    /\ UNCHANGED <<portType, handled>>

Force ==
    /\ phase = "trying"
    /\ \/ portType' = wanted /\ wanted # "none"
       \/ portType' = portType /\ (wanted = "none" \/ Refusals)
    /\ phase' = "waiting"
    /\ handled' = FALSE
    /\ UNCHANGED wanted

(* A partner uevent, of this partner or of one before, is handled.         *)
HandlePartner ==
    /\ handled' = TRUE
    /\ UNCHANGED <<portType, phase, wanted>>

Succeed ==
    /\ phase = "waiting" /\ handled
    /\ phase' = "done"
    /\ UNCHANGED <<portType, wanted, handled>>

Recover == portType' = "dual" \/ (Refusals /\ UNCHANGED portType)

Fail ==
    /\ phase = "waiting"
    /\ Recover
    /\ phase' = "failed"
    /\ UNCHANGED <<wanted, handled>>

Tell ==
    /\ phase \in {"done", "failed"}
    /\ phase' = "idle" /\ wanted' = "none"
    /\ UNCHANGED <<portType, handled>>

(* The port, disconnected, is returned to dual role.                       *)
Disconnected ==
    /\ phase = "idle"
    /\ Recover
    /\ UNCHANGED <<phase, wanted, handled>>

Conclude == Force \/ Succeed \/ Fail \/ Tell

Next == \/ \E r \in SingleRoles \cup {"none"} : Begin(r)
        \/ Conclude \/ HandlePartner \/ Disconnected

Spec == Init /\ [][Next]_vars

(* A switch that began comes to an end.                                    *)
FairSpec == Spec /\ WF_vars(Conclude)
=============================================================================
