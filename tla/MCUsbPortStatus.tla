-------------------------- MODULE MCUsbPortStatus --------------------------
(* An instance of UsbPortStatus: a partner that supports power delivery    *)
(* and a debug accessory that does not.                                    *)
EXTENDS UsbPortStatus

TwoPartners == {[accessory |-> "none", pd |-> TRUE],
                [accessory |-> "debug", pd |-> FALSE]}
=============================================================================
