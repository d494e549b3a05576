-------------------------- MODULE DeviceEnrolment --------------------------
(***************************************************************************)
(* What importing vouchers is for, without handlers, files or failures: a  *)
(* device is registered with the Owner Service, recorded with its          *)
(* organisation in the OCS DB, and only then given the exec file it will   *)
(* run, or reported to the client as imported.  Only the records of the    *)
(* organisations can be lost, all at once.                                 *)
(***************************************************************************)
CONSTANT Devices

VARIABLES
    registered,   \* devices whose voucher the Owner Service has
    recorded,     \* devices with an organisation file in the OCS DB
    provisioned,  \* devices whose exec file the Owner Service has
    confirmed     \* devices some client was told are imported

vars == <<registered, recorded, provisioned, confirmed>>

Init ==
    /\ registered = {}
    /\ recorded = {}
    /\ provisioned = {}
    /\ confirmed = {}

Register(d) ==
    /\ registered' = registered \cup {d}
    /\ UNCHANGED <<recorded, provisioned, confirmed>>

Record(d) ==
    /\ d \in registered
    /\ recorded' = recorded \cup {d}
    /\ UNCHANGED <<registered, provisioned, confirmed>>

Provision(d) ==
    /\ d \in recorded
    /\ provisioned' = provisioned \cup {d}
    /\ UNCHANGED <<registered, recorded, confirmed>>

Confirm(d) ==
    /\ d \in recorded
    /\ confirmed' = confirmed \cup {d}
    /\ UNCHANGED <<registered, recorded, provisioned>>

\* The OCS DB went with its container.
Forget ==
    /\ recorded' = {}
    /\ UNCHANGED <<registered, provisioned, confirmed>>

Next ==
    \/ \E d \in Devices : Register(d) \/ Record(d) \/ Provision(d) \/ Confirm(d)
    \/ Forget

Spec == Init /\ [][Next]_vars
=============================================================================
