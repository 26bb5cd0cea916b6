-------------------------- MODULE BlockDeviceSerial --------------------------
(***************************************************************************)
(* The driver and what its callers have to keep apart.  Neither the driver *)
(* nor lib/host_actions.py takes a lock, and calls that overlap on a host  *)
(* can harm each other (BlockDeviceSafety).  It is enough that             *)
(* detach_volume does not overlap with attach_volume or detach_volume on   *)
(* the same host: all other calls may overlap, there and anywhere.         *)
(***************************************************************************)
EXTENDS BlockDeviceSafety

\* Mutant: the callers keep only the calls on one volume apart.
DetachesAloneOnVolume ==
  \A p, q \in Procs :
    p # q /\ HostOf[p] = HostOf[q] /\ call[p].op = "detach"
          /\ call[p].wwn = call[q].wwn
      => call[q].op \notin {"attach", "detach"}

\* What the callers of a host have to keep apart.
DetachesAlone ==
  \A p, q \in Procs :
    p # q /\ HostOf[p] = HostOf[q] /\ call[p].op = "detach"
      => call[q].op \notin {"attach", "detach"}

SerialNext == Next /\ DetachesAlone'

SerialSpec == Init /\ [][SerialNext]_vars

\* A step of a call begins no call, so DetachesAlone never keeps it from being
\* taken: nothing in the driver blocks.
FairSerialSpec == SerialSpec /\ \A p \in Procs : WF_vars(Step(p))

=============================================================================
