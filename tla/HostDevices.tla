----------------------------- MODULE HostDevices -----------------------------
(***************************************************************************)
(* The block devices of the operating systems of the hosts, as the         *)
(* commands that lib/host_actions.py runs see and change them:             *)
(*                                                                         *)
(*   iscsiadm -m session --rescan   adds paths to mapped volumes;          *)
(*   rescan-scsi-bus -r             adds those and removes the others;     *)
(*   multipath -r                   builds a device over the paths it      *)
(*                                  finds, and never removes a device;     *)
(*   multipath -f                   removes one device;                    *)
(*   multipath -ll                  lists the devices.                     *)
(*                                                                         *)
(* A command that fails may have done a part of its work.  The host sees   *)
(* what the storage has mapped to it, MappedAt(h).  The daemon multipathd  *)
(* may build a device as its path appears, while the rescan runs.          *)
(***************************************************************************)
EXTENDS ScbeBackend

VARIABLES paths,   \* paths[h]: the volumes h has SCSI paths to (/dev/sd*)
          mpath    \* mpath[h]: the volumes h has a multipath device of

deviceVars == <<paths, mpath>>

DevicesTypeOK ==
  /\ paths \in [Hosts -> SUBSET Volumes]
  /\ mpath \in [Hosts -> SUBSET Volumes]

DevicesInit ==
  /\ paths = [h \in Hosts |-> MappedAt(h)]   \* found when the host booted
  /\ mpath = paths

-----------------------------------------------------------------------------

\* The paths change, and multipathd builds devices over some of the new ones.
ChangePaths(h, gone, new) ==
  /\ paths' = [paths EXCEPT ![h] = (@ \ gone) \cup new]
  /\ \E built \in SUBSET new : mpath' = [mpath EXCEPT ![h] = @ \cup built]

StalePaths(h)   == paths[h] \ MappedAt(h)
MissingPaths(h) == MappedAt(h) \ paths[h]

\* Succeeding or not, it finds some of the mapped volumes (none without iSCSI).
RunIscsiRescan(h) ==
  \E new \in SUBSET MissingPaths(h) : ChangePaths(h, {}, new)

RunScsiRescan(h) == ChangePaths(h, StalePaths(h), MissingPaths(h))

\* It stops half-way: some stale paths are gone, some new ones are there.
FailScsiRescan(h) ==
  \E gone \in SUBSET StalePaths(h), new \in SUBSET MissingPaths(h) :
    ChangePaths(h, gone, new)

RunMultipathReload(h) ==
  /\ mpath' = [mpath EXCEPT ![h] = @ \cup paths[h]]
  /\ UNCHANGED paths

FailMultipathReload(h) ==
  /\ \E built \in SUBSET paths[h] :
       mpath' = [mpath EXCEPT ![h] = @ \cup built]
  /\ UNCHANGED paths

RunMultipathFlush(h, w) ==
  /\ w \in mpath[h]
  /\ mpath' = [mpath EXCEPT ![h] = @ \ {w}]
  /\ UNCHANGED paths

=============================================================================
