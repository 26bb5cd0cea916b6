-------------------------- MODULE BlockDeviceDriver --------------------------
(***************************************************************************)
(* The calls of IBMStorageBlockDeviceAPI that change or locate a volume:   *)
(* create_volume, destroy_volume, attach_volume, detach_volume and         *)
(* get_device_path (ibm_storage_blockdevice.py), down to the REST requests *)
(* of lib/ibm_scbe_client.py and the commands of lib/host_actions.py that  *)
(* they issue.                                                             *)
(*                                                                         *)
(* A process executes one call at a time.  Each REST request and each      *)
(* command is one step, so the calls of several processes interleave       *)
(* between any two of them.  A request may fail before the storage sees    *)
(* it, or after the storage has executed it; a command may fail; a process *)
(* may stop in the middle of a call and forget it.                         *)
(***************************************************************************)
EXTENDS HostDevices, Naturals

CONSTANTS Procs,      \* the processes that run the driver
          HostOf,     \* HostOf[p]: the host p runs on
          Retries,    \* how often a failed multipath command is run again
          NoVolume,
          NoHost

ASSUME DriverAssumption ==
  /\ HostOf \in [Procs -> Hosts]
  /\ Retries \in Nat
  /\ NoVolume \notin Volumes
  /\ NoHost \notin Hosts

VARIABLES call,    \* call[p]: what p executes
          answer   \* what the last step answered to the caller, if it ended a call

vars == <<vols, fresh, mappedTo, paths, mpath, call, answer>>

Ops == {"none", "create", "destroy", "attach", "detach", "path"}

\* The request or the command that comes next; "idle" between two calls.
Steps == {"idle",
          "service_exists", "service_id", "post_volume",
          "lookup", "delete_volume", "mapping",
          "device_lookup", "device_mapping", "device_find",
          "fail_if_no_path", "flush",
          "resolve_host", "map", "unmap",
          "iscsi_rescan", "scsi_rescan", "multipath_reload"}

Answers == {"none", "ok", "UnknownVolume", "AlreadyAttachedVolume",
            "UnattachedVolume", "CreateVolumeError", "error"}

Calls == [op   : Ops,
          wwn  : Volumes \cup {NoVolume},
          to   : Hosts \cup {NoHost},    \* attach: the argument attach_to
          seen : Hosts \cup {NoHost},    \* detach: volume.attached_to, as read
          pc   : Steps,
          left : 0 .. Retries]           \* retries left of the current command

NoCall == [op |-> "none", wwn |-> NoVolume, to |-> NoHost, seen |-> NoHost,
           pc |-> "idle", left |-> 0]

\* The storage, the devices, the calls and the answers have their types; no WWN is
\* given twice, and no more retries are left than the code allows.
TypeOK ==
  /\ BackendTypeOK
  /\ DevicesTypeOK
  /\ call \in [Procs -> Calls]
  /\ answer \in Answers

Init ==
  /\ BackendInit
  /\ DevicesInit
  /\ call = [p \in Procs |-> NoCall]
  /\ answer = "none"

-----------------------------------------------------------------------------
(* Control                                                                  *)

At(p, step) == call[p].pc = step

Begin(p, op, w, h, step) ==
  /\ At(p, "idle")
  /\ call' = [call EXCEPT ![p] = [op |-> op, wwn |-> w, to |-> h, seen |-> NoHost,
                                  pc |-> step, left |-> 0]]
  /\ answer' = "none"

\* The call goes on with another step, of which left retries may follow.
Continue(p, step, left) ==
  /\ call' = [call EXCEPT ![p] = [@ EXCEPT !.pc = step, !.left = left]]
  /\ answer' = "none"

Goto(p, step) == Continue(p, step, 0)

Answer(p, a) ==
  /\ call' = [call EXCEPT ![p] = NoCall]
  /\ answer' = a

\* Mutant: the check for the last try is missing.
RetryUnchecked(p) == Continue(p, call[p].pc, call[p].left - 1)

\* Mutant: the tries are not counted.
RetryUncounted(p) ==
  IF call[p].left = 0 THEN Answer(p, "error")
  ELSE Continue(p, call[p].pc, call[p].left)

\* Mutant: each failure sets the counter back.
RetryFromStart(p) ==
  IF call[p].left = 0 THEN Answer(p, "error")
  ELSE Continue(p, call[p].pc, Retries)

\* Mutant: the last failure ends the loop and is not raised.
RetryOrIgnore(p) ==
  IF call[p].left = 0 THEN Answer(p, "ok")
  ELSE Continue(p, call[p].pc, call[p].left - 1)

\* The loops of check_out and run_cmd, on CalledProcessError.
RetryOrFail(p) ==
  IF call[p].left = 0 THEN Answer(p, "error")
  ELSE Continue(p, call[p].pc, call[p].left - 1)

\* A request that changes the storage.  The error of a request that was not
\* executed and that of one whose response was lost look the same.
Request(p, executed, next) ==
  \/ executed /\ (next \/ Answer(p, "error"))
  \/ UNCHANGED backendVars /\ Answer(p, "error")

ClusterVolumes == vols \ Foreign

-----------------------------------------------------------------------------
(* The calls                                                                *)

CreateVolume(p) ==
  /\ Begin(p, "create", NoVolume, NoHost, "service_exists")
  /\ UNCHANGED <<backendVars, deviceVars>>

DestroyVolume(p, w) ==
  /\ Begin(p, "destroy", w, NoHost, "lookup")
  /\ UNCHANGED <<backendVars, deviceVars>>

AttachVolume(p, w, h) ==
  /\ Begin(p, "attach", w, h, "lookup")
  /\ UNCHANGED <<backendVars, deviceVars>>

DetachVolume(p, w) ==
  /\ Begin(p, "detach", w, NoHost, "lookup")
  /\ UNCHANGED <<backendVars, deviceVars>>

GetDevicePath(p, w) ==
  /\ Begin(p, "path", w, NoHost, "device_lookup")
  /\ UNCHANGED <<backendVars, deviceVars>>

-----------------------------------------------------------------------------
(* create_volume_with_profile                                               *)

\* resource_exists.  The service may be (un)delegated between any two reads.
CheckService(p) ==
  /\ At(p, "service_exists")
  /\ \/ Goto(p, "service_id")
     \/ Answer(p, "CreateVolumeError")
     \/ Answer(p, "error")
  /\ UNCHANGED <<backendVars, deviceVars>>

\* _service_list(name=resource)[0]: no service left is an IndexError.
ReadServiceId(p) ==
  /\ At(p, "service_id")
  /\ Goto(p, "post_volume") \/ Answer(p, "error")
  /\ UNCHANGED <<backendVars, deviceVars>>

CreateOnStorage(p) ==
  /\ At(p, "post_volume")
  /\ \/ \E w \in fresh : PostVolume(w) /\ (Answer(p, "ok") \/ Answer(p, "error"))
     \/ UNCHANGED backendVars /\ Answer(p, "error")
  /\ UNCHANGED deviceVars

-----------------------------------------------------------------------------
(* The reads of attach_volume, detach_volume and destroy_volume             *)

\* Mutant: the volume of another cluster is not refused.
LookUpAnyVolume(p) ==
  /\ At(p, "lookup")
  /\ LET w == call[p].wwn  op == call[p].op IN
       \/ Answer(p, "error")
       \/ w \notin vols /\ Answer(p, "UnknownVolume")
       \/ w \in vols /\ op = "destroy" /\ Goto(p, "delete_volume")
       \/ w \in vols /\ op # "destroy" /\ Goto(p, "mapping")
  /\ UNCHANGED <<backendVars, deviceVars>>

\* _get_volume_object, and for attach and detach the check of the cluster in
\* _get_blockdevicevolume_by_vol.
LookUpVolume(p) ==
  /\ At(p, "lookup")
  /\ LET w == call[p].wwn  op == call[p].op IN
       \/ Answer(p, "error")
       \/ w \notin vols /\ Answer(p, "UnknownVolume")
       \/ w \in vols /\ op = "destroy" /\ Goto(p, "delete_volume")
       \/ w \in vols \cap Foreign /\ op # "destroy" /\ Answer(p, "UnknownVolume")
       \/ w \in ClusterVolumes /\ op # "destroy" /\ Goto(p, "mapping")
  /\ UNCHANGED <<backendVars, deviceVars>>

\* get_vol_mapping; the checks of attach_volume and detach_volume.  The list of
\* mappings and the name of the mapped host are two requests (Requests counts both).
ReadMapping(p) ==
  /\ At(p, "mapping")
  /\ LET w == call[p].wwn  op == call[p].op IN
       \/ Answer(p, "error")
       \/ mappedTo[w] = {} /\ op = "attach" /\ Goto(p, "resolve_host")
       \/ mappedTo[w] = {} /\ op = "detach" /\ Answer(p, "UnattachedVolume")
       \/ mappedTo[w] # {} /\ op = "attach" /\ Answer(p, "AlreadyAttachedVolume")
       \/ \E h \in mappedTo[w] :
            /\ op = "detach"
            /\ call' = [call EXCEPT ![p] = [@ EXCEPT !.pc = "device_lookup",
                                                     !.seen = h]]
            /\ answer' = "none"
  /\ UNCHANGED <<backendVars, deviceVars>>

DeleteOnStorage(p) ==
  /\ At(p, "delete_volume")
  /\ Request(p, DeleteVolume(call[p].wwn), Answer(p, "ok"))
  /\ UNCHANGED deviceVars

-----------------------------------------------------------------------------
(* get_device_path, called by itself or by _clean_up_device_before_unmap,   *)
(* and clean_mp_device                                                      *)

\* Mutant: the clean-up takes any error for "nothing to clean".
LookUpDeviceAndIgnore(p) ==
  /\ At(p, "device_lookup")
  /\ LET known == call[p].wwn \in ClusterVolumes  op == call[p].op IN
       \/ op = "path" /\ Answer(p, "error")
       \/ known /\ Goto(p, "device_mapping")
       \/ ~known /\ op = "path" /\ Answer(p, "UnknownVolume")
       \/ op = "detach" /\ Goto(p, "resolve_host")
  /\ UNCHANGED <<backendVars, deviceVars>>

\* The clean-up takes UnknownVolume for "nothing to clean".
LookUpDeviceVolume(p) ==
  /\ At(p, "device_lookup")
  /\ LET known == call[p].wwn \in ClusterVolumes  op == call[p].op IN
       \/ Answer(p, "error")
       \/ known /\ Goto(p, "device_mapping")
       \/ ~known /\ op = "path" /\ Answer(p, "UnknownVolume")
       \/ ~known /\ op = "detach" /\ Goto(p, "resolve_host")
  /\ UNCHANGED <<backendVars, deviceVars>>

\* get_vol_mapping again, with its two requests; only whether there is a mapping counts.
ReadDeviceMapping(p) ==
  /\ At(p, "device_mapping")
  /\ \/ Answer(p, "error")
     \/ mappedTo[call[p].wwn] = {} /\ Answer(p, "UnattachedVolume")
     \/ mappedTo[call[p].wwn] # {} /\ Goto(p, "device_find")
  /\ UNCHANGED <<backendVars, deviceVars>>

\* Mutant: the clean-up takes UnattachedVolume, too, for "nothing to clean".
FindDeviceOrGoOn(p) ==
  /\ At(p, "device_find")
  /\ \/ call[p].op = "path" /\ Answer(p, "UnattachedVolume")
     \/ call[p].op = "detach" /\ Goto(p, "resolve_host")
     \/ /\ call[p].wwn \in mpath[HostOf[p]]
        /\ \/ call[p].op = "path" /\ Answer(p, "ok")
           \/ call[p].op = "detach" /\ Goto(p, "fail_if_no_path")
  /\ UNCHANGED <<backendVars, deviceVars>>

\* multipath -ll.  It may fail, or the device file may not be there yet.
FindDevice(p) ==
  /\ At(p, "device_find")
  /\ \/ Answer(p, "UnattachedVolume")
     \/ /\ call[p].wwn \in mpath[HostOf[p]]
        /\ \/ call[p].op = "path" /\ Answer(p, "ok")
           \/ call[p].op = "detach" /\ Goto(p, "fail_if_no_path")
  /\ UNCHANGED <<backendVars, deviceVars>>

\* dmsetup message <device> 0 "fail_if_no_path"
FailIfNoPath(p) ==
  /\ At(p, "fail_if_no_path")
  /\ \/ Answer(p, "error")
     \/ /\ call[p].wwn \in mpath[HostOf[p]]
        /\ Continue(p, "flush", Retries)
  /\ UNCHANGED <<backendVars, deviceVars>>

\* Mutant: a failure of multipath -f is ignored.
FlushDeviceOrIgnore(p) ==
  /\ At(p, "flush")
  /\ RunMultipathFlush(HostOf[p], call[p].wwn) \/ UNCHANGED deviceVars
  /\ Goto(p, "resolve_host")
  /\ UNCHANGED backendVars

\* multipath -f <device>
FlushDevice(p) ==
  /\ At(p, "flush")
  /\ \/ RunMultipathFlush(HostOf[p], call[p].wwn) /\ Goto(p, "resolve_host")
     \/ UNCHANGED deviceVars /\ RetryOrFail(p)
  /\ UNCHANGED backendVars

-----------------------------------------------------------------------------
(* map_volume and unmap_volume                                              *)

\* _get_host_id_by_vol for attach_to, or for the attached_to read before: two requests,
\* for the volume and for the host.
ResolveHost(p) ==
  /\ At(p, "resolve_host")
  /\ LET c == call[p]
         resolved(h) == c.wwn \in vols /\ h \in Registered IN
       \/ Answer(p, "error")
       \/ c.op = "attach" /\ resolved(c.to) /\ Goto(p, "map")
       \/ c.op = "detach" /\ resolved(c.seen) /\ Goto(p, "unmap")
  /\ UNCHANGED <<backendVars, deviceVars>>

MapVolume(p) ==
  /\ At(p, "map")
  /\ Request(p, PostMapping(call[p].wwn, call[p].to), Goto(p, "iscsi_rescan"))
  /\ UNCHANGED deviceVars

\* Mutant: detach_volume returns without a rescan.
UnmapWithoutRescan(p) ==
  /\ At(p, "unmap")
  /\ Request(p, DeleteMapping(call[p].wwn, call[p].seen), Answer(p, "ok"))
  /\ UNCHANGED deviceVars

UnmapVolume(p) ==
  /\ At(p, "unmap")
  /\ Request(p, DeleteMapping(call[p].wwn, call[p].seen), Goto(p, "iscsi_rescan"))
  /\ UNCHANGED deviceVars

-----------------------------------------------------------------------------
(* rescan_scsi                                                              *)

\* A failure of this command is ignored.
IscsiRescan(p) ==
  /\ At(p, "iscsi_rescan")
  /\ RunIscsiRescan(HostOf[p])
  /\ Goto(p, "scsi_rescan")
  /\ UNCHANGED backendVars

\* Mutant: a failure is ignored, like that of the iSCSI rescan.
ScsiRescanOrIgnore(p) ==
  /\ At(p, "scsi_rescan")
  /\ RunScsiRescan(HostOf[p]) \/ FailScsiRescan(HostOf[p])
  /\ Continue(p, "multipath_reload", Retries)
  /\ UNCHANGED backendVars

ScsiRescan(p) ==
  /\ At(p, "scsi_rescan")
  /\ \/ RunScsiRescan(HostOf[p]) /\ Continue(p, "multipath_reload", Retries)
     \/ FailScsiRescan(HostOf[p]) /\ Answer(p, "error")
  /\ UNCHANGED backendVars

MultipathReload(p) ==
  /\ At(p, "multipath_reload")
  /\ \/ RunMultipathReload(HostOf[p]) /\ Answer(p, "ok")
     \/ FailMultipathReload(HostOf[p]) /\ RetryOrFail(p)
  /\ UNCHANGED backendVars

-----------------------------------------------------------------------------

\* The process dies: the volumes, mappings and devices stay as they are.
Crash(p) ==
  /\ ~At(p, "idle")
  /\ Answer(p, "none")
  /\ UNCHANGED <<backendVars, deviceVars>>

Call(p) ==
  \/ CreateVolume(p)
  \/ \E w \in Volumes :
       \/ DestroyVolume(p, w) \/ DetachVolume(p, w) \/ GetDevicePath(p, w)
       \/ \E h \in Hosts : AttachVolume(p, w, h)

\* What p does by itself, once it was called.
Step(p) ==
  \/ CheckService(p) \/ ReadServiceId(p) \/ CreateOnStorage(p)
  \/ LookUpVolume(p) \/ ReadMapping(p) \/ DeleteOnStorage(p)
  \/ LookUpDeviceVolume(p) \/ ReadDeviceMapping(p) \/ FindDevice(p)
  \/ FailIfNoPath(p) \/ FlushDevice(p)
  \/ ResolveHost(p) \/ MapVolume(p) \/ UnmapVolume(p)
  \/ IscsiRescan(p) \/ ScsiRescan(p) \/ MultipathReload(p)

Next == \E p \in Procs : Call(p) \/ Step(p) \/ Crash(p)

Spec == Init /\ [][Next]_vars

=============================================================================
