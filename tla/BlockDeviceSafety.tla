-------------------------- MODULE BlockDeviceSafety --------------------------
(***************************************************************************)
(* What the driver promises, and the inductive invariant behind it.        *)
(*                                                                         *)
(* The promises hold when no call of detach_volume overlaps with another    *)
(* one of attach_volume or detach_volume on the same host (DetachesAlone,  *)
(* in BlockDeviceSerial).  Nothing is assumed of the calls on different    *)
(* hosts: they share the storage without a lock.                           *)
(***************************************************************************)
EXTENDS BlockDeviceDriver

-----------------------------------------------------------------------------
(* Invariants                                                               *)

\* A multipath device never outlives the mapping below it.  Otherwise its
\* paths are "active faulty" and, with queue_if_no_path, its user hangs
\* (ibm_storage_blockdevice.py, _clean_up_device_before_unmap).
NoFaultyDevice ==
  \A h \in Hosts : mpath[h] \subseteq MappedAt(h)

\* A volume that is mapped exists, and has one mapping.
SoundMappings ==
  \A w \in Volumes :
    /\ mappedTo[w] # {} => w \in vols
    /\ \A g, h \in mappedTo[w] : g = h

Reading  == {"device_lookup", "device_mapping", "device_find"}
Cleaning == {"fail_if_no_path", "flush"}
Rescans  == {"iscsi_rescan", "scsi_rescan", "multipath_reload"}
Creating == {"service_exists", "service_id", "post_volume"}

StepsOf ==
  [none    |-> {"idle"},
   create  |-> Creating,
   destroy |-> {"lookup", "delete_volume"},
   path    |-> Reading,
   attach  |-> {"lookup", "mapping", "resolve_host", "map"} \cup Rescans,
   detach  |-> {"lookup", "mapping", "resolve_host", "unmap"}
                 \cup Reading \cup Cleaning \cup Rescans]

\* Which steps an operation takes, and on which arguments.
CallOK(p) ==
  LET c == call[p] IN
    /\ c.pc \in StepsOf[c.op]
    /\ c.op \notin {"none", "create"} => c.wwn \in Volumes
    /\ c.op = "attach" => c.to \in Hosts
    /\ c.op = "detach" /\ c.pc \notin {"lookup", "mapping"} => c.seen \in Hosts

\* Only volumes of the cluster get past the checks of attach and detach.
ChecksPassed(p) ==
  call[p].op \in {"attach", "detach"} /\ call[p].pc # "lookup"
    => call[p].wwn \notin Foreign \cup fresh

\* When the multipath devices are rebuilt, no path is stale.
ReloadsFreshPaths(p) ==
  At(p, "multipath_reload") => paths[HostOf[p]] \subseteq MappedAt(HostOf[p])

\* A volume that detach_volume saw at another host has no device here, so the
\* device that is cleaned is the one over the mapping that was seen.
SeenElsewhere(p) ==
  LET c == call[p] IN
    c.op = "detach" /\ c.pc \in Reading \cup Cleaning /\ c.seen # HostOf[p]
      => c.pc \notin Cleaning /\ c.wwn \notin mpath[HostOf[p]]

\* The device is gone when detach_volume goes on to unmap the volume.
CleanBeforeUnmap(p) ==
  LET c == call[p] IN
    c.op = "detach" /\ c.pc \in {"resolve_host", "unmap"} =>
      /\ c.wwn \notin mpath[HostOf[p]]
      /\ c.seen = HostOf[p] \/ c.wwn \notin vols

\* attach_volume to the own host: the mapping stays, and the rescan finds it.
AttachInProgress(p) ==
  LET c == call[p] IN
    c.op = "attach" /\ c.to = HostOf[p] /\ c.pc \in Rescans =>
      /\ c.to \in mappedTo[c.wwn]
      /\ c.pc = "multipath_reload" => c.wwn \in paths[c.to]

ProcessOK(p) ==
  /\ CallOK(p)
  /\ ChecksPassed(p)
  /\ ReloadsFreshPaths(p)
  /\ SeenElsewhere(p)
  /\ CleanBeforeUnmap(p)
  /\ AttachInProgress(p)

\* The inductive invariant behind the properties of this module.
IInv ==
  /\ TypeOK
  /\ SoundMappings
  /\ NoFaultyDevice
  /\ \A p \in Procs : ProcessOK(p)

-----------------------------------------------------------------------------
(* Action properties                                                        *)

\* p's call op ends in this step, with this answer.
Ends(p, op, a) == call[p].op = op /\ At(p, "idle")' /\ answer' = a

\* attach_volume to the own host returns a volume that is mapped to the host
\* and has a device there, whatever the other hosts did meanwhile.
AttachedIsUsable ==
  [][\A p \in Procs :
       Ends(p, "attach", "ok") /\ call[p].to = HostOf[p] =>
         call[p].wwn \in mpath'[HostOf[p]] \cap MappedAt(HostOf[p])']_vars

\* When attach_volume or detach_volume returns, the host has no path left to
\* a volume that is not mapped to it.
NoStalePathAfterCall ==
  [][\A p \in Procs :
       Ends(p, "attach", "ok") \/ Ends(p, "detach", "ok") =>
         paths'[HostOf[p]] \subseteq MappedAt(HostOf[p])']_vars

\* get_device_path returns a device only of a volume that is mapped to the host
\* it runs on, although it never compares attached_to with the own host.
PathOnlyWhereAttached ==
  [][\A p \in Procs :
       Ends(p, "path", "ok") => call[p].wwn \in MappedAt(HostOf[p])]_vars

\* A mapping to a host is removed by the driver of that host only, although
\* detach_volume passes on whatever attached_to it read.
UnmappedByItsHost ==
  [][\A w \in Volumes : \A h \in mappedTo[w] :
       h \notin mappedTo'[w] =>
         \E p \in Procs : /\ HostOf[p] = h
                          /\ call[p].op = "detach" /\ call[p].wwn = w
                          /\ At(p, "unmap")]_vars

\* detach_volume raises UnattachedVolume only for a volume that "is not attached
\* to anything" (docstring of detach_volume).  The driver breaks this one: the
\* clean-up raises it, too, for a mapped volume without a device on this host.
UnattachedOnlyIfNotMapped ==
  [][\A p \in Procs :
       Ends(p, "detach", "UnattachedVolume") => mappedTo[call[p].wwn] = {}]_vars

\* attach_volume and detach_volume never change the mapping of a volume of another
\* cluster, although its WWN is as good an argument as any: the look-up turns it away.
ForeignMappingsKept == [][\A w \in Foreign : mappedTo'[w] = mappedTo[w]]_vars

\* How many requests and commands a call makes from here on, at most, next to the
\* retries that are left of the current command.  A request is a call of get, post or
\* delete of RestClient, which itself sends three messages at most (RequestsAreBounded).
RequestsFrom ==
  [idle             |-> 0,
   delete_volume    |-> 1,
   post_volume      |-> 1,
   service_id       |-> 2,
   service_exists   |-> 3,
   multipath_reload |-> 1,
   scsi_rescan      |-> 2 + Retries,
   iscsi_rescan     |-> 3 + Retries,
   map              |-> 4 + Retries,
   unmap            |-> 4 + Retries,
   resolve_host     |-> 6 + Retries,
   flush            |-> 7 + Retries,
   fail_if_no_path  |-> 8 + 2 * Retries,
   device_find      |-> 9 + 2 * Retries,
   device_mapping   |-> 11 + 2 * Retries,
   device_lookup    |-> 12 + 2 * Retries,
   mapping          |-> 14 + 2 * Retries,
   lookup           |-> 15 + 2 * Retries]

RequestsLeft(p) == RequestsFrom[call[p].pc] + call[p].left

\* The requests and commands of p's next step: two where the code reads twice (the
\* mappings and the host by its id; the volume and the host by its name).
Requests(p) ==
  IF call[p].pc \in {"mapping", "device_mapping", "resolve_host"} THEN 2 ELSE 1

\* Each step of a call takes the requests and commands it makes off those that are
\* left, and nothing that another process does adds to them: a call makes at most
\* 15 + 2 * Retries requests and commands, however often they fail and whatever calls
\* overlap.
CallsAreBounded ==
  [][\A p \in Procs :
       /\ Step(p) => RequestsLeft(p)' + Requests(p) <= RequestsLeft(p)
       /\ \/ At(p, "idle") \/ call'[p] = call[p]
          \/ RequestsLeft(p)' < RequestsLeft(p)
       /\ RequestsLeft(p)' <= 15 + 2 * Retries]_vars

-----------------------------------------------------------------------------
(* Liveness, of FairSerialSpec                                              *)

\* Every call ends, whatever the storage, the commands and the other processes
\* do: the retry loops are bounded and no call waits for another one.
CallsEnd == \A p \in Procs : ~At(p, "idle") ~> At(p, "idle")

-----------------------------------------------------------------------------
(* Refinement                                                               *)

\* Where a volume is in its life.  A device without a mapping, or at another
\* host than the mapping, is "faulty", which is no place of VolumeLifecycle.
Faulty == [at |-> "faulty"]

PlaceOf(w) ==
  IF \E h \in Hosts : w \in mpath[h] /\ h \notin mappedTo[w] THEN Faulty
  ELSE IF w \in fresh THEN [at |-> "absent"]
  ELSE IF w \notin vols THEN [at |-> "gone"]
  ELSE IF mappedTo[w] = {} THEN [at |-> "available"]
  ELSE LET h == CHOOSE h \in Hosts : h \in mappedTo[w] IN
         [at |-> IF w \in mpath[h] THEN "ready" ELSE "mapped", host |-> h]

Life == INSTANCE VolumeLifecycle WITH
          Own <- Volumes \ Foreign, place <- [w \in Volumes |-> PlaceOf(w)]

\* Whatever the processes, the failures and the crashes do, each volume lives
\* as VolumeLifecycle says: one host at a time, flushed before it is unmapped,
\* and foreign volumes are never mapped, unmapped or flushed.
ImplementsLifecycle == Life!Spec

=============================================================================
