# Verification of the IBM storage driver for Flocker

TLA+ models of `ibm_storage_flocker_driver`, the TLC runs that check them and the
TLAPS proofs about them. Paths below are relative to `src/ibm_storage_flocker_driver/`;
BD is `ibm_storage_blockdevice.py`, CL `lib/ibm_scbe_client.py`, HA `lib/host_actions.py`.

## 1. The system

The driver runs on every node of a Flocker cluster. Flocker calls it to create, attach,
detach and destroy volumes. The driver sends REST requests to IBM Spectrum Control Base
Edition (SCBE), which owns volumes and host mappings, and runs shell commands that make
the node see what is mapped to it. It keeps no state of its own between calls: what it
knows it reads again from SCBE and from `multipath -ll`. The nodes share the storage
without any lock.

| Component | State | Operations | Correct means |
|---|---|---|---|
| Block device driver (BD) | the locals of a running call | create_volume(_with_profile), destroy_volume, attach_volume, detach_volume, get_device_path, list_volumes | successful answers are true; a device never outlives its mapping; only the own host unmaps; other clusters' volumes are not attached or detached; calls end |
| SCBE operations (CL, `IBMSCBEClientAPI`) | none | the requests behind the calls | one request, one effect; a read that failed decides nothing |
| REST session (CL, `RestClient`) | the token in the session's header, shared by all threads | get, post, delete, re-login on a 401 | a request is executed at most once; what returns was executed |
| Host commands (HA) | none (the state is the operating system's) | rescan_scsi, get_multipath_device, clean_mp_device; retry loops | no stale path when a device is built; bounded retries; the last failure is raised |
| Volume listing (BD:550-581) | the answers of its three reads | list_volumes | each entry was true at some moment; what nobody touches is listed as it is |
| Volume names (BD:165-225, `lib/constants.py`) | none | build a name and take it apart | what was built is recognised; clusters do not collide |
| Start-up (BD:62-145, HA:44-68, `lib/abstract_client.py`, `__init__.py`) | the configuration, the commands found | read the configuration, log in, verify the service, find the commands | the password is not sent before the configuration, as far as it can be checked without the server, is right; what was verified serves later calls; a refusal tells the cause |
| Test clean-up (`testtools_...py`) | the listing it works through | list, detach, destroy everything | nothing of the cluster is left, nothing else is touched; it ends |
| Logging, messages (`lib/utils.py`, `lib/messages.py`) | none | | |

How they interact: a driver call is a sequence of REST requests and commands. Between any
two of them the other nodes (and other threads of the same node, if the caller uses
threads) may do theirs. Every request can fail before the storage saw it, or after it was
executed; every command can fail having done part of its work; the process can die.

Hard to test, hence modelled: check-then-act over several requests (attach), values read
before and used after a clean-up (detach), a clean-up whose *exception type* decides
whether a volume is unmapped, lost responses, retries, stale paths, crashes between the
steps, threads that share a token, a listing put together from three moments and a
clean-up that goes by it, a service that is verified once and used for ever, names that
several clusters must tell apart. `PROJECT.json` lists each at its line, with the
properties that would catch it, under "hazards".

## 2. Modules

| Module | Models |
|---|---|
| `ScbeBackend` | external: volumes, unused WWNs, mappings, and what an accepted request does |
| `HostDevices` | external: SCSI paths and multipath devices of the hosts, and what each command does |
| `BlockDeviceDriver` | the calls of BD, down to the requests and commands; EXTENDS the two above |
| `BlockDeviceSafety` | properties, inductive invariant, refinement mapping |
| `BlockDeviceSerial` | what the callers of the driver keep apart |
| `VolumeLifecycle` | abstract specification: the life of a volume |
| `VolumeListing`, `VolumeListingSafety` | list_volumes beside the processes of `BlockDeviceSerial`; what a listing tells |
| `CleanUp`, `CleanUpSafety` | detach_destroy_all_volumes: composes the listing with the calls of the driver |
| `RestClient` | session, token, login and retry of CL |
| `RestCall` | abstract specification: what a REST call promises |
| `Startup`, `StartupSafety` | a node from its configuration to the service of a new volume |
| `VolumeName` | names and slugs: pure operators |
| `NamedVolumes` | clusters that share a storage system |
| `PrivateVolumes` | abstract specification: a store of volumes for each cluster |
| `MC...` | instances for TLC |
| `BlockDeviceProofs`, `BlockDeviceRefinement`, `RestClientProofs`, `VolumeListingProofs`, `VolumeListingTruth`, `CleanUpProofs`, `StartupProofs`, `VolumeNameProofs` | proofs |

`BlockDeviceDriver` EXTENDS `ScbeBackend` and `HostDevices`; `BlockDeviceSafety`,
`BlockDeviceSerial`, `VolumeListing`, `CleanUp` each extend the one before. `RestClient`,
`Startup` and `NamedVolumes` stand for themselves: the driver model uses a request through
the promise of `RestCall`, and a volume's cluster through the set `Foreign`, which
`NamedVolumes` justifies.

### BlockDeviceDriver

`call[p]` holds the locals of the call that process p executes: the operation, the WWN,
the argument `attach_to`, the `attached_to` that detach read, the next request or command
(`pc`) and the retries left. `answer` is what the last step answered to a caller. One
action per request or command; the guard is the code's test of the reply:

| Step | Code |
|---|---|
| `LookUpVolume`, `ReadMapping` | `_get_volume`, `_get_volume_object`, `get_vol_mapping` and the checks of attach and detach (BD:296-321, 451-457, 488-494) |
| `LookUpDeviceVolume`, `ReadDeviceMapping`, `FindDevice` | `get_device_path`, called by itself or by the clean-up, which takes UnknownVolume (and nothing else) for "nothing to clean" (BD:507-536, 606-657) |
| `FailIfNoPath`, `FlushDevice` | `clean_mp_device`: dmsetup, and multipath -f with 3 retries (HA:251-281) |
| `ResolveHost`, `MapVolume`, `UnmapVolume` | `_get_host_id_by_vol` and the requests of `map_volume`, `unmap_volume` (CL:327-385) |
| `IscsiRescan`, `ScsiRescan`, `MultipathReload` | `rescan_scsi`: the first may fail, the second must not, the third has 3 retries (HA:71-149) |
| `CheckService`, `ReadServiceId`, `CreateOnStorage` | `create_volume` of CL:258-280; the service list is read twice |
| `DeleteOnStorage` | `delete_volume` (CL:322-324), with no check of the cluster |
| `Crash` | the process dies between two steps |

Three steps are two requests each, both of them reads: `ReadMapping` and
`ReadDeviceMapping` (the list of mappings, CL:406, and the host of the mapping by its id,
CL:410), `ResolveHost` (the volume, CL:350, and the host by its name, CL:354). They are
merged because the second read is of something that no call changes (the name and the id of
a host), and each may fail; `Requests` counts them as the two they are. `wwn` of `check_out` is never given by a caller, so
its early stop is not modelled. `is_multipath_active` is always True.

### VolumeListing and CleanUp

`list` holds the locals of list_volumes: what it has read (`found`, `maps`) and, when it
has returned, `entries`, the attached_to of each volume. `ReadVolumes`, `ReadMappings` and
`ReadHosts` are its three requests; between them any process may take a step. The storage
may define and forget hosts, but keeps one that is mapped (`DefinedHosts`, section 3).

`clean` holds the locals of detach_destroy_all_volumes: `todo`, the rest of the listing,
and `current`. `RunCall` is a step of the driver call it has begun; an exception leaves the
function (`Fail`). `old` is history: the volumes of the cluster when it was called.

### RestClient

`header[s]` is the Authorization header of session s, `conn[t]` the request of thread t.
`Receive` is `verify_status_code` and the wrapper `_retry_if_token_expire`;
`PopHeader`, `Login`, `UpdateHeader` are the three statements of
`get_token_and_update_header`. What fails in the login request reaches the caller as it is,
a 401 too (CL:68, 134, 141-142, 190); the second try runs without the wrapper. `sent` and
`refused` are history: what the last request of a call carried, and what the first one had
carried when it was turned away. The driver model uses a request only through `RestCall`'s promise: `Request`
either has its effect and returns or raises, or has none and raises.

### Startup

`node` is the process of a node: its configuration, as far as the code distinguishes one
from another, its next step, the error that refused the start, the commands it will run.
`ReadConnection`, `GetClientClass`, `LogIn`, `VerifyDefaultService`, `FindCommands` follow
get_ibm_storage_backend_by_conf in its order. `BeginCreate`, `CheckProfile`,
`ReadProfileId`, `PostInService` are create_volume as far as it chooses the service.
`DelegateService` and `TakeServiceBack` happen at any time. `ever` and `always` are
history: the services delegated at some, and at every, moment since the start.

### VolumeName and NamedVolumes

A UUID is its 32 hexadecimal digits, a string the sequence of its ASCII codes. The base64
alphabet, the exchange of `/` and `+` for `_` and `-`, the stripped padding and the slices
at fixed indexes are translated as they are, at the lengths of the code. (uuid2slug gives
`c31OoCi_EeaxLmj3KI8YCQ` for the id of the docstring BD:169.) In `NamedVolumes` the
clusters make volumes for datasets, and destroy, by WWN, what they list, next to other
users who make and destroy volumes whose names are not built like those of a cluster
(`NamesAssumption`). `volumes` is what the storage has, `Listed(c)` what list_volumes makes
of it, `owned` history. Nothing keeps create_volume from making a second volume for a
dataset, with the same name: that is what a caller does whose first answer was lost.

## 3. Assumptions

About the storage and the hosts (external code):

- A volume has at most one mapping and a second one is refused (the code says so:
  "assume volume has only one mapping", CL:403; "vol can be mapped to one host", BD:568);
  a mapped volume is not deleted; WWNs are not used again.
- A host that has a mapping stays defined. This leaves out
  the case of the test `test_list_volumes_with_incomplete_attach`: a volume mapped to a host
  that is not in the list of hosts is listed as attached to nothing, and
  `EntriesWereTrue` and `UntouchedListedAsIs` do not hold of it.
- A request is executed by the time its caller goes on. A request that is still under way
  when its sender gives up or dies, and is executed later, is not modelled.
- Devices are built by `multipath -r`, or by multipathd as soon as a rescan adds the path;
  they are removed by `multipath -f` only. A daemon that builds a device long after the
  path appeared is not modelled, nor is a reboot of a node.
- Nobody else changes the mappings of the cluster's volumes.

About the caller: `BlockDeviceSerial` assumes that detach_volume does not overlap with
attach_volume or detach_volume *on the same host* (`DetachesAlone`). Nothing in the driver
enforces it: there is no lock, and the repository does not say how the caller schedules
the calls. It is what is needed: `threads_faulty` shows what happens without it, the
mutant `DetachesAloneOnVolume` that it is not enough to keep the calls on one volume apart.
A caller that runs one call of a host at a time satisfies it (`OneCallIsSerial`). All other
calls overlap freely, and so do all calls of *different* hosts.

Not everything depends on it. The types, the retry bounds, one mapping at most and only to
a volume that exists, no change of a foreign mapping, and the bound on the length of a call
hold for `Spec`, in which any calls overlap (`OverlapInvariance`, `ForeignMappings`,
`CallsShrink`). And the assumption holds back new calls only: a step of a call that has
begun never breaks it (`NothingBlocks`), so it makes no call wait.

Fairness, in three runs, is always weak fairness of the next step of a call, a clean-up or
a start that has begun:

- `FairSerialSpec` (`driver_lifecycle`): `WF_vars(Step(p))` for each process. A call runs
  in a thread that nothing in the driver blocks: there is no lock, queue or condition.
- `FairCleanSpec` (`clean_up_ends`): the cleaner takes its next step. With one process to a
  host, as in the run, no call of another process keeps it from detaching.
- `FairNodeSpec` (`startup`): the steps of the start and of create_volume are taken.

It means that every request and every command returns. The requests have no timeout, so
that the server answers is an assumption; of the commands only `multipath -r` has one
(`timeout 40`). Nothing is assumed about the *result* of a step: every one may fail each
time.

## 4. Runs

| Run | Bounds | Question | Result |
|---|---|---|---|
| `driver_safety` | 2 own volumes + 1 foreign, 2 hosts with 1 process each, 1 retry | Do the invariants and the answers hold under all interleavings, failures and crashes? | holds, 3.0 M states |
| `driver_overlaps` | 2 own volumes + 1 foreign, 2 threads on 1 host, 1 retry | Is `DetachesAlone` enough for threads of one host? Are foreign mappings left alone? | holds, 68 K states |
| `driver_lifecycle` | 1 own + 1 foreign volume, 3 hosts (1 unknown to the storage), 3 retries | Does the driver implement `VolumeLifecycle`, and does every call end, after how many requests and commands? | holds, 162 K states |
| `detach_refused` | 2 volumes, 1 host | Is UnattachedVolume raised only for volumes that are attached to nothing, as the docstring says? | violated |
| `threads_faulty` | 2 volumes, 2 threads on 1 host | Does cleaning before unmapping prevent faulty paths, when calls overlap? | violated |
| `listing` | 1 own + 1 foreign volume, 2 hosts | What is a listing worth that is put together from three moments? | holds, 2.3 M states |
| `clean_up` | 2 own volumes, 2 hosts, another process that does what it likes | Is everything gone when the clean-up returns? | holds, 2.9 M states |
| `clean_up_ends` | 1 own + 1 foreign volume, 2 hosts | Does the clean-up end, and spare other clusters? | holds, 363 K states |
| `rest_threads` | 2 threads on a session, 1 on its own, 5 tokens | Does the retry keep the promise of `RestCall`, and when does a 401 reach the caller? | holds, 438 K states |
| `startup` | 2 services, every configuration | What is verified when a node runs, why is a start refused, and does it end? | holds, 59 K states |
| `startup_default` | the same | Does a default service that passed the start serve volumes? | violated |
| `names` | 3 clusters, 3 datasets, 5 other names, 3 volumes at a time | Does each cluster know its own volumes by their names, and is it as if it had a storage for itself? | holds, 680 states up to symmetry |

The properties:

- `NoFaultyDevice`: a multipath device always lies over a mapping of its host. This is
  what the clean-up before unmapping is for (BD:507-528).
- `AttachedIsUsable`, `NoStalePathAfterCall`, `PathOnlyWhereAttached`: successful answers
  of attach, detach and get_device_path are true at the moment they are given.
- `UnmappedByItsHost`: detach passes on any `attached_to` it has read, and nevertheless
  only ever removes a mapping to its own host.
- `ImplementsLifecycle`, `CallsEnd`: the refinement of `VolumeLifecycle`; termination.
- `CallsAreBounded`: a call makes at most 15 + 2 * `Retries` requests and commands,
  whatever fails and whatever other calls do; each step takes those it makes off those that
  are left. A request is here one call of get, post or delete; `RequestsAreBounded` says
  that it sends at most three messages (itself, a login, itself again).
  `CleanUpShrinks`: the same for the clean-up.
- `ForeignMappingsKept`: attach and detach never change the mapping of a volume of another
  cluster. (TLC checks it with `DetachesAlone`, the theorem does without.)
- `EntriesWereTrue`: each entry of a listing was true at some moment since list_volumes was
  called, although the volume, its mapping and the name of the host come from three
  moments. `UntouchedListedAsIs`: what stays as it is, is listed as it is, if and only if
  it is the cluster's.
- `CleanedUp`: when the clean-up returns, no volume of the cluster is left that existed
  when it was called. `CleanUpSparesForeign`, `CleanUpEnds`.
- `AtMostOnce`, `ImplementsRestCall`: the retry after a 401.
- `UnauthorizedHasCause`: a 401 reaches the caller only if the server has turned away the
  login of the call, or two requests of it: the first one and, after a login, one that
  carried another token, or none because another thread had popped the shared header just
  then. No thread sends a token again that it was turned away with, although the threads
  overwrite each other's tokens; one that is alone on its session sends its own.
- `LoginIsLast`: no password is sent before all that can be checked without the server is
  right: log level, verify_ssl_certificate, credentials, management type. (The default
  service is verified after the login, BD:134-141, since that takes one.)
  `RunningIsVerified`, `RefusedForCause`: what a start that succeeds guarantees, and what a
  refusal tells. `UnknownOnlyIfTakenBack`: create_volume misses its default service (or
  finds the list empty at the second reading) only if the service was taken back since.
  `NodeSettles`: starts and choices of a service end.
- `OwnVolumesFound`, `NamesIdentify`: names tell datasets and clusters apart.
  `StoresArePrivate`: what a cluster lists changes like a store of its own
  (`PrivateVolumes`), also when volumes have the same name.
- `IInv`, `ListIInv`, `CleanIInv`, `StartIInv`, `NameIInv`: the inductive invariants of
  section 5. `TypeOK`: types and retry bounds.

Why the bounds are enough: the calls of two processes conflict over one volume; a second
one is needed for the rescan of one volume to meet the stale path of another, and for a
clean-up to go on after the first; the foreign one for what must be left alone. A third
host adds no new kind of neighbour: the others appear to a process only through the
storage. One retry already distinguishes the first, the last and a middle result;
`driver_lifecycle` uses the code's three. The listing and the clean-up use none: how often
a command was tried does not matter to them. With five tokens each session starts with one,
and three logins can follow. Two services are one that stays and one that goes. In `names`
the clusters are two whose ids differ in one bit and one whose slug is all dashes, and three
volumes are two of one name and one beside them. The
proofs hold without bounds. Volumes are created at most once each (a WWN is not used
again); that is the only other bound. Symmetry is used only where no liveness is checked:
over the cluster's volumes (`driver_safety`, `clean_up`), volumes and threads
(`driver_overlaps`), hosts with their processes (`listing`), threads and tokens
(`rest_threads`), WWNs (`names`). No run switches the check for deadlock off.

### What the violations show

`detach_refused` (BD:531). The mapping of an attach is made, its response is lost: attach
raises, no rescan runs. From then on attach answers AlreadyAttachedVolume and detach
UnattachedVolume, and the mapping stays, until the rescan of some other call builds the
device. The clean-up catches UnknownVolume, but `get_device_path` reports a missing device
as UnattachedVolume. To catch that one as well is not a fix: the same exception is all
that keeps a host from unmapping a volume another host uses (the mutant
`FindDeviceOrGoOn` breaks `UnmappedByItsHost`); detach would have to compare `attached_to`
with its own host.

`threads_faulty` (BD:496-497). Two calls overlap on one host. The clean-up of a detach has
flushed the device; a `multipath -r` of the other call finds its paths still there and
builds it again; the volume is unmapped below it.

`startup_default` (CL:431 against BD:134). A default_service of `-DEFAULT-` passes the
start, because the storage has some service. create_volume then compares it with `is`: the
string read from agent.yml is not the object, so the name goes on as it is, no service has
it, and every create_volume raises CreateVolumeError.

Two divergences were met that are no behaviour worth a run: the factory looks for a class
`IBM<TYPE>ClientAPI` while its docstring tells authors of plug-ins to write
`IBMStorage<NEW>Client` (`lib/abstract_client.py`:194, 221), and the comments give the slug
32 characters while it has 22 (BD:196, BD:214; `SlugRoundTrip` is about the 22).

## 5. Proofs

All are for arbitrary sets of hosts, volumes, processes, threads, sessions, tokens,
services, clusters and datasets and any number of retries, from the named assumptions
`BackendAssumption`, `DriverAssumption`, `CleanerAssumption`, `TokenAssumption`,
`SessionAssumption`, `ServiceAssumption`, `NamesAssumption`.

| Theorem | Says |
|---|---|
| `BlockDeviceProofs!Invariance` | `SerialSpec => []IInv` |
| `OneCallIsSerial` | one call at a time on each host satisfies `SerialSpec` |
| `TypeCorrect`, `NeverFaulty` | `TypeOK` and `NoFaultyDevice` are invariants |
| `PathsAreMapped`, `AttachesAreUsable`, `PathsAreFresh`, `OwnHostUnmaps` | the four action properties of `driver_safety` |
| `OverlapInvariance`, `ForeignMappings`, `CallsShrink` | of `Spec`, so for calls that overlap in any way: `TypeOK` and `SoundMappings`, `ForeignMappingsKept`, `CallsAreBounded` |
| `NothingBlocks` | steps and crashes keep `DetachesAlone` |
| `BlockDeviceRefinement!Refinement` | `SerialSpec => ImplementsLifecycle` |
| `VolumeListingProofs!ListingIsInvisible` | a listing leaves `SerialSpec` true, and with it all of the above |
| `VolumeListingTruth!ListingInvariance`, `ListingsWereTrue`, `UntouchedAreListed` | `ListIInv`, `EntriesWereTrue`, `UntouchedListedAsIs` |
| `CleanUpProofs!CleanUpIsSerial` | the clean-up is a client like others; `CleanIInv` |
| `CleanUpCleans`, `ForeignAreSpared`, `CleanUpGoesDown` | `CleanedUp`, `CleanUpSparesForeign`, `CleanUpShrinks` |
| `RestClientProofs!Invariance`, `RetryIsSafe` | `IInv` and `AtMostOnce` |
| `RestClientProofs!UnauthorizedIsExplained`, `RequestsShrink` | `UnauthorizedHasCause`, `RequestsAreBounded` |
| `RestClientProofs!Refinement` | `Spec => ImplementsRestCall` |
| `StartupProofs!NodeInvariance`, `RunningNodes`, `NoRashLogin`, `RefusalsAreTrue`, `ServicesStayKnown` | `StartIInv`, `RunningIsVerified`, `LoginIsLast`, `RefusedForCause`, `UnknownOnlyIfTakenBack` |
| `VolumeNameProofs!SlugRoundTrip`, `NameRoundTrip`, `OwnNames` | for all UUIDs: slugs and names give back what they were made of, and a cluster's test accepts its own names only |
| `NameInvariance`, `ClustersFindTheirOwn`, `NamesTellTheCluster` | `NameIInv`, `OwnVolumesFound`, `NamesIdentify` |
| `NamesArePrivate` | `NameSpec => StoresArePrivate` |

`NoFaultyDevice` is not inductive: to unmap is safe only because the device was flushed
two steps before, and a reload is safe only because the paths were scanned one step before.
`IInv` says, for a process in the middle of a call, what it may rely on:

- `ReloadsFreshPaths`: at the reload no path of the host is stale. Only a detach of the
  same host unmaps volumes from it, and by `DetachesAlone` none runs beside the rescan;
  other hosts can only map volumes *to* it.
- `SeenElsewhere`: if detach saw the volume on another host, there is no device here, since
  devices lie over mappings and there is one mapping; nor can one appear while this
  process is in the call. So the clean-up ends in UnattachedVolume, which is why only the
  own host unmaps.
- `CleanBeforeUnmap`: past the clean-up there is no device, and the mapping that was seen
  is to the own host, or the volume is gone and the unmapping will fail.
- `AttachInProgress`: between the mapping and the end of attach the mapping stays, and the
  rescan has found the path.
- `ChecksPassed`, `CallOK`: only volumes of the cluster get past the look-up; a step
  belongs to its operation.

The argument of `BlockDeviceProofs`: a step of p changes the devices of p's host only, and
on the storage takes nothing away from another host (`Local`), so the invariant of every
other process is kept by one lemma (`OthersUndisturbed`), and each step has one lemma for
the global invariants and for p itself (`Keeps`). `BlockDeviceRefinement` shows that under
`IInv` each volume has exactly one place (`Places`), and that each change of storage or
devices (`Effects`) is one move of `VolumeLifecycle`. `RestClientProofs` follows the same
pattern; its `IInv` says that a request that is sent again was not executed, and that a
token is handed out once and written into a header once, by the thread that logged in. So a
token that was turned away has been in the header already, and once its thread has popped
the header it never comes back.

What holds without `DetachesAlone` has an inductive invariant of its own, `OverlapInv`: of
`IInv` the part about the types, the mappings and the control of the calls. Each step ends
its call or advances it (`StepControl`), and what it does to the storage keeps the mappings
sound and the foreign ones as they are (`StepLeavesStorage`), because only volumes that
passed the checks get as far as a mapping or an unmapping.

Termination is liveness, which the provers do not reach; what it rests on is proved. A
call, a request and a clean-up each have a measure that each of their steps lowers
and no other process raises: the requests and commands left to a call (`RequestsLeft`, with
the retries that are left), the steps left to a request of a thread, and for the clean-up
the reads of the listing, then the volumes left, then what is left for the volume at hand.
A start is straight-line code and needs none. That a
next step is always possible is left to TLC, that it is taken is the fairness of section 3.

`VolumeListingTruth` rests on what `IInv` implies of single steps (`Changes`): a volume is
unmapped before it is destroyed or mapped elsewhere. So if the mapping read later is not
the one of the moment at which the volume was read, the volume was free in between, and
"attached to nothing" is true of that moment. `ListIInv` says so for each volume that was
read.

`CleanUpProofs` shows first that the clean-up takes only steps of `SerialSpec`; `CleanIInv`
then says that the old volumes that are left are still on its list, and a destroy_volume
that answers "ok" has deleted its volume, and a volume does not come back.

`StartupProofs`: `StartIInv` carries what each check has shown to the later ones, with the
history of the services instead of their present state, since a service may go at once.

`VolumeNameProofs` treats a name as prefix, text and slug at fixed places. The digits of a
UUID and the sextets of its slug are related by div and mod; the provers decide each of
the three cases of a position modulo 3. `NameIInv` says that the volumes are those
that were made, each with a WWN of its own; then what a cluster lists is what it owns
(`ListedAreOwned`), which is the refinement mapping of `NamesArePrivate`: destroy_volume
takes away one volume of one store, although another may have the same name.

Only model-checked: `CallsEnd`, `CleanUpEnds` and `NodeSettles` (liveness is out of the
prover's reach) and the violations.

## 6. Not modelled

The plan of the project (the driver and its storage, the REST session, the listing and the
clean-up, the start, the names, and the proofs of each) is carried out. What is left out:

- Logging and message texts (`lib/utils.py`, `lib/messages.py`), payloads, URLs, ports and
  TLS: no state of the driver depends on them.
- The parsing of the text of `multipath -ll` beyond "the device is listed", and of the
  YAML file of the tests.
- Sizes, `allocation_unit` and `compute_instance_id`: constants.
- Services and sizes inside the driver model: the choice of the service is `Startup`'s.
- A formal composition of `RestClient` with every request of the driver: `Request` is
  justified by `RestClientProofs!Refinement`, through the promise of `RestCall`.
