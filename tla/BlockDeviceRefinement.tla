------------------------ MODULE BlockDeviceRefinement ------------------------
(***************************************************************************)
(* Proof that the driver implements VolumeLifecycle.  Under the invariant  *)
(* the place of a volume is given by its mapping and its device (Places);  *)
(* a step that changes neither the volumes, nor a mapping, nor a device,   *)
(* leaves all places alone, and each of the six steps that do change one   *)
(* is the step of VolumeLifecycle with the same effect.                    *)
(***************************************************************************)
EXTENDS BlockDeviceProofs

USE DEF At

PlacesAre ==
  \A w \in Volumes :
    /\ w \in fresh => PlaceOf(w) = Life!Absent
    /\ w \notin vols \cup fresh => PlaceOf(w) = Life!Gone
    /\ w \in vols /\ mappedTo[w] = {} => PlaceOf(w) = Life!Available
    /\ \A h \in mappedTo[w] :
         PlaceOf(w) = IF w \in mpath[h] THEN Life!Ready(h) ELSE Life!Mapped(h)

\* The invariant leaves each volume exactly one place.
LEMMA Places == IInv => PlacesAre
<1>. SUFFICES ASSUME IInv, NEW w \in Volumes
     PROVE  /\ w \in fresh => PlaceOf(w) = Life!Absent
            /\ w \notin vols \cup fresh => PlaceOf(w) = Life!Gone
            /\ w \in vols /\ mappedTo[w] = {} => PlaceOf(w) = Life!Available
            /\ \A h \in mappedTo[w] :
                 PlaceOf(w) = IF w \in mpath[h] THEN Life!Ready(h) ELSE Life!Mapped(h)
  BY DEF PlacesAre
<1>1. ~ \E h \in Hosts : w \in mpath[h] /\ h \notin mappedTo[w]
  BY DEF IInv, NoFaultyDevice, MappedAt
<1>2. mappedTo[w] # {} => w \in vols /\ w \notin fresh
  BY DEF IInv, SoundMappings, TypeOK, BackendTypeOK
<1>3. CASE mappedTo[w] = {}
  BY <1>1, <1>3 DEF PlaceOf, Life!Absent, Life!Gone, Life!Available, IInv, TypeOK,
     BackendTypeOK
<1>4. ASSUME NEW h \in mappedTo[w]
      PROVE  PlaceOf(w) = IF w \in mpath[h] THEN Life!Ready(h) ELSE Life!Mapped(h)
  <2>1. h \in Hosts /\ \A g \in Hosts : g \in mappedTo[w] => g = h
    BY DEF IInv, SoundMappings, TypeOK, BackendTypeOK
  <2>2. (CHOOSE g \in Hosts : g \in mappedTo[w]) = h
    BY <2>1
  <2>. QED BY <1>1, <1>2, <2>2 DEF PlaceOf, Life!Ready, Life!Mapped
<1>. QED BY <1>2, <1>3, <1>4

\* The same of the state after a step.
LEMMA PlacesNext == IInv' => PlacesAre'
BY Places, PTL

\* A volume of which nothing changes stays in its place.
LEMMA SamePlace ==
  ASSUME IInv, IInv', NEW w \in Volumes,
         w \in fresh' <=> w \in fresh,
         w \in vols' <=> w \in vols,
         mappedTo'[w] = mappedTo[w],
         \A h \in Hosts : w \in mpath'[h] <=> w \in mpath[h]
  PROVE  PlaceOf(w)' = PlaceOf(w)
<1>1. PlacesAre /\ PlacesAre'
  BY Places, PlacesNext
<1>2. CASE mappedTo[w] = {}
  <2>1. mappedTo'[w] = {}
    BY <1>2
  <2>2. CASE w \in fresh
    BY <1>1, <2>2 DEF PlacesAre, Life!Absent
  <2>3. CASE w \in vols
    BY <1>1, <1>2, <2>1, <2>3 DEF PlacesAre, Life!Available
  <2>4. CASE w \notin vols \cup fresh
    BY <1>1, <2>4 DEF PlacesAre, Life!Gone
  <2>. QED BY <2>2, <2>3, <2>4
<1>3. ASSUME NEW h \in mappedTo[w] PROVE PlaceOf(w)' = PlaceOf(w)
  <2>1. h \in Hosts /\ h \in mappedTo'[w]
    BY DEF IInv, TypeOK, BackendTypeOK
  <2>. QED BY <1>1, <2>1 DEF PlacesAre, Life!Ready, Life!Mapped
<1>. QED BY <1>2, <1>3

\* Nothing of the storage and no device changes.
LEMMA SamePlaces ==
  ASSUME IInv, IInv', UNCHANGED backendVars, UNCHANGED mpath
  PROVE  UNCHANGED [w \in Volumes |-> PlaceOf(w)]
<1>1. \A w \in Volumes : PlaceOf(w)' = PlaceOf(w)
  BY SamePlace DEF backendVars
<1>. QED BY <1>1

\* A change of the place of one volume is a move of VolumeLifecycle.
LEMMA MoveOne ==
  ASSUME NEW w \in Volumes, NEW from, NEW to,
         PlaceOf(w) = from, PlaceOf(w)' = to,
         \A v \in Volumes \ {w} : PlaceOf(v)' = PlaceOf(v)
  PROVE  Life!Move(w, from, to)
BY DEF Life!Move

-----------------------------------------------------------------------------
(* The steps that move a volume                                             *)

\* A created volume moves from absent to available.
LEMMA CreateMoves ==
  ASSUME IInv, IInv', NEW w \in Volumes, PostVolume(w), UNCHANGED deviceVars
  PROVE  Life!Create(w)
<1>. USE DEF PostVolume, deviceVars
<1>1. w \in fresh /\ w \in vols' /\ mappedTo'[w] = {} /\ w \in Volumes \ Foreign
  BY DEF IInv, TypeOK, BackendTypeOK, SoundMappings
<1>2. PlaceOf(w) = Life!Absent /\ PlaceOf(w)' = Life!Available
  BY <1>1, Places, PlacesNext DEF PlacesAre, Life!Available
<1>3. \A v \in Volumes \ {w} : PlaceOf(v)' = PlaceOf(v)
  BY SamePlace
<1>. QED BY <1>1, <1>2, <1>3, MoveOne DEF Life!Create

\* A deleted volume moves from available to gone.
LEMMA DestroyMoves ==
  ASSUME IInv, IInv', NEW w \in Volumes, DeleteVolume(w), UNCHANGED deviceVars
  PROVE  Life!Destroy(w)
<1>. USE DEF DeleteVolume, deviceVars
<1>1. w \in vols /\ mappedTo[w] = {} /\ w \notin vols' \cup fresh'
  BY DEF IInv, TypeOK, BackendTypeOK
<1>2. PlaceOf(w) = Life!Available /\ PlaceOf(w)' = Life!Gone
  BY <1>1, Places, PlacesNext DEF PlacesAre, Life!Gone
<1>3. \A v \in Volumes \ {w} : PlaceOf(v)' = PlaceOf(v)
  BY SamePlace
<1>. QED BY <1>2, <1>3, MoveOne DEF Life!Destroy

\* A volume that is mapped moves from available to mapped.
LEMMA MapMoves ==
  ASSUME IInv, IInv', NEW w \in Volumes \ Foreign, NEW h \in Hosts,
         PostMapping(w, h), UNCHANGED deviceVars
  PROVE  Life!Map(w, h)
<1>. USE DEF PostMapping, deviceVars
<1>1. w \in vols /\ mappedTo[w] = {} /\ mappedTo'[w] = {h}
  BY DEF IInv, TypeOK, BackendTypeOK
<1>2. w \notin mpath[h]
  BY <1>1 DEF IInv, NoFaultyDevice, MappedAt
<1>3. PlaceOf(w) = Life!Available /\ PlaceOf(w)' = Life!Mapped(h)
  BY <1>1, <1>2, Places, PlacesNext DEF PlacesAre, Life!Mapped
<1>4. \A v \in Volumes \ {w} : mappedTo'[v] = mappedTo[v]
  BY DEF IInv, TypeOK, BackendTypeOK
<1>5. \A v \in Volumes \ {w} : PlaceOf(v)' = PlaceOf(v)
  BY <1>4, SamePlace
<1>. QED BY <1>3, <1>5, MoveOne DEF Life!Map

\* A volume that is unmapped without a device moves from mapped to available.
LEMMA UnmapMoves ==
  ASSUME IInv, IInv', NEW w \in Volumes \ Foreign, NEW h \in Hosts, w \notin mpath[h],
         DeleteMapping(w, h), UNCHANGED deviceVars
  PROVE  Life!Unmap(w, h)
<1>. USE DEF DeleteMapping, deviceVars
<1>1. w \in vols' /\ h \in mappedTo[w] /\ mappedTo'[w] = {}
  BY DEF IInv, TypeOK, BackendTypeOK, SoundMappings
<1>2. PlaceOf(w) = Life!Mapped(h) /\ PlaceOf(w)' = Life!Available
  BY <1>1, Places, PlacesNext DEF PlacesAre, Life!Available
<1>3. \A v \in Volumes \ {w} : mappedTo'[v] = mappedTo[v]
  BY DEF IInv, TypeOK, BackendTypeOK
<1>4. \A v \in Volumes \ {w} : PlaceOf(v)' = PlaceOf(v)
  BY <1>3, SamePlace
<1>. QED BY <1>2, <1>4, MoveOne DEF Life!Unmap

\* A volume whose device is flushed moves from ready to mapped.
LEMMA FlushMoves ==
  ASSUME IInv, IInv', NEW w \in Volumes \ Foreign, NEW h \in Hosts,
         RunMultipathFlush(h, w), UNCHANGED backendVars
  PROVE  Life!Flush(w, h)
<1>. USE DEF RunMultipathFlush, backendVars
<1>1. w \in mpath[h] /\ w \notin mpath'[h] /\ h \in mappedTo[w] /\ h \in mappedTo'[w]
  BY DEF IInv, TypeOK, DevicesTypeOK, NoFaultyDevice, MappedAt
<1>2. PlaceOf(w) = Life!Ready(h) /\ PlaceOf(w)' = Life!Mapped(h)
  BY <1>1, Places, PlacesNext DEF PlacesAre, Life!Mapped
<1>3. \A v \in Volumes \ {w} : \A g \in Hosts : v \in mpath'[g] <=> v \in mpath[g]
  BY DEF IInv, TypeOK, DevicesTypeOK
<1>4. \A v \in Volumes \ {w} : PlaceOf(v)' = PlaceOf(v)
  BY <1>3, SamePlace
<1>. QED BY <1>2, <1>4, MoveOne DEF Life!Flush

\* The volumes whose devices are built were mapped: their paths are fresh.
LEMMA ReloadMoves ==
  ASSUME IInv, IInv', NEW h \in Hosts, NEW built \in SUBSET MappedAt(h),
         mpath' = [mpath EXCEPT ![h] = @ \cup built], UNCHANGED backendVars
  PROVE  Life!Rescan(h)
<1>. USE DEF backendVars
<1>. DEFINE found == {w \in built : w \notin mpath[h]}
<1>1. \A w \in Volumes : \A g \in Hosts :
        w \in mpath'[g] <=> w \in mpath[g] \/ (g = h /\ w \in found)
  BY DEF IInv, TypeOK, DevicesTypeOK
<1>2. ASSUME NEW w \in found
      PROVE  w \in Volumes /\ PlaceOf(w) = Life!Mapped(h) /\ PlaceOf(w)' = Life!Ready(h)
  <2>1. w \in Volumes /\ h \in mappedTo[w] /\ h \in mappedTo'[w]
    BY DEF MappedAt
  <2>2. w \notin mpath[h] /\ w \in mpath'[h]
    BY <1>1, <2>1
  <2>. QED BY <2>1, <2>2, Places, PlacesNext DEF PlacesAre, Life!Mapped, Life!Ready
<1>3. ASSUME NEW w \in Volumes, w \notin found PROVE PlaceOf(w)' = PlaceOf(w)
  BY <1>1, <1>3, SamePlace
<1>. HIDE DEF found
<1>. DEFINE place == [w \in Volumes |-> PlaceOf(w)]
<1>4. found \in SUBSET {w \in Volumes : place[w] = Life!Mapped(h)}
  BY <1>2
<1>5. place' = [w \in Volumes |-> IF w \in found THEN Life!Ready(h) ELSE place[w]]
  BY <1>2, <1>3
<1>. QED BY <1>4, <1>5 DEF Life!Rescan

-----------------------------------------------------------------------------
(* The refinement                                                           *)

\* What a step does to the volumes, the mappings and the devices.
LEMMA Effects ==
  ASSUME IInv, NEW p \in Procs, Call(p) \/ Step(p) \/ Crash(p)
  PROVE  \/ UNCHANGED backendVars /\ UNCHANGED mpath
         \/ \E w \in Volumes : PostVolume(w) /\ UNCHANGED deviceVars
         \/ \E w \in Volumes : DeleteVolume(w) /\ UNCHANGED deviceVars
         \/ \E w \in Volumes \ Foreign, h \in Hosts :
              PostMapping(w, h) /\ UNCHANGED deviceVars
         \/ \E w \in Volumes \ Foreign, h \in Hosts :
              DeleteMapping(w, h) /\ w \notin mpath[h] /\ UNCHANGED deviceVars
         \/ \E w \in Volumes \ Foreign, h \in Hosts :
              RunMultipathFlush(h, w) /\ UNCHANGED backendVars
         \/ \E h \in Hosts : \E built \in SUBSET MappedAt(h) :
              mpath' = [mpath EXCEPT ![h] = @ \cup built] /\ UNCHANGED backendVars
<1>1. HostOf[p] \in Hosts /\ call[p] \in Calls /\ ProcessOK(p)
  BY DriverAssumption DEF IInv, TypeOK
<1>2. CASE CreateOnStorage(p)
  BY <1>2 DEF CreateOnStorage, backendVars, deviceVars, IInv, TypeOK, BackendTypeOK
<1>3. CASE DeleteOnStorage(p)
  <2>1. call[p].wwn \in Volumes
    BY <1>1, <1>3 DEF DeleteOnStorage, Calls, Ops, ProcessOK, CallOK, StepsOf, Creating
  <2>. QED BY <1>3, <2>1 DEF DeleteOnStorage, Request, deviceVars
<1>4. CASE MapVolume(p)
  <2>1. call[p].op = "attach" /\ call[p].pc = "map"
    BY <1>1, <1>4 DEF MapVolume, Calls, Ops, ProcessOK, CallOK, StepsOf, Creating,
       Reading, Cleaning, Rescans
  <2>2. call[p].wwn \in Volumes \ Foreign /\ call[p].to \in Hosts
    BY <1>1, <2>1 DEF ProcessOK, CallOK, ChecksPassed
  <2>. QED BY <1>4, <2>2 DEF MapVolume, Request, deviceVars
<1>5. CASE UnmapVolume(p)
  <2>1. call[p].op = "detach" /\ call[p].pc = "unmap"
    BY <1>1, <1>5 DEF UnmapVolume, Calls, Ops, ProcessOK, CallOK, StepsOf, Creating,
       Reading, Cleaning, Rescans
  <2>2. call[p].wwn \in Volumes \ Foreign /\ call[p].seen \in Hosts
    BY <1>1, <2>1 DEF ProcessOK, CallOK, ChecksPassed
  <2>3. DeleteMapping(call[p].wwn, call[p].seen) =>
          call[p].wwn \notin mpath[call[p].seen]
    BY <1>1, <2>1 DEF ProcessOK, CleanBeforeUnmap, DeleteMapping
  <2>. QED BY <1>5, <2>2, <2>3 DEF UnmapVolume, Request, deviceVars
<1>6. CASE FlushDevice(p)
  <2>1. call[p].op = "detach" /\ call[p].pc = "flush"
    BY <1>1, <1>6 DEF FlushDevice, Calls, Ops, ProcessOK, CallOK, StepsOf, Creating,
       Reading, Rescans
  <2>2. call[p].wwn \in Volumes \ Foreign
    BY <1>1, <2>1 DEF ProcessOK, CallOK, ChecksPassed
  <2>. QED BY <1>1, <1>6, <2>2 DEF FlushDevice, deviceVars
<1>7. CASE IscsiRescan(p) \/ ScsiRescan(p)
  BY <1>1, <1>7 DEF IscsiRescan, ScsiRescan, RunIscsiRescan, RunScsiRescan,
     FailScsiRescan, ChangePaths, MissingPaths
<1>8. CASE MultipathReload(p)
  <2>1. paths[HostOf[p]] \subseteq MappedAt(HostOf[p])
    BY <1>1, <1>8 DEF MultipathReload, ProcessOK, ReloadsFreshPaths
  <2>. QED BY <1>1, <1>8, <2>1 DEF MultipathReload, RunMultipathReload,
           FailMultipathReload
<1>9. CASE \/ Call(p) \/ Crash(p) \/ CheckService(p) \/ ReadServiceId(p)
           \/ LookUpVolume(p) \/ ReadMapping(p) \/ LookUpDeviceVolume(p)
           \/ ReadDeviceMapping(p) \/ FindDevice(p) \/ FailIfNoPath(p) \/ ResolveHost(p)
  BY <1>9 DEF Call, CreateVolume, DestroyVolume, AttachVolume, DetachVolume,
     GetDevicePath, Crash, CheckService, ReadServiceId, LookUpVolume, ReadMapping,
     LookUpDeviceVolume, ReadDeviceMapping, FindDevice, FailIfNoPath, ResolveHost,
     deviceVars
<1>. QED BY <1>2, <1>3, <1>4, <1>5, <1>6, <1>7, <1>8, <1>9 DEF Step

\* The initial places: own volumes are absent, foreign ones are somewhere.
LEMMA InitPlaces == Init => Life!Init
<1>. SUFFICES ASSUME Init PROVE Life!Init
  OBVIOUS
<1>1. IInv /\ PlacesAre
  BY InitIInv, Places
<1>2. ASSUME NEW w \in Volumes
      PROVE  /\ PlaceOf(w) \in Life!Places \ {Life!Gone}
             /\ w \notin Foreign => PlaceOf(w) = Life!Absent
  <2>1. w \in vols \cup fresh
    BY DEF Init, BackendInit
  <2>2. CASE w \in fresh
    BY <1>1, <2>1, <2>2 DEF PlacesAre, Life!Places, Life!Absent, Life!Gone, Init,
       BackendInit
  <2>3. CASE w \in vols /\ mappedTo[w] = {}
    BY <1>1, <2>3 DEF PlacesAre, Life!Places, Life!Available, Life!Gone, Init, BackendInit
  <2>4. ASSUME w \in vols, NEW h \in mappedTo[w]
        PROVE  PlaceOf(w) \in Life!Places \ {Life!Gone} /\ w \in Foreign
    <3>1. h \in Hosts /\ w \in Foreign
      BY <1>1, <2>4 DEF IInv, TypeOK, BackendTypeOK, Init, BackendInit
    <3>2. Life!Mapped(h) \in Life!Places \ {Life!Gone}
            /\ Life!Ready(h) \in Life!Places \ {Life!Gone}
      BY <3>1 DEF Life!Places, Life!Mapped, Life!Ready, Life!Gone
    <3>. QED BY <1>1, <3>1, <3>2 DEF PlacesAre
  <2>. QED BY <2>1, <2>2, <2>3, <2>4
<1>. QED BY <1>2 DEF Life!Init

\* The driver implements VolumeLifecycle, for all values of the constants.
THEOREM Refinement == SerialSpec => ImplementsLifecycle
<1>. DEFINE place == [w \in Volumes |-> PlaceOf(w)]
<1>1. ASSUME IInv, IInv', NEW p \in Procs, Call(p) \/ Step(p) \/ Crash(p)
      PROVE  Life!Next \/ UNCHANGED place
  <2>1. CASE UNCHANGED backendVars /\ UNCHANGED mpath
    BY <1>1, <2>1, SamePlaces
  <2>2. ASSUME NEW w \in Volumes, PostVolume(w), UNCHANGED deviceVars PROVE Life!Next
    BY <1>1, <2>2, CreateMoves DEF Life!Next
  <2>3. ASSUME NEW w \in Volumes, DeleteVolume(w), UNCHANGED deviceVars PROVE Life!Next
    BY <1>1, <2>3, DestroyMoves DEF Life!Next
  <2>4. ASSUME NEW w \in Volumes \ Foreign, NEW h \in Hosts, PostMapping(w, h),
               UNCHANGED deviceVars
        PROVE  Life!Next
    BY <1>1, <2>4, MapMoves DEF Life!Next
  <2>5. ASSUME NEW w \in Volumes \ Foreign, NEW h \in Hosts, DeleteMapping(w, h),
               w \notin mpath[h], UNCHANGED deviceVars
        PROVE  Life!Next
    BY <1>1, <2>5, UnmapMoves DEF Life!Next
  <2>6. ASSUME NEW w \in Volumes \ Foreign, NEW h \in Hosts, RunMultipathFlush(h, w),
               UNCHANGED backendVars
        PROVE  Life!Next
    BY <1>1, <2>6, FlushMoves DEF Life!Next
  <2>7. ASSUME NEW h \in Hosts, NEW built \in SUBSET MappedAt(h),
               mpath' = [mpath EXCEPT ![h] = @ \cup built], UNCHANGED backendVars
        PROVE  Life!Next
    BY <1>1, <2>7, ReloadMoves DEF Life!Next
  <2>. HIDE DEF place
  <2>. QED BY <1>1, <2>1, <2>2, <2>3, <2>4, <2>5, <2>6, <2>7, Effects DEF place
<1>2. ASSUME IInv, IInv', UNCHANGED vars PROVE UNCHANGED place
  BY <1>2, SamePlaces DEF vars, backendVars
<1>3. IInv /\ IInv' /\ [Next]_vars => [Life!Next]_place
  BY <1>1, <1>2 DEF Next
<1>. HIDE DEF place
<1>. QED BY <1>3, InitPlaces, Invariance, NextIsSerial, PTL DEF SerialSpec, ImplementsLifecycle, Life!Spec, place

=============================================================================
