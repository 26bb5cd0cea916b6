---------------------------- MODULE CleanUpProofs ----------------------------
(***************************************************************************)
(* Proofs of CleanUpSafety: the clean-up is a legal caller of the driver,  *)
(* and what it was called for is gone when it returns.  A volume is never  *)
(* created again, so of the old volumes those that are left only get fewer *)
(* (Storage), and destroy_volume returns only if its volume is gone        *)
(* (DestroyedIsGone).                                                      *)
(***************************************************************************)
EXTENDS CleanUpSafety, VolumeListingProofs

USE CleanerAssumption DEF At

\* A step of the clean-up is a step that the callers of the driver may take.
LEMMA CleanStepIsSerial ==
  ASSUME CleanTypeOK, [CleanNext]_cleanVars
  PROVE  [SerialNext]_vars
<1>1. StartCleanUp \/ ListForCleanUp \/ FinishCleanUp => UNCHANGED vars
  BY DEF StartCleanUp, ListForCleanUp, FinishCleanUp
<1>2. clean.todo \subseteq Volumes
  BY DEF CleanTypeOK, CleanUps
<1>3. Test \/ DetachNext \/ DestroyNext \/ RunCall \/ Others => Next
  BY <1>2 DEF Test, DetachNext, DestroyNext, RunCall, Others, Call, Next
<1>4. Die => Next \/ UNCHANGED vars
  BY DEF Die, Next
<1>. QED BY <1>1, <1>3, <1>4 DEF CleanNext, CleanerStep, SerialNext, cleanVars, listingVars

-----------------------------------------------------------------------------
(* What the calls of the driver do                                          *)

\* No step brings a volume back.
LEMMA Storage ==
  ASSUME IInv, [SerialNext]_vars
  PROVE  fresh' \subseteq fresh /\ vols' \subseteq vols \cup fresh
BY StepKeeps DEF SerialNext, Next, vars, Keeps, StorageOK, Local

\* A call that goes on is the same call.
LEMMA SameCall ==
  ASSUME IInv, NEW p \in Procs, Step(p), ~At(p, "idle")'
  PROVE  call'[p].op = call[p].op /\ call'[p].wwn = call[p].wwn
<1>1. call \in [Procs -> Calls] /\ call[p] \in Calls
  BY DEF IInv, TypeOK
<1>2. ~ \E a \in Answers : Answer(p, a)
  BY <1>1 DEF Answer, NoCall
<1>3. ASSUME NEW s, NEW n, Continue(p, s, n)
      PROVE  call'[p].op = call[p].op /\ call'[p].wwn = call[p].wwn
  BY <1>1, <1>3 DEF Continue, Calls
<1>4. ASSUME NEW h, call' = [call EXCEPT ![p] = [@ EXCEPT !.pc = "device_lookup", !.seen = h]]
      PROVE  call'[p].op = call[p].op /\ call'[p].wwn = call[p].wwn
  BY <1>1, <1>4 DEF Calls
<1>5. (\E s, n : Continue(p, s, n)) \/ ReadMapping(p)
  BY <1>2 DEF Step, CheckService, ReadServiceId, CreateOnStorage, LookUpVolume,
     DeleteOnStorage, LookUpDeviceVolume, ReadDeviceMapping, FindDevice, FailIfNoPath,
     FlushDevice, ResolveHost, MapVolume, UnmapVolume, IscsiRescan, ScsiRescan,
     MultipathReload, Request, RetryOrFail, Goto, Answers
<1>6. CASE ReadMapping(p)
  BY <1>2, <1>3, <1>4, <1>6 DEF ReadMapping, Goto, Answers
<1>. QED BY <1>3, <1>5, <1>6

\* destroy_volume returns only when the volume is gone.
LEMMA DestroyedIsGone ==
  ASSUME IInv, NEW p \in Procs, Step(p), call[p].op = "destroy",
         At(p, "idle")', answer' = "ok"
  PROVE  call[p].wwn \notin vols'
<1>1. call[p] \in Calls /\ ProcessOK(p)
  BY DEF IInv, TypeOK
<1>2. call[p].pc \in {"lookup", "delete_volume"}
  BY <1>1 DEF ProcessOK, CallOK, StepsOf
<1>3. LookUpVolume(p) \/ DeleteOnStorage(p)
  BY <1>2 DEF Step, CheckService, ReadServiceId, CreateOnStorage, ReadMapping,
     LookUpDeviceVolume, ReadDeviceMapping, FindDevice, FailIfNoPath, FlushDevice,
     ResolveHost, MapVolume, UnmapVolume, IscsiRescan, ScsiRescan, MultipathReload
<1>4. ~LookUpVolume(p)
  BY DEF LookUpVolume, Answer, Goto, Continue
<1>. QED BY <1>3, <1>4 DEF DeleteOnStorage, Request, Answer, DeleteVolume

-----------------------------------------------------------------------------
(* The invariant                                                            *)

\* Of the old volumes those that are left only get fewer.
LEMMA OldShrink ==
  ASSUME IInv, CleanIInv, [CleanNext]_cleanVars
  PROVE  /\ clean.old \cap vols' \subseteq clean.old \cap vols
         /\ clean.old \cap fresh' = {}
BY CleanStepIsSerial, Storage DEF CleanIInv

\* A clean-up that is forgotten leaves nothing to require.
LEMMA ForgottenIsOK ==
  ASSUME Fail
  PROVE  CleanIInv'
<1>1. clean' = NotCleaning /\ list' = NotListing
  BY DEF Fail
<1>2. list' \in Listers
  BY <1>1, NotListingType
<1>. QED BY <1>1, <1>2 DEF NotCleaning, NotListing, CleanIInv, CleanTypeOK, CleanUps, Phases,
     OldAreListed, CallIsCurrent, Doing, Listing, ListReads

\* The steps outside a clean-up: of the test, and of the other processes at any time.
LEMMA OthersKeep ==
  ASSUME IInv, CleanIInv, Test \/ Others, CleanNext
  PROVE  CleanIInv'
<1>1. UNCHANGED <<list, clean>>
  BY DEF Test, Others
<1>2. /\ clean.old \cap vols' \subseteq clean.old \cap vols
      /\ clean.old \cap fresh' = {}
  BY OldShrink
<1>3. CleaningUp => call'[Cleaner] = call[Cleaner]
  <2>1. ASSUME NEW p \in Procs \ {Cleaner}, Call(p) \/ Step(p) \/ Crash(p)
        PROVE  call'[Cleaner] = call[Cleaner]
    BY <2>1, StepKeeps DEF Keeps, CallOfStepOK, OthersWait
  <2>. QED BY <2>1 DEF Test, Others
<1>4. CallIsCurrent'
  BY <1>1, <1>3 DEF CleanIInv, CallIsCurrent, Doing, CleaningUp
<1>5. OldAreListed'
  BY <1>1, <1>2 DEF CleanIInv, OldAreListed, Doing
<1>. QED BY <1>1, <1>2, <1>4, <1>5 DEF CleanIInv, CleanTypeOK, Doing, Listing

\* At first all volumes of the cluster are still to be read.
LEMMA StartKeeps ==
  ASSUME IInv, CleanIInv, StartCleanUp, CleanNext
  PROVE  CleanIInv'
<1>1. list' = [NotListing EXCEPT !.pc = "volumes"] /\ list' \in Listers
  BY ListTypes DEF StartCleanUp, BeginListing, CleanIInv, CleanTypeOK
<1>2. /\ clean' = [NotCleaning EXCEPT !.phase = "listing", !.old = ClusterVolumes]
      /\ UNCHANGED vars
      /\ call[Cleaner].pc = "idle"
  BY DEF StartCleanUp
<1>3. ClusterVolumes \in SUBSET Volumes /\ ClusterVolumes \cap (Foreign \cup fresh) = {}
  BY DEF IInv, TypeOK, BackendTypeOK, ClusterVolumes
<1>4. clean' \in CleanUps /\ clean'.todo = {} /\ clean'.phase = "listing"
        /\ clean'.old = ClusterVolumes
  BY <1>2, <1>3 DEF NotCleaning, CleanUps, Phases
<1>5. list'.pc = "volumes"
  BY <1>1 DEF NotListing
<1>. QED BY <1>1, <1>2, <1>3, <1>4, <1>5 DEF CleanIInv, CleanTypeOK, OldAreListed,
     CallIsCurrent, Doing, Listing, ListReads, vars

\* What is read of the old volumes, and then listed, are those that are left.
LEMMA ListKeeps ==
  ASSUME IInv, CleanIInv, ListForCleanUp
  PROVE  CleanIInv'
<1>1. /\ clean \in CleanUps
      /\ clean.phase = "listing"
      /\ list \in Listers
      /\ UNCHANGED vars
      /\ list' \in Listers
  BY ListTypes DEF ListForCleanUp, ListStep, CleanIInv, CleanTypeOK, Doing
<1>2. call'[Cleaner].pc = "idle" /\ clean.old \cap (Foreign \cup fresh') = {}
  BY <1>1 DEF CleanIInv, CallIsCurrent, Doing, vars
<1>3. CASE (ReadVolumes \/ ReadMappings) /\ UNCHANGED clean
  <2>1. list'.pc \in {"mappings", "hosts"} /\ clean.old \cap vols' \subseteq list'.found
    <3>1. CASE ReadVolumes
      BY <1>1, <3>1 DEF ReadVolumes, Listers, vars
    <3>2. CASE ReadMappings
      BY <1>1, <3>2 DEF ReadMappings, Listers, vars, CleanIInv, OldAreListed, Doing
    <3>. QED BY <1>3, <3>1, <3>2
  <2>. QED BY <1>1, <1>2, <1>3, <2>1 DEF CleanIInv, CleanTypeOK, OldAreListed,
           CallIsCurrent, Doing, Listing, ListReads
<1>4. CASE ReadHosts
             /\ clean' = [clean EXCEPT !.phase = "picking", !.todo = DOMAIN list'.entries]
  <2>1. PICK names \in DefinedHosts :
          list' = [NotListing EXCEPT !.pc = "returned", !.entries = Entries(names)]
    BY <1>4 DEF ReadHosts
  <2>2. list'.pc = "returned" /\ list'.entries = Entries(names)
    BY <2>1 DEF NotListing
  <2>3. DOMAIN list'.entries = list.found \ Foreign
    BY <2>2 DEF Entries
  <2>4. list.found \in SUBSET Volumes /\ clean.old \cap vols' \subseteq list.found
    BY <1>1, <1>4 DEF Listers, CleanIInv, OldAreListed, Doing, ReadHosts, vars
  <2>5. /\ clean' \in CleanUps
        /\ clean'.phase = "picking"
        /\ clean'.todo = list.found \ Foreign
        /\ clean'.old = clean.old
    BY <1>1, <1>4, <2>3, <2>4 DEF CleanUps, Phases
  <2>. QED BY <1>1, <1>2, <2>2, <2>4, <2>5 DEF CleanIInv, CleanTypeOK, OldAreListed,
           CallIsCurrent, Doing, Listing, ListReads
<1>5. CASE FailListing /\ clean' = NotCleaning
  BY <1>5, ForgottenIsOK DEF FailListing, Fail
<1>. QED BY <1>3, <1>4, <1>5 DEF ListForCleanUp

\* A call that the clean-up begins is for a volume of its list.
LEMMA BeginKeeps ==
  ASSUME IInv, CleanIInv, DetachNext \/ DestroyNext, CleanNext
  PROVE  CleanIInv'
<1>1. PICK w \in clean.todo, op \in {"detach", "destroy"} :
        /\ Begin(Cleaner, op, w, NoHost, "lookup")
        /\ clean' = [clean EXCEPT !.phase = IF op = "detach" THEN "detaching"
                                                            ELSE "destroying",
                                  !.current = w]
        /\ clean.phase \in {"picking", "detached"}
        /\ UNCHANGED <<list, backendVars, deviceVars>>
  BY DEF DetachNext, DestroyNext, DetachVolume, DestroyVolume, Doing
<1>2. call'[Cleaner].op = op /\ call'[Cleaner].wwn = w
  BY <1>1 DEF Begin, IInv, TypeOK
<1>3. clean \in CleanUps /\ clean.todo \in SUBSET Volumes
  BY DEF CleanIInv, CleanTypeOK, CleanUps
<1>4. /\ clean' \in CleanUps
      /\ clean'.phase = IF op = "detach" THEN "detaching" ELSE "destroying"
      /\ clean'.current = w
      /\ clean'.todo = clean.todo
      /\ clean'.old = clean.old
  BY <1>1, <1>3 DEF CleanUps, Phases
<1>5. CallIsCurrent'
  BY <1>1, <1>2, <1>4 DEF CallIsCurrent, Doing
<1>6. OldAreListed'
  BY <1>1, <1>4 DEF CleanIInv, OldAreListed, Doing, backendVars
<1>. QED BY <1>1, <1>4, <1>5, <1>6 DEF CleanIInv, CleanTypeOK, Doing, Listing, backendVars

\* When destroy_volume has returned, the volume may be taken off the list.
LEMMA RunKeeps ==
  ASSUME IInv, CleanIInv, RunCall, CleanNext
  PROVE  CleanIInv'
<1>1. clean.phase \in {"detaching", "destroying"} /\ Step(Cleaner) /\ clean \in CleanUps
  BY DEF RunCall, CleanIInv, CleanTypeOK
<1>2. /\ clean.old \cap vols' \subseteq clean.old \cap vols
      /\ clean.old \cap fresh' = {}
  BY OldShrink
<1>3. CASE ~At(Cleaner, "idle")' /\ UNCHANGED <<list, clean>>
  <2>1. CallIsCurrent'
    BY <1>1, <1>3, SameCall DEF CleanIInv, CallIsCurrent, Doing
  <2>2. OldAreListed'
    BY <1>2, <1>3 DEF CleanIInv, OldAreListed, Doing
  <2>. QED BY <1>2, <1>3, <2>1, <2>2 DEF CleanIInv, CleanTypeOK, Doing, Listing
<1>4. CASE At(Cleaner, "idle")' /\ answer' = "ok" /\ Proceed /\ UNCHANGED list
  <2>1. CASE Doing("detaching") /\ clean' = [clean EXCEPT !.phase = "detached"]
    <3>1. /\ clean' \in CleanUps
          /\ clean'.phase = "detached"
          /\ clean'.todo = clean.todo
          /\ clean'.current = clean.current
          /\ clean'.old = clean.old
      BY <1>1, <2>1 DEF CleanUps, Phases
    <3>2. CallIsCurrent' /\ OldAreListed'
      BY <1>1, <1>2, <1>4, <3>1 DEF CleanIInv, CallIsCurrent, OldAreListed, Doing
    <3>. QED BY <1>1, <1>2, <1>4, <3>1, <3>2 DEF CleanIInv, CleanTypeOK, Doing, Listing
  <2>2. CASE /\ Doing("destroying")
             /\ clean' = [clean EXCEPT !.phase = "picking", !.current = NoVolume,
                                       !.todo = clean.todo \ {clean.current}]
    <3>1. /\ clean' \in CleanUps
          /\ clean'.phase = "picking"
          /\ clean'.todo = clean.todo \ {clean.current}
          /\ clean'.old = clean.old
      BY <1>1, <2>2 DEF CleanUps, Phases
    <3>2. call[Cleaner].op = "destroy" /\ call[Cleaner].wwn = clean.current
      BY <2>2 DEF CleanIInv, CallIsCurrent
    <3>3. clean.current \notin vols'
      BY <1>1, <1>4, <3>2, DestroyedIsGone
    <3>4. CallIsCurrent' /\ OldAreListed'
      BY <1>1, <1>2, <1>4, <3>1, <3>3 DEF CleanIInv, CallIsCurrent, OldAreListed, Doing
    <3>. QED BY <1>1, <1>2, <1>4, <3>1, <3>4 DEF CleanIInv, CleanTypeOK, Doing, Listing
  <2>. QED BY <1>4, <2>1, <2>2 DEF Proceed
<1>5. CASE Fail
  BY <1>5, ForgottenIsOK
<1>. QED BY <1>3, <1>4, <1>5 DEF RunCall

\* Nothing of the list is left when the loop ends, so no old volume is.
LEMMA FinishKeeps ==
  ASSUME IInv, CleanIInv, FinishCleanUp
  PROVE  CleanIInv'
<1>1. /\ clean.phase = "picking"
      /\ clean.todo = {}
      /\ clean' = [NotCleaning EXCEPT !.phase = "done", !.old = clean.old]
      /\ list' = NotListing
      /\ UNCHANGED vars
  BY DEF FinishCleanUp, Doing
<1>2. clean \in CleanUps /\ clean.old \cap vols = {}
  BY <1>1 DEF CleanIInv, CleanTypeOK, OldAreListed
<1>3. /\ clean' \in CleanUps
      /\ clean'.phase = "done"
      /\ clean'.todo = {}
      /\ clean'.old = clean.old
  BY <1>1, <1>2 DEF NotCleaning, CleanUps, Phases
<1>4. list' \in Listers /\ list'.pc = "idle"
  BY <1>1, NotListingType DEF NotListing
<1>. QED BY <1>1, <1>2, <1>3, <1>4 DEF CleanIInv, CleanTypeOK, OldAreListed, CallIsCurrent,
     Doing, Listing, ListReads, vars

\* The invariant is inductive, next to the one of the driver.
LEMMA CleanKeeps == IInv /\ CleanIInv /\ [CleanNext]_cleanVars => CleanIInv'
<1>1. ASSUME IInv, CleanIInv, CleanNext PROVE CleanIInv'
  <2>1. CASE Test \/ Others
    BY <1>1, <2>1, OthersKeep
  <2>2. CASE Die
    BY <2>2, ForgottenIsOK DEF Die
  <2>3. CASE StartCleanUp \/ CleanerStep
    BY <1>1, <2>3, StartKeeps, ListKeeps, BeginKeeps, RunKeeps, FinishKeeps DEF CleanerStep
  <2>. QED BY <1>1, <2>1, <2>2, <2>3 DEF CleanNext
<1>2. ASSUME CleanIInv, UNCHANGED cleanVars PROVE CleanIInv'
  BY <1>2 DEF cleanVars, listingVars, vars, CleanIInv, CleanTypeOK, OldAreListed,
     CallIsCurrent, Doing, Listing
<1>. QED BY <1>1, <1>2

\* The clean-up calls the driver as its callers may, so all that is proved of the
\* driver holds while it runs; and CleanIInv is an invariant.
THEOREM CleanUpIsSerial == CleanSpec => SerialSpec /\ []CleanIInv
<1>1. CleanInit => Init /\ DetachesAlone /\ CleanIInv
  <2>. SUFFICES ASSUME CleanInit PROVE Init /\ DetachesAlone /\ CleanIInv
    OBVIOUS
  <2>1. Init /\ clean = NotCleaning /\ list = NotListing
    BY DEF CleanInit, ListInit
  <2>2. DetachesAlone
    BY <2>1 DEF Init, DetachesAlone, NoCall
  <2>3. CleanIInv
    BY <2>1, NotListingType DEF NotCleaning, NotListing, CleanIInv, CleanTypeOK, CleanUps,
       Phases, OldAreListed, CallIsCurrent, Doing, Listing, ListReads
  <2>. QED BY <2>1, <2>2, <2>3
<1>2. CleanIInv /\ [CleanNext]_cleanVars => [SerialNext]_vars
  BY CleanStepIsSerial DEF CleanIInv
<1>. QED BY <1>1, <1>2, InitIInv, NextIInv, CleanKeeps, PTL DEF CleanSpec, SerialSpec

\* When the clean-up returns, no volume is left that there was when it was called,
\* whatever moved meanwhile, for any number of volumes and processes.
THEOREM CleanUpCleans == CleanSpec => []CleanedUp
<1>1. CleanIInv => CleanedUp
  BY DEF CleanIInv, OldAreListed, CleanedUp
<1>. QED BY <1>1, CleanUpIsSerial, PTL

\* A volume disappears only by the call of destroy_volume for it.
LEMMA DeletedByItsCall ==
  ASSUME IInv, NEW p \in Procs, Step(p), NEW w \in vols, w \notin vols'
  PROVE  call[p].wwn = w
<1>1. CASE CreateOnStorage(p)
  BY <1>1 DEF CreateOnStorage, PostVolume, backendVars
<1>2. CASE DeleteOnStorage(p)
  BY <1>2 DEF DeleteOnStorage, Request, DeleteVolume, backendVars
<1>3. CASE MapVolume(p) \/ UnmapVolume(p)
  BY <1>3 DEF MapVolume, UnmapVolume, Request, PostMapping, DeleteMapping, backendVars
<1>4. CASE ~CreateOnStorage(p) /\ ~DeleteOnStorage(p) /\ ~MapVolume(p) /\ ~UnmapVolume(p)
  BY <1>4 DEF Step, CheckService, ReadServiceId, LookUpVolume, ReadMapping,
     LookUpDeviceVolume, ReadDeviceMapping, FindDevice, FailIfNoPath, FlushDevice,
     ResolveHost, IscsiRescan, ScsiRescan, MultipathReload, backendVars
<1>. QED BY <1>1, <1>2, <1>3, <1>4

\* The clean-up destroys no volume of another cluster.
THEOREM ForeignAreSpared == CleanSpec => CleanUpSparesForeign
<1>1. ASSUME IInv, CleanIInv, [CleanNext]_cleanVars,
             NEW w \in Foreign, CleaningUp, w \in vols, w \notin vols'
      PROVE  call'[Cleaner] = call[Cleaner]
  <2>1. CASE RunCall
    <3>1. clean.phase \in {"detaching", "destroying"} /\ call[Cleaner].wwn = w
      BY <1>1, <2>1, DeletedByItsCall DEF RunCall
    <3>2. w \in clean.todo
      BY <1>1, <3>1 DEF CleanIInv, CallIsCurrent, Doing
    <3>. QED BY <1>1, <3>2 DEF CleanIInv, CleanTypeOK
  <2>2. ASSUME NEW p \in Procs \ {Cleaner}, Call(p) \/ Step(p) \/ Crash(p)
        PROVE  call'[Cleaner] = call[Cleaner]
    BY <1>1, <2>2, StepKeeps DEF Keeps, CallOfStepOK, OthersWait
  <2>3. CASE StartCleanUp \/ ListForCleanUp \/ DetachNext \/ DestroyNext \/ FinishCleanUp
             \/ Die \/ UNCHANGED cleanVars
    BY <1>1, <2>3 DEF StartCleanUp, ListForCleanUp, DetachNext, DestroyNext, DetachVolume,
       DestroyVolume, FinishCleanUp, Die, Crash, cleanVars, listingVars, vars, backendVars
  <2>. QED BY <1>1, <2>1, <2>2, <2>3 DEF CleanNext, CleanerStep, Test, Others
<1>2. IInv /\ CleanIInv /\ [CleanNext]_cleanVars =>
        [\A w \in Foreign : CleaningUp /\ w \in vols /\ w \notin vols' =>
           call'[Cleaner] = call[Cleaner]]_cleanVars
  BY <1>1
<1>. QED BY <1>2, CleanUpIsSerial, Invariance, PTL DEF CleanSpec, CleanUpSparesForeign

-----------------------------------------------------------------------------
(* The clean-up ends: its variant                                           *)

\* What a step of the cleaner's call does to the requests and commands it has left.
LEMMA CleanerCall ==
  ASSUME OverlapInv, Step(Cleaner)
  PROVE  /\ RequestsLeft(Cleaner)' < RequestsLeft(Cleaner)
         /\ RequestsLeft(Cleaner) \in 0 .. 15 + 2 * Retries
         /\ RequestsLeft(Cleaner)' \in Nat
<1>1. ~Call(Cleaner)
  BY DEF Call, CreateVolume, DestroyVolume, DetachVolume, AttachVolume, GetDevicePath, Begin,
     Step, CheckService, ReadServiceId, CreateOnStorage, LookUpVolume, ReadMapping,
     DeleteOnStorage, LookUpDeviceVolume, ReadDeviceMapping, FindDevice, FailIfNoPath,
     FlushDevice, ResolveHost, MapVolume, UnmapVolume, IscsiRescan, ScsiRescan,
     MultipathReload
<1>2. /\ call' \in [Procs -> Calls]
      /\ RequestsLeft(Cleaner)' + Requests(Cleaner) <= RequestsLeft(Cleaner)
      /\ RequestsLeft(Cleaner) <= 15 + 2 * Retries
  BY <1>1, OverlapStep DEF OverlapInv
<1>3. /\ call[Cleaner].pc \in Steps /\ call[Cleaner].left \in Nat
      /\ call'[Cleaner].pc \in Steps /\ call'[Cleaner].left \in Nat
  BY <1>2, DriverAssumption DEF OverlapInv, TypeOK, Calls
<1>4. Retries \in Nat /\ \A s \in Steps : RequestsFrom[s] \in Nat
  BY DriverAssumption DEF Steps, RequestsFrom
<1>5. RequestsLeft(Cleaner) \in Nat /\ RequestsLeft(Cleaner)' \in Nat
  BY <1>3, <1>4 DEF RequestsLeft
<1>. QED BY <1>2, <1>4, <1>5 DEF Requests

\* The reads of the listing come in their order.
LEMMA ListAdvances ==
  ASSUME CleanIInv, ListForCleanUp, CleaningUp'
  PROVE  CleanUpAdvances
<1>1. list \in Listers /\ Doing("listing")
  BY DEF CleanIInv, CleanTypeOK, ListForCleanUp
<1>2. ~FailListing \/ clean' # NotCleaning
  BY DEF CleaningUp, NotCleaning
<1>3. CASE ReadVolumes
  <2>1. list'.pc = "mappings"
    BY <1>1, <1>3 DEF ReadVolumes, Listers
  <2>. QED BY <1>1, <1>3, <2>1 DEF ReadVolumes, ReadsLeft, CleanUpAdvances
<1>4. CASE ReadMappings
  <2>1. list'.pc = "hosts"
    BY <1>1, <1>4 DEF ReadMappings, Listers
  <2>. QED BY <1>1, <1>4, <2>1 DEF ReadMappings, ReadsLeft, CleanUpAdvances
<1>5. CASE ReadHosts
  <2>1. list'.pc = "returned"
    BY <1>5 DEF ReadHosts, NotListing
  <2>. QED BY <1>1, <1>5, <2>1 DEF ReadHosts, ReadsLeft, CleanUpAdvances
<1>. QED BY <1>2, <1>3, <1>4, <1>5 DEF ListForCleanUp

\* A call that begins has fewer steps left than the volume had.
LEMMA BeginAdvances ==
  ASSUME OverlapInv, CleanIInv, DetachNext \/ DestroyNext
  PROVE  CleanUpAdvances
<1>1. PICK w \in clean.todo, op \in {"detach", "destroy"} :
        /\ Begin(Cleaner, op, w, NoHost, "lookup")
        /\ clean' = [clean EXCEPT !.phase = IF op = "detach" THEN "detaching"
                                                            ELSE "destroying",
                                  !.current = w]
        /\ \/ clean.phase = "picking"
           \/ op = "destroy" /\ clean.phase = "detached"
  BY DEF DetachNext, DestroyNext, DetachVolume, DestroyVolume, Doing
<1>2. call'[Cleaner].pc = "lookup" /\ call'[Cleaner].left = 0
  BY <1>1 DEF Begin, OverlapInv, TypeOK
<1>3. Retries \in Nat
  BY DriverAssumption
<1>4. RequestsLeft(Cleaner)' = 15 + 2 * Retries
  BY <1>2, <1>3 DEF RequestsLeft, RequestsFrom
<1>5. clean'.todo = clean.todo
        /\ clean'.phase = IF op = "detach" THEN "detaching" ELSE "destroying"
  BY <1>1 DEF CleanIInv, CleanTypeOK, CleanUps
<1>. DEFINE all == 15 + 2 * Retries
<1>6. WorkLeft = IF clean.phase = "picking" THEN 2 * all + 2 ELSE all + 1
  BY <1>1 DEF WorkLeft, Doing
<1>7. WorkLeft' = IF op = "detach" THEN all + all + 1 ELSE all
  BY <1>4, <1>5 DEF WorkLeft, Doing
<1>8. WorkLeft' < WorkLeft
  BY <1>1, <1>3, <1>6, <1>7
<1>. QED BY <1>1, <1>5, <1>8 DEF CleanUpAdvances, Doing

\* A call that runs comes nearer to its end; destroy_volume, when it has returned,
\* takes its volume off the list.
LEMMA RunAdvances ==
  ASSUME OverlapInv, CleanIInv, RunCall, CleaningUp'
  PROVE  CleanUpAdvances
<1>1. clean.phase \in {"detaching", "destroying"} /\ clean \in CleanUps
        /\ clean.current \in clean.todo
  BY DEF RunCall, CleanIInv, CleanTypeOK, CallIsCurrent
<1>2. /\ RequestsLeft(Cleaner)' < RequestsLeft(Cleaner)
      /\ RequestsLeft(Cleaner) \in Nat /\ RequestsLeft(Cleaner)' \in Nat
      /\ Retries \in Nat
  BY CleanerCall, DriverAssumption DEF RunCall
<1>3. ~Fail
  BY DEF Fail, CleaningUp, NotCleaning
<1>4. CASE UNCHANGED clean
  <2>1. WorkLeft' < WorkLeft
    BY <1>1, <1>2, <1>4 DEF WorkLeft, Doing
  <2>. QED BY <1>1, <1>4, <2>1 DEF CleanUpAdvances, Doing
<1>5. CASE Doing("detaching") /\ clean' = [clean EXCEPT !.phase = "detached"]
  <2>1. clean'.phase = "detached" /\ clean'.todo = clean.todo
    BY <1>1, <1>5 DEF CleanUps
  <2>2. WorkLeft' < WorkLeft
    BY <1>1, <1>2, <1>5, <2>1 DEF WorkLeft, Doing
  <2>. QED BY <1>1, <2>1, <2>2 DEF CleanUpAdvances, Doing
<1>6. CASE clean' = [clean EXCEPT !.phase = "picking", !.current = NoVolume,
                                  !.todo = clean.todo \ {clean.current}]
  <2>1. clean'.phase = "picking" /\ clean'.todo = clean.todo \ {clean.current}
    BY <1>1, <1>6 DEF CleanUps
  <2>. QED BY <1>1, <2>1 DEF CleanUpAdvances, Doing
<1>. QED BY <1>3, <1>4, <1>5, <1>6 DEF RunCall, Proceed

\* The clean-up of any number of volumes goes down a well-founded order with each of
\* its steps: the reads of the listing, then the set of the volumes that are left,
\* then the requests and commands for the volume at hand.
THEOREM CleanUpGoesDown == CleanSpec => CleanUpShrinks
<1>1. ASSUME OverlapInv, CleanIInv, [CleanNext]_cleanVars, CleaningUp, CleaningUp'
      PROVE  IF CleanerStep THEN CleanUpAdvances
                            ELSE UNCHANGED <<list, clean, call[Cleaner]>>
  <2>1. CASE CleanerStep
    <3>1. ~FinishCleanUp
      BY <1>1 DEF FinishCleanUp, NotCleaning, CleaningUp, CleanIInv, CleanTypeOK, CleanUps
    <3>. QED BY <1>1, <2>1, <3>1, ListAdvances, BeginAdvances, RunAdvances DEF CleanerStep
  <2>2. CASE ~CleanerStep /\ ~Others
    <3>1. ~Test /\ ~StartCleanUp /\ ~Die
      BY <1>1 DEF Test, StartCleanUp, Die, Fail, CleaningUp, NotCleaning
    <3>2. UNCHANGED cleanVars
      BY <1>1, <2>2, <3>1 DEF CleanNext
    <3>. QED BY <2>2, <3>2 DEF cleanVars, listingVars, vars
  <2>3. CASE ~CleanerStep /\ Others
    <3>1. PICK p \in Procs \ {Cleaner} : Call(p) \/ Step(p) \/ Crash(p)
      BY <2>3 DEF Others
    <3>2. call'[Cleaner] = call[Cleaner]
      BY <1>1, <3>1, OverlapStep DEF OthersWait
    <3>. QED BY <2>3, <3>2 DEF Others
  <2>. QED BY <2>1, <2>2, <2>3
<1>2. OverlapInv /\ CleanIInv /\ [CleanNext]_cleanVars =>
        [CleaningUp /\ CleaningUp' =>
           IF CleanerStep THEN CleanUpAdvances
                          ELSE UNCHANGED <<list, clean, call[Cleaner]>>]_cleanVars
  BY <1>1
<1>. QED BY <1>2, CleanUpIsSerial, NextIsSerial, OverlapInit, OverlapNext, PTL
         DEF CleanSpec, SerialSpec, CleanUpShrinks

=============================================================================
