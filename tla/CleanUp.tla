------------------------------- MODULE CleanUp -------------------------------
(***************************************************************************)
(* detach_destroy_all_volumes (testtools_ibm_storage_flocker_driver.py),   *)
(* which get_ibm_storage_blockdevice_api_for_test runs after each test: it *)
(* lists the volumes and then detaches and destroys each, by the listing,  *)
(* with the calls of the driver.  It ends with the first call that raises. *)
(* The test has made calls of its own before, and the other processes go   *)
(* on meanwhile.                                                           *)
(***************************************************************************)
EXTENDS VolumeListing

CONSTANT Cleaner   \* the process that cleans up

ASSUME CleanerAssumption == Cleaner \in Procs

VARIABLE clean

cleanVars == <<listingVars, clean>>

\* detaching, destroying: a call of the driver runs; detached: it has returned.
Phases == {"idle", "listing", "picking", "detaching", "detached", "destroying", "done"}

CleanUps == [phase   : Phases,
             todo    : SUBSET Volumes,             \* the rest of volumes
             current : Volumes \cup {NoVolume},    \* volume
             old     : SUBSET Volumes]  \* history: the volumes there were at first

NotCleaning == [phase |-> "idle", todo |-> {}, current |-> NoVolume, old |-> {}]

CleanInit == Init /\ ListInit /\ clean = NotCleaning

Doing(phase) == clean.phase = phase
CleaningUp   == clean.phase \notin {"idle", "done"}

\* The exception leaves the function, and its locals are forgotten.
Fail == clean' = NotCleaning /\ list' = NotListing

-----------------------------------------------------------------------------

\* The test itself, before the clean-up.
Test ==
  /\ ~CleaningUp
  /\ Call(Cleaner) \/ Step(Cleaner) \/ Crash(Cleaner)
  /\ UNCHANGED <<list, clean>>

StartCleanUp ==
  /\ ~CleaningUp
  /\ At(Cleaner, "idle")
  /\ BeginListing
  /\ clean' = [NotCleaning EXCEPT !.phase = "listing", !.old = ClusterVolumes]
  /\ UNCHANGED vars

ListForCleanUp ==
  /\ Doing("listing")
  /\ \/ (ReadVolumes \/ ReadMappings) /\ UNCHANGED clean
     \/ /\ ReadHosts
        /\ clean' = [clean EXCEPT !.phase = "picking", !.todo = DOMAIN list'.entries]
     \/ FailListing /\ clean' = NotCleaning
  /\ UNCHANGED vars

\* if volume.attached_to is not None
DetachNext ==
  /\ Doing("picking")
  /\ \E w \in clean.todo :
       /\ list.entries[w] # NoHost
       /\ DetachVolume(Cleaner, w)
       /\ clean' = [clean EXCEPT !.phase = "detaching", !.current = w]
  /\ UNCHANGED list

DestroyNext ==
  /\ \E w \in clean.todo :
       /\ \/ Doing("picking") /\ list.entries[w] = NoHost
          \/ Doing("detached") /\ w = clean.current
       /\ DestroyVolume(Cleaner, w)
       /\ clean' = [clean EXCEPT !.phase = "destroying", !.current = w]
  /\ UNCHANGED list

\* What follows when the call of the driver has returned.
Proceed ==
  \/ /\ Doing("detaching")
     /\ clean' = [clean EXCEPT !.phase = "detached"]
  \/ /\ Doing("destroying")
     /\ clean' = [clean EXCEPT !.phase = "picking", !.current = NoVolume,
                               !.todo = clean.todo \ {clean.current}]

\* Mutant: an exception of the driver is ignored.
RunCallAndIgnore ==
  /\ clean.phase \in {"detaching", "destroying"}
  /\ Step(Cleaner)
  /\ \/ ~At(Cleaner, "idle")' /\ UNCHANGED <<list, clean>>
     \/ At(Cleaner, "idle")' /\ Proceed /\ UNCHANGED list

\* Mutant: a volume that could not be removed is tried again.
RunCallUntilDone ==
  /\ clean.phase \in {"detaching", "destroying"}
  /\ Step(Cleaner)
  /\ UNCHANGED list
  /\ \/ ~At(Cleaner, "idle")' /\ UNCHANGED clean
     \/ At(Cleaner, "idle")' /\ answer' = "ok" /\ Proceed
     \/ /\ At(Cleaner, "idle")' /\ answer' # "ok"
        /\ clean' = [clean EXCEPT !.phase = "picking", !.current = NoVolume]

\* The steps of the call, the last of which returns or raises.
RunCall ==
  /\ clean.phase \in {"detaching", "destroying"}
  /\ Step(Cleaner)
  /\ \/ ~At(Cleaner, "idle")' /\ UNCHANGED <<list, clean>>
     \/ At(Cleaner, "idle")' /\ answer' = "ok" /\ Proceed /\ UNCHANGED list
     \/ At(Cleaner, "idle")' /\ answer' # "ok" /\ Fail

FinishCleanUp ==
  /\ Doing("picking")
  /\ clean.todo = {}
  /\ clean' = [NotCleaning EXCEPT !.phase = "done", !.old = clean.old]
  /\ list' = NotListing
  /\ UNCHANGED vars

\* The process dies, in a call of the driver or between two of them.
Die ==
  /\ CleaningUp
  /\ \/ Crash(Cleaner)
     \/ At(Cleaner, "idle") /\ UNCHANGED vars
  /\ Fail

-----------------------------------------------------------------------------

CleanerStep ==
  \/ ListForCleanUp \/ DetachNext \/ DestroyNext \/ RunCall \/ FinishCleanUp

Others ==
  /\ \E p \in Procs \ {Cleaner} : Call(p) \/ Step(p) \/ Crash(p)
  /\ UNCHANGED <<list, clean>>

CleanNext ==
  /\ Test \/ StartCleanUp \/ CleanerStep \/ Die \/ Others
  /\ DetachesAlone'

CleanSpec == CleanInit /\ [][CleanNext]_cleanVars

\* When nobody else attaches or detaches on the host of the cleaner, nothing keeps
\* the cleaner from its next step.
FairCleanSpec == CleanSpec /\ WF_cleanVars(CleanerStep)

=============================================================================
