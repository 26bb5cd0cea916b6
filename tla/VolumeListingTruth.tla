-------------------------- MODULE VolumeListingTruth --------------------------
(***************************************************************************)
(* Proofs of VolumeListingSafety.  Whatever the processes do, a volume is  *)
(* Free before it is mapped, after it was unmapped and when it is          *)
(* destroyed (Changes): so a situation that a volume has left during the   *)
(* listing was followed by Free, and an entry that says "attached to       *)
(* nothing" because the mapping or the host was gone was true.             *)
(***************************************************************************)
EXTENDS VolumeListingSafety, VolumeListingProofs

\* A listing leaves the driver alone with its history, too.
LEMMA HistoryIsInvisible == HistorySpec => SerialSpec
<1>1. [HistoryNext]_historyVars => [SerialNext]_vars
  BY DEF HistoryNext, ListingNext, listingVars, historyVars
<1>2. HistoryInit => Init
  BY DEF HistoryInit
<1>. QED BY <1>1, <1>2, PTL DEF HistorySpec, SerialSpec

-----------------------------------------------------------------------------
(* How the situation of a volume changes                                    *)

\* A step that takes the volume or a mapping away finds or leaves it Free.
LEMMA Changes ==
  ASSUME IInv, [ListingNext]_listingVars, NEW w \in Volumes
  PROVE  /\ w \in vols /\ w \notin vols' => Situation(w) = Free
         /\ \A h \in mappedTo[w] : h \notin mappedTo'[w] => Situation(w)' = Free
         /\ w \notin vols => mappedTo[w] = {}
<1>1. w \notin vols => mappedTo[w] = {}
  BY DEF IInv, SoundMappings
<1>2. CASE UNCHANGED backendVars
  BY <1>1, <1>2 DEF backendVars
<1>3. ASSUME NEW p \in Procs, Call(p) \/ Step(p) \/ Crash(p), ~UNCHANGED backendVars
      PROVE  /\ w \in vols /\ w \notin vols' => Situation(w) = Free
             /\ \A h \in mappedTo[w] : h \notin mappedTo'[w] => Situation(w)' = Free
  <2>. USE DEF IInv, TypeOK, BackendTypeOK, SoundMappings, Situation, Free
  <2>1. ASSUME NEW v \in Volumes, PostVolume(v) PROVE vols \subseteq vols' /\ mappedTo' = mappedTo
    BY <2>1 DEF PostVolume
  <2>2. ASSUME NEW v \in Volumes, DeleteVolume(v)
        PROVE  /\ w \in vols /\ w \notin vols' => Situation(w) = Free
               /\ mappedTo' = mappedTo
    BY <2>2 DEF DeleteVolume
  <2>3. ASSUME NEW v \in Volumes, NEW g \in Hosts, PostMapping(v, g)
        PROVE  vols' = vols /\ \A h \in mappedTo[w] : h \in mappedTo'[w]
    BY <2>3 DEF PostMapping
  <2>4. ASSUME NEW v \in Volumes, NEW g \in Hosts, DeleteMapping(v, g)
        PROVE  /\ vols' = vols
               /\ \A h \in mappedTo[w] : h \notin mappedTo'[w] => Situation(w)' = Free
    <3>1. vols' = vols /\ v \in vols /\ mappedTo' = [mappedTo EXCEPT ![v] = mappedTo[v] \ {g}]
      BY <2>4 DEF DeleteMapping
    <3>2. ASSUME NEW h \in mappedTo[w], h \notin mappedTo'[w]
          PROVE  w = v /\ h = g /\ mappedTo'[w] = {}
      BY <3>1, <3>2
    <3>. QED BY <3>1, <3>2
  <2>5. ~(UNCHANGED backendVars /\ UNCHANGED mpath) /\ ~UNCHANGED backendVars
    BY <1>3
  <2>. HIDE DEF IInv, Situation, Free
  <2>. QED BY <1>3, <2>1, <2>2, <2>3, <2>4, <2>5, Effects
<1>. QED BY <1>1, <1>2, <1>3 DEF ListingNext, SerialNext, Next, listingVars, vars, backendVars

-----------------------------------------------------------------------------
(* The invariant                                                            *)

\* While a listing is made, each step adds the situation that it leads to.
LEMMA Remembers ==
  ASSUME ListIInv, HistoryNext, Listing', NEW w \in Volumes
  PROVE  been'[w] = been[w] \cup {Situation(w)'}
BY DEF ListIInv, ListTypeOK, HistoryNext, Observe

\* The history keeps what it says of a volume.
LEMMA HistoryKeeps ==
  ASSUME IInv, IInv', ListIInv, HistoryNext, Listing', NEW w \in Volumes
  PROVE  HistoryOK(w)'
<1>1. been'[w] = been[w] \cup {Situation(w)'}
  BY Remembers
<1>2. been[w] = {} \/ HistoryOK(w)
  BY DEF ListIInv, NothingSeen
<1>3. /\ w \in vols /\ w \notin vols' => Situation(w) = Free
      /\ \A h \in mappedTo[w] : h \notin mappedTo'[w] => Situation(w)' = Free
  BY Changes DEF HistoryNext
<1>4. mappedTo'[w] # {} => w \in vols'
  BY DEF IInv, SoundMappings
<1>5. Situation(w)'.exists = (w \in vols') /\ Situation(w)'.at = mappedTo'[w]
  BY DEF Situation
<1>6. \A s \in been'[w] : s.at # {} => s.exists
  BY <1>1, <1>2, <1>4, <1>5 DEF HistoryOK
<1>7. \A s \in been'[w] : s.exists /\ w \notin vols' => Free \in been'[w]
  BY <1>1, <1>2, <1>3, <1>5 DEF HistoryOK
<1>8. \A s \in been'[w] : \A h \in s.at : h \notin mappedTo'[w] => Free \in been'[w]
  BY <1>1, <1>2, <1>3, <1>5 DEF HistoryOK
<1>. QED BY <1>1, <1>6, <1>7, <1>8 DEF HistoryOK

\* What was read stays true of the moment it was read.
LEMMA ReadKeepsTrue ==
  ASSUME IInv, IInv', ListIInv, HistoryNext, Listing', NEW w \in Volumes
  PROVE  ReadOK(w)'
<1>1. been[w] \subseteq been'[w]
  BY Remembers
<1>2. HistoryOK(w)'
  BY HistoryKeeps
<1>3. CASE UNCHANGED list
  <2>1. ReadOK(w)
    BY <1>3 DEF ListIInv, Listing
  <2>. QED BY <1>1, <1>3, <2>1 DEF ReadOK
<1>4. CASE BeginListing
  BY <1>4 DEF BeginListing, NotListing, ReadOK
<1>5. CASE ReadVolumes /\ UNCHANGED vars
  <2>1. list'.pc = "mappings" /\ list'.found = vols
    BY <1>5 DEF ReadVolumes, ListIInv, ListTypeOK, Listers
  <2>2. Situation(w)' \in been'[w] /\ Situation(w)'.exists = (w \in vols)
    BY <1>2, <1>5 DEF HistoryOK, Situation, vars
  <2>. QED BY <2>1, <2>2 DEF ReadOK
<1>6. CASE ReadMappings /\ UNCHANGED vars
  <2>1. list'.pc = "hosts" /\ list'.found = list.found /\ list'.maps = mappedTo
    BY <1>6 DEF ReadMappings, ListIInv, ListTypeOK, Listers
  <2>2. HistoryOK(w) /\ ReadOK(w)
    BY <1>6 DEF ReadMappings, ListIInv, Listing, ListReads
  <2>3. \E s \in been'[w] : s.exists = (w \in list.found)
    BY <1>1, <1>6, <2>2 DEF ReadOK, ReadMappings
  <2>4. Situation(w) = [exists |-> w \in vols, at |-> mappedTo[w]] /\ Situation(w) \in been[w]
    BY <2>2 DEF HistoryOK, Situation
  <2>5. ASSUME mappedTo[w] = {}, w \in list.found PROVE Free \in been'[w]
    <3>1. PICK s \in been[w] : s.exists
      BY <1>6, <2>2, <2>5 DEF ReadOK, ReadMappings
    <3>2. CASE w \in vols
      BY <1>1, <2>4, <2>5, <3>2 DEF Free
    <3>3. CASE w \notin vols
      BY <1>1, <2>2, <3>1, <3>3 DEF HistoryOK
    <3>. QED BY <3>2, <3>3
  <2>6. ASSUME mappedTo[w] # {}
        PROVE  /\ [exists |-> TRUE, at |-> mappedTo[w]] \in been'[w]
               /\ \A g, h \in mappedTo[w] : g = h
    BY <1>1, <2>4, <2>6 DEF IInv, SoundMappings
  <2>. QED BY <2>1, <2>3, <2>5, <2>6 DEF ReadOK
<1>7. CASE ReadHosts \/ FailListing
  <2>1. ReadHosts => list'.pc = "returned"
    BY DEF ReadHosts, NotListing
  <2>2. FailListing => list'.pc = "idle"
    BY DEF FailListing, NotListing
  <2>3. list'.pc \in {"volumes", "mappings", "hosts"}
    BY DEF Listing, ListReads
  <2>. QED BY <1>7, <2>1, <2>2, <2>3
<1>. QED BY <1>3, <1>4, <1>5, <1>6, <1>7 DEF HistoryNext, ListingNext, ListStep

\* The listing and the history keep their types.
LEMMA ListTypeKeeps ==
  ASSUME IInv, IInv', ListTypeOK, HistoryNext
  PROVE  ListTypeOK'
<1>1. list' \in Listers
  BY ListTypes DEF ListTypeOK, HistoryNext, ListingNext
<1>2. \A w \in Volumes : Situation(w)' \in Situations
  BY DEF IInv, TypeOK, BackendTypeOK, Situation, Situations
<1>3. been' \in [Volumes -> SUBSET Situations]
  BY <1>2 DEF HistoryNext, Observe, NothingSeen, ListTypeOK
<1>. QED BY <1>1, <1>3 DEF ListTypeOK

\* ListIInv holds in every reachable state, whatever moves during a listing.
THEOREM ListingInvariance == HistorySpec => []ListIInv
<1>1. HistoryInit => ListIInv
  <2>. SUFFICES ASSUME HistoryInit PROVE ListIInv
    OBVIOUS
  <2>1. list = NotListing /\ been = NothingSeen
    BY DEF HistoryInit, ListInit
  <2>2. NotListing \in Listers
    BY NotListingType
  <2>3. ListTypeOK
    BY <2>1, <2>2 DEF ListTypeOK, NothingSeen
  <2>. QED BY <2>1, <2>3 DEF ListIInv, NotListing, Listing, ListReads
<1>2. IInv /\ IInv' /\ ListIInv /\ [HistoryNext]_historyVars => ListIInv'
  <2>1. ASSUME IInv, IInv', ListIInv, HistoryNext PROVE ListIInv'
    BY <2>1, ListTypeKeeps, HistoryKeeps, ReadKeepsTrue DEF ListIInv, HistoryNext, Observe
  <2>2. ASSUME ListIInv, UNCHANGED historyVars PROVE ListIInv'
    BY <2>2 DEF historyVars, listingVars, vars, ListIInv, ListTypeOK, Listing, HistoryOK,
       ReadOK, Situation
  <2>. QED BY <2>1, <2>2
<1>. QED BY <1>1, <1>2, HistoryIsInvisible, Invariance, PTL DEF HistorySpec

-----------------------------------------------------------------------------
(* What a listing tells                                                     *)

\* What is put together from the three reads was true, of each volume.
LEMMA EntryWasTrue ==
  ASSUME IInv, ListIInv, list.pc = "hosts", NEW names \in DefinedHosts,
         NEW w \in list.found \ Foreign
  PROVE  [exists |-> TRUE,
          at |-> IF AttachedTo(w, names) = NoHost THEN {} ELSE {AttachedTo(w, names)}]
            \in been[w]
<1>1. w \in Volumes /\ list.maps[w] \subseteq Hosts
  BY DEF ListIInv, ListTypeOK, Listers
<1>2. HistoryOK(w) /\ ReadOK(w)
  BY <1>1 DEF ListIInv, Listing, ListReads
<1>3. CASE list.maps[w] = {}
  BY <1>2, <1>3 DEF ReadOK, AttachedTo, Free
<1>4. ASSUME NEW h \in list.maps[w]
      PROVE  [exists |-> TRUE,
              at |-> IF AttachedTo(w, names) = NoHost THEN {} ELSE {AttachedTo(w, names)}]
                \in been[w]
  <2>1. list.maps[w] = {h} /\ h \in Hosts /\ h # NoHost
    BY <1>1, <1>2, DriverAssumption DEF ReadOK
  <2>2. [exists |-> TRUE, at |-> {h}] \in been[w]
    BY <1>2, <2>1 DEF ReadOK
  <2>3. CASE h \in names
    <3>1. list.maps[w] \cap names # {} /\ (CHOOSE g \in list.maps[w] : g \in names) = h
      BY <2>1, <2>3
    <3>2. AttachedTo(w, names) = h
      BY <3>1 DEF AttachedTo
    <3>. QED BY <2>1, <2>2, <3>2
  <2>4. CASE h \notin names
    <3>1. h \notin mappedTo[w]
      BY <1>1, <2>4 DEF DefinedHosts
    <3>2. Free \in been[w]
      BY <1>2, <2>2, <3>1 DEF HistoryOK
    <3>. QED BY <2>1, <2>4, <3>2 DEF AttachedTo, Free
  <2>. QED BY <2>3, <2>4
<1>. QED BY <1>3, <1>4

\* The step that returns a listing.
LEMMA ReturnStep ==
  ASSUME ListIInv, [HistoryNext]_historyVars, Returns
  PROVE  /\ list.pc = "hosts"
         /\ \E names \in DefinedHosts : list'.entries = Entries(names)
<1>1. list.pc = "hosts" /\ list'.pc = "returned"
  BY DEF Returns
<1>2. ReadHosts
  BY <1>1 DEF HistoryNext, ListingNext, historyVars, listingVars, BeginListing, Listing,
     ListReads, ListStep, ReadVolumes, ReadMappings, FailListing, NotListing
<1>. QED BY <1>1, <1>2 DEF ReadHosts, NotListing

\* Every entry of a listing was true at some moment of the listing, for any number
\* of volumes, hosts and processes.
THEOREM ListingsWereTrue == HistorySpec => EntriesWereTrue
<1>1. ASSUME IInv, ListIInv, [HistoryNext]_historyVars, Returns,
             NEW w \in DOMAIN list'.entries
      PROVE  Told(list'.entries, w) \in been[w]
  <2>1. PICK names \in DefinedHosts : list'.entries = Entries(names)
    BY <1>1, ReturnStep
  <2>2. w \in list.found \ Foreign /\ list'.entries[w] = AttachedTo(w, names)
    BY <1>1, <2>1 DEF Entries
  <2>. QED BY <1>1, <2>2, EntryWasTrue DEF Told, Returns
<1>2. IInv /\ ListIInv /\ [HistoryNext]_historyVars =>
        [Returns => \A w \in DOMAIN list'.entries :
                      Told(list'.entries, w) \in been[w]]_historyVars
  BY <1>1
<1>. QED BY <1>2, ListingInvariance, HistoryIsInvisible, Invariance, PTL
     DEF HistorySpec, EntriesWereTrue

\* A volume that nothing happens to is listed as it is, or is rightly left out.
THEOREM UntouchedAreListed == HistorySpec => UntouchedListedAsIs
<1>1. ASSUME IInv, ListIInv, [HistoryNext]_historyVars, Returns,
             NEW w \in Volumes, been[w] = {Situation(w)}
      PROVE  /\ w \in DOMAIN list'.entries <=> w \in ClusterVolumes
             /\ w \in DOMAIN list'.entries => been[w] = {Told(list'.entries, w)}
  <2>1. PICK names \in DefinedHosts : list'.entries = Entries(names)
    BY <1>1, ReturnStep
  <2>2. DOMAIN list'.entries = list.found \ Foreign
    BY <2>1 DEF Entries
  <2>3. ReadOK(w) /\ list.pc = "hosts"
    BY <1>1 DEF ListIInv, Listing, ListReads, Returns
  <2>4. w \in vols <=> w \in list.found
    BY <1>1, <2>3 DEF ReadOK, Situation
  <2>5. ASSUME w \in list.found \ Foreign PROVE Told(list'.entries, w) \in been[w]
    BY <1>1, <2>1, <2>3, <2>5, EntryWasTrue DEF Told, Entries
  <2>. QED BY <1>1, <2>2, <2>4, <2>5 DEF ClusterVolumes
<1>2. IInv /\ ListIInv /\ [HistoryNext]_historyVars =>
        [Returns => \A w \in Volumes :
           been[w] = {Situation(w)} =>
             /\ w \in DOMAIN list'.entries <=> w \in ClusterVolumes
             /\ w \in DOMAIN list'.entries => been[w] = {Told(list'.entries, w)}]_historyVars
  BY <1>1
<1>. QED BY <1>2, ListingInvariance, HistoryIsInvisible, Invariance, PTL
     DEF HistorySpec, UntouchedListedAsIs

=============================================================================
