-------------------------- MODULE VolumeListingProofs --------------------------
(***************************************************************************)
(* Proofs about the steps of a listing: they leave the driver alone, and   *)
(* what they read and return has its type.                                 *)
(***************************************************************************)
EXTENDS VolumeListing, BlockDeviceRefinement

\* A listing reads only: the driver does not notice it.
THEOREM ListingIsInvisible == ListingSpec => SerialSpec
<1>1. [ListingNext]_listingVars => [SerialNext]_vars
  BY DEF ListingNext, listingVars
<1>. QED BY <1>1, PTL DEF ListingSpec, SerialSpec

\* The value returned is a listing.
LEMMA EntriesAreListings ==
  ASSUME list \in Listers, NEW names \in DefinedHosts
  PROVE  Entries(names) \in Listings
<1>. DEFINE S == list.found \ Foreign
<1>1. S \in SUBSET Volumes
  BY DEF Listers
<1>2. \A w \in S : AttachedTo(w, names) \in Hosts \cup {NoHost}
  <2>. SUFFICES ASSUME NEW w \in S, list.maps[w] \cap names # {}
       PROVE  AttachedTo(w, names) \in Hosts
    BY DEF AttachedTo
  <2>1. \E h \in list.maps[w] : h \in names
    OBVIOUS
  <2>2. list.maps[w] \subseteq Hosts
    BY <1>1 DEF Listers
  <2>. QED BY <2>1, <2>2 DEF AttachedTo
<1>3. Entries(names) \in [S -> Hosts \cup {NoHost}]
  BY <1>2 DEF Entries
<1>. QED BY <1>1, <1>3 DEF Listings

\* The locals of list_volumes before and after a listing have their types.
LEMMA NotListingType == NotListing \in Listers
<1>1. NoEntries \in Listings
  BY DEF NoEntries, Listings
<1>. QED BY <1>1 DEF NotListing, Listers, NoMaps

\* A listing keeps the types of its locals.
LEMMA ListTypes ==
  ASSUME IInv, list \in Listers, BeginListing \/ ListStep \/ UNCHANGED list
  PROVE  list' \in Listers
<1>1. mappedTo \in [Volumes -> SUBSET Hosts] /\ vols \in SUBSET Volumes
  BY DEF IInv, TypeOK, BackendTypeOK
<1>. USE NotListingType DEF Listers, ListReads
<1>2. CASE BeginListing
  BY <1>2 DEF BeginListing
<1>3. CASE ReadVolumes
  BY <1>1, <1>3 DEF ReadVolumes
<1>4. CASE ReadMappings
  BY <1>1, <1>4 DEF ReadMappings
<1>5. CASE ReadHosts
  BY <1>5, EntriesAreListings DEF ReadHosts
<1>6. CASE FailListing
  BY <1>6 DEF FailListing
<1>. QED BY <1>2, <1>3, <1>4, <1>5, <1>6 DEF ListStep

=============================================================================
