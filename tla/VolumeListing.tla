---------------------------- MODULE VolumeListing ----------------------------
(***************************************************************************)
(* list_volumes (ibm_storage_blockdevice.py): three reads, of all volumes, *)
(* of all mappings and of all hosts, which no lock holds together.  The    *)
(* processes of BlockDeviceSerial create, move and destroy volumes between *)
(* any two of them.                                                        *)
(***************************************************************************)
EXTENDS BlockDeviceSerial

VARIABLE list   \* the locals of the listing, and what it returned

listingVars == <<vars, list>>

\* The read that comes next.
ListReads == {"volumes", "mappings", "hosts"}

\* The volumes that are listed, each with its attached_to.
Listings == UNION {[S -> Hosts \cup {NoHost}] : S \in SUBSET Volumes}

Listers == [pc      : ListReads \cup {"idle", "returned"},
            found   : SUBSET Volumes,             \* vol_list
            maps    : [Volumes -> SUBSET Hosts],  \* map_dict
            entries : Listings]                   \* the value returned

NoMaps    == [w \in Volumes |-> {}]
NoEntries == [w \in {} |-> NoHost]
NotListing == [pc |-> "idle", found |-> {}, maps |-> NoMaps, entries |-> NoEntries]

ListInit == list = NotListing

Listing == list.pc \in ListReads

-----------------------------------------------------------------------------

BeginListing ==
  /\ ~Listing
  /\ list' = [NotListing EXCEPT !.pc = "volumes"]

\* The argument resource is "Not implemented": volumes of all services are read.
ReadVolumes ==
  /\ list.pc = "volumes"
  /\ list' = [list EXCEPT !.pc = "mappings", !.found = vols]

\* Mutant: only the first page of the mappings is read.
ReadFirstMappings ==
  /\ list.pc = "mappings"
  /\ \E page \in SUBSET Volumes :
       list' = [list EXCEPT !.pc = "hosts",
                  !.maps = [w \in Volumes |-> IF w \in page THEN mappedTo[w] ELSE {}]]

\* Mutant: a failure to read the mappings is taken for "no mappings".
ReadMappingsOrNone ==
  /\ list.pc = "mappings"
  /\ \E maps \in {mappedTo, NoMaps} :
       list' = [list EXCEPT !.pc = "hosts", !.maps = maps]

\* get_vols_mapping
ReadMappings ==
  /\ list.pc = "mappings"
  /\ list' = [list EXCEPT !.pc = "hosts", !.maps = mappedTo]

\* The host a volume was mapped to, if the storage still knows the host.
AttachedTo(w, names) ==
  IF list.maps[w] \cap names = {} THEN NoHost
  ELSE CHOOSE h \in list.maps[w] : h \in names

\* Mutant: the volumes of other clusters are listed, too.
EntriesOfAll(names) == [w \in list.found |-> AttachedTo(w, names)]

\* Only the volumes of the cluster (_is_cluster_volume).
Entries(names) == [w \in list.found \ Foreign |-> AttachedTo(w, names)]

\* The hosts that the storage may have defined: it keeps a host that is mapped.
DefinedHosts ==
  {names \in SUBSET Registered : \A w \in Volumes : mappedTo[w] \subseteq names}

\* get_hosts, and the loop that puts the three answers together.
ReadHosts ==
  /\ list.pc = "hosts"
  /\ \E names \in DefinedHosts :
       list' = [NotListing EXCEPT !.pc = "returned", !.entries = Entries(names)]

\* A read that fails ends the listing with its exception.
FailListing ==
  /\ Listing
  /\ list' = NotListing

ListStep == ReadVolumes \/ ReadMappings \/ ReadHosts \/ FailListing

ListingNext ==
  \/ SerialNext /\ UNCHANGED list
  \/ (BeginListing \/ ListStep) /\ UNCHANGED vars

ListingSpec == Init /\ ListInit /\ [][ListingNext]_listingVars

=============================================================================
