----------------------------- MODULE NamedVolumes -----------------------------
(***************************************************************************)
(* Clusters that share a storage system: the volumes that the drivers of   *)
(* each make and destroy, and the volumes of other users.  A driver knows  *)
(* the volumes of its cluster by the names only, and names a volume to the *)
(* storage by its WWN.  BlockDeviceDriver takes for granted that it knows  *)
(* them (its Foreign); here is why.                                        *)
(***************************************************************************)
EXTENDS VolumeName, FiniteSets

CONSTANTS Clusters,      \* ids of clusters
          Datasets,      \* ids of datasets
          OtherNames,    \* names of volumes that no driver of these clusters made
          Wwns           \* the WWNs that the storage may give to volumes

\* An other name is not built like the name of a volume of one of the clusters.
ASSUME NamesAssumption ==
  /\ Clusters \subseteq UUIDs
  /\ Datasets \subseteq UUIDs
  /\ OtherNames \subseteq Seq(Char)
  /\ \A name \in OtherNames, c \in Clusters :
       ~(/\ Len(name) = 61 /\ name[1] = 102 /\ name[2] = LOW
         /\ SubSeq(name, 40, 61) = uuid2slug(c))

VARIABLES volumes,  \* the volumes that exist, each a WWN with a name
          owned     \* history: owned[c]: the volumes that cluster c made and has

nameVars == <<volumes, owned>>

NameInit == volumes = {} /\ owned = [c \in Clusters |-> {}]

FreeWwns == {w \in Wwns : \A v \in volumes : v.wwn # w}

\* The name that create_volume_with_profile gives.
NameIn(c, d) == build_vol_name(d, uuid2slug(c))

\* A volume of list_volumes.
Entry(v) == [wwn |-> v.wwn, dataset |-> get_dataset_id_from_vol_name(v.name)]

\* list_volumes
Listed(c) == {Entry(v) : v \in {u \in volumes : IsClusterVolume(u.name, c)}}

\* create_volume_with_profile.  It does not ask whether the dataset has a volume: after
\* a lost answer, a second call makes a second volume of the same name.
CreateNamed(c, d) ==
  \E w \in FreeWwns :
    /\ volumes' = volumes \cup {[wwn |-> w, name |-> NameIn(c, d)]}
    /\ owned' = [owned EXCEPT ![c] = @ \cup {[wwn |-> w, dataset |-> d]}]

\* Mutant: the volume is destroyed by its name.
DestroyByName(c, e) ==
  /\ e \in Listed(c)
  /\ volumes' = {v \in volumes : v.name # NameIn(c, e.dataset)}
  /\ owned' = [owned EXCEPT ![c] = {o \in @ : o.wwn # e.wwn}]

\* destroy_volume, which does not look at the name: its caller has the WWN from
\* list_volumes.  By a listing that is out of date it changes nothing more: a WWN is not
\* used again (ScbeBackend), so the call fails when the volume is gone.
DestroyNamed(c, e) ==
  /\ e \in Listed(c)
  /\ volumes' = {v \in volumes : v.wwn # e.wwn}
  /\ owned' = [owned EXCEPT ![c] = {o \in @ : o.wwn # e.wwn}]

OtherUsers ==
  /\ \/ \E w \in FreeWwns, n \in OtherNames :
          volumes' = volumes \cup {[wwn |-> w, name |-> n]}
     \/ \E v \in volumes : v.name \in OtherNames /\ volumes' = volumes \ {v}
  /\ UNCHANGED owned

NameNext ==
  \/ \E c \in Clusters : \/ \E d \in Datasets : CreateNamed(c, d)
                         \/ \E e \in Listed(c) : DestroyNamed(c, e)
  \/ OtherUsers

NameSpec == NameInit /\ [][NameNext]_nameVars

-----------------------------------------------------------------------------

\* Each cluster finds its own volumes among those of all, each with its dataset, and
\* nothing else; so what it destroys is its own.
OwnVolumesFound == \A c \in Clusters : Listed(c) = owned[c]

\* Volumes have one name only if they were made for one dataset of one cluster, and
\* each name tells its cluster.
NamesIdentify ==
  /\ \A c, e \in Clusters : \A o \in owned[c], q \in owned[e] :
       NameIn(c, o.dataset) = NameIn(e, q.dataset) => c = e /\ o.dataset = q.dataset
  /\ \A c \in Clusters : \A v \in volumes :
       IsClusterVolume(v.name, c)
         => slug2uuid(get_cluster_id_slug_from_vol_name(v.name)) = c

Private == INSTANCE PrivateVolumes WITH store <- [c \in Clusters |-> Listed(c)]

\* To its drivers the shared storage is a store for each cluster: a step adds one volume
\* to what one cluster lists, or takes one away from it, and leaves what the others list
\* alone, even if volumes have the same name.
StoresArePrivate == Private!StoreSpec

-----------------------------------------------------------------------------
(* The inductive invariant                                                  *)

\* The volume that was made for an entry of owned[c].
MadeFor(c, o) == [wwn |-> o.wwn, name |-> NameIn(c, o.dataset)]

\* The volumes are those of the other users and those of the drivers, each with the
\* name that it was given, and each with a WWN of its own.
NameIInv ==
  /\ owned \in [Clusters -> SUBSET [wwn : Wwns, dataset : Datasets]]
  /\ \A v \in volumes : \/ v.name \in OtherNames
                        \/ \E c \in Clusters : \E o \in owned[c] : v = MadeFor(c, o)
  /\ \A c \in Clusters : \A o \in owned[c] : MadeFor(c, o) \in volumes
  /\ \A u, v \in volumes : u.wwn = v.wwn => u = v

=============================================================================
