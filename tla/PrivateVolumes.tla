---------------------------- MODULE PrivateVolumes ----------------------------
(***************************************************************************)
(* What clusters that share a storage system may expect of it: each has a  *)
(* store of volumes of its own, which nobody else sees or changes.         *)
(* NamedVolumes implements it with one storage and the names of volumes.   *)
(***************************************************************************)

CONSTANTS Clusters, Datasets,
          Wwns       \* the WWNs that the storage may give to volumes

VARIABLE store   \* store[c]: the volumes of cluster c, each with its dataset

WwnsOf(c) == {v.wwn : v \in store[c]}

StoreInit == store = [c \in Clusters |-> {}]

\* A dataset may have several volumes; a volume belongs to one cluster.
Add(c, w, d) ==
  /\ \A e \in Clusters : w \notin WwnsOf(e)
  /\ store' = [store EXCEPT ![c] = @ \cup {[wwn |-> w, dataset |-> d]}]

Remove(c, v) ==
  /\ v \in store[c]
  /\ store' = [store EXCEPT ![c] = @ \ {v}]

StoreNext ==
  \E c \in Clusters :
    \/ \E w \in Wwns, d \in Datasets : Add(c, w, d)
    \/ \E v \in store[c] : Remove(c, v)

StoreSpec == StoreInit /\ [][StoreNext]_store

=============================================================================
