----------------------------- MODULE ScbeBackend -----------------------------
(***************************************************************************)
(* The storage behind the driver: the volumes and the host mappings that   *)
(* IBM Spectrum Control Base Edition (SCBE) keeps.  It is not part of the  *)
(* repository: it is what lib/ibm_scbe_client.py relies on.                *)
(*                                                                         *)
(*   - a WWN is given to one volume and never given again;                 *)
(*   - a volume has at most one mapping ("assume volume has only one       *)
(*     mapping", "vol can be mapped to one host"): a second POST of a      *)
(*     mapping is refused;                                                 *)
(*   - a mapped volume is not deleted.                                     *)
(***************************************************************************)

CONSTANTS Volumes,     \* WWNs
          Hosts,       \* names of hosts
          Foreign,     \* volumes that belong to no dataset of this cluster
          Registered   \* the hosts that the storage system may have defined

ASSUME BackendAssumption ==
  /\ Foreign \subseteq Volumes
  /\ Registered \subseteq Hosts

VARIABLES vols,      \* the volumes that exist
          fresh,     \* the WWNs that no volume had yet
          mappedTo   \* mappedTo[w]: the hosts w is mapped to

backendVars == <<vols, fresh, mappedTo>>

BackendTypeOK ==
  /\ vols \subseteq Volumes
  /\ fresh \subseteq Volumes \ (Foreign \cup vols)
  /\ mappedTo \in [Volumes -> SUBSET Hosts]

MappedAt(h) == {w \in Volumes : h \in mappedTo[w]}

\* Other users of the storage may have mapped the foreign volumes already.
BackendInit ==
  /\ vols = Foreign
  /\ fresh = Volumes \ Foreign
  /\ mappedTo \in [Volumes -> SUBSET Registered]
  /\ \A w \in Volumes \ Foreign : mappedTo[w] = {}
  /\ \A w \in Foreign : \A g, h \in mappedTo[w] : g = h

-----------------------------------------------------------------------------
(* What a request that the storage accepts does.                            *)

PostVolume(w) ==
  /\ w \in fresh
  /\ vols' = vols \cup {w}
  /\ fresh' = fresh \ {w}
  /\ UNCHANGED mappedTo

DeleteVolume(w) ==
  /\ w \in vols
  /\ mappedTo[w] = {}
  /\ vols' = vols \ {w}
  /\ UNCHANGED <<fresh, mappedTo>>

PostMapping(w, h) ==
  /\ w \in vols
  /\ h \in Registered
  /\ mappedTo[w] = {}
  /\ mappedTo' = [mappedTo EXCEPT ![w] = {h}]
  /\ UNCHANGED <<vols, fresh>>

DeleteMapping(w, h) ==
  /\ w \in vols
  /\ h \in mappedTo[w]
  /\ mappedTo' = [mappedTo EXCEPT ![w] = @ \ {h}]
  /\ UNCHANGED <<vols, fresh>>

=============================================================================
