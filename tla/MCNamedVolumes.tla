---------------------------- MODULE MCNamedVolumes ----------------------------
(* Instances of NamedVolumes for TLC, with the lengths of the code.         *)
EXTENDS NamedVolumes, TLC

CONSTANTS w1, w2, w3

\* 737d4ea0-28bf-11e6-b12e-68f7288f1809, whose slug is c31OoCi_EeaxLmj3KI8YCQ.
Id == << 7,3,7,13,4,14,10,0, 2,8,11,15, 1,1,14,6, 11,1,2,14, 6,8,15,7,2,8,8,15,1,8,0,9 >>

\* Id, an id that differs from it in the last bit, and one whose slug is "---...".
MCClusters == {Id, [Id EXCEPT ![32] = 8],
               [k \in 1..32 |-> CASE k % 3 = 1 -> 15 [] k % 3 = 2 -> 11 [] OTHER -> 14]}

\* The dataset of a cluster may have the id of the cluster.
MCDatasets == {Id, [Id EXCEPT ![1] = 15], [k \in 1..32 |-> 0]}

\* An empty and a short name, one with another prefix, one with another slug, and one
\* that is too long.
MCOtherNames ==
  LET name == build_vol_name(Id, uuid2slug(Id))
  IN  {<< >>, VOL_NAME_FLOCKER_PREFIX, [name EXCEPT ![1] = 103],
       [name EXCEPT ![40] = 65], name \o <<65>>}

\* The WWNs are interchangeable.
AllWwns == Permutations({w1, w2, w3})

=============================================================================
