--------------------------- MODULE MCVolumeListing ---------------------------
(* Instances of VolumeListingSafety for TLC: p1 runs on h1, p2 on h2.       *)
EXTENDS VolumeListingSafety, TLC

CONSTANTS v1, v2, v3, h1, h2, p1, p2

MCHostOf == [p \in Procs |-> IF p = p1 THEN h1 ELSE h2]

\* The hosts are interchangeable, each with its process.
Mirror ==
  {m \in Permutations({h1, h2, p1, p2}) :
     \A p \in {p1, p2} : m[p] \in {p1, p2} /\ m[MCHostOf[p]] = MCHostOf[m[p]]}

=============================================================================
