---------------------------- MODULE MCBlockDevice ----------------------------
(* Instances of BlockDeviceSerial for TLC: p1 runs on h1, p2 on h2, and     *)
(* nobody on h3.                                                            *)
EXTENDS BlockDeviceSerial, TLC

CONSTANTS v1, v2, v3, h1, h2, h3, p1, p2

MCHostOf == [p \in Procs |-> IF p = p1 THEN h1 ELSE h2]

\* The volumes of the cluster are interchangeable.
OwnVolumes == Permutations({v1, v2})

=============================================================================
