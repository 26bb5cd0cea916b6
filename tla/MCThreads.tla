------------------------------ MODULE MCThreads ------------------------------
(* Instances of BlockDeviceSerial for TLC: two threads, t1 and t2, on h1,   *)
(* and p3 on h2.                                                            *)
EXTENDS BlockDeviceSerial, TLC

CONSTANTS v1, v2, v3, h1, h2, t1, t2, p3

MCHostOf == [p \in Procs |-> IF p = p3 THEN h2 ELSE h1]

\* The volumes of the cluster are interchangeable, and so are the threads of h1.
VolumesAndThreads == Permutations({v1, v2}) \cup Permutations({t1, t2})

=============================================================================
