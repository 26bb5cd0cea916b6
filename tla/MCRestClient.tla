---------------------------- MODULE MCRestClient ----------------------------
(* Instances of RestClient for TLC: t1 and t2 share the session s1, t3 is   *)
(* alone on s2.                                                             *)
EXTENDS RestClient, TLC

CONSTANTS t1, t2, t3, s1, s2, k1, k2, k3, k4, k5

MCSessionOf == [t \in Threads |-> IF t = t3 THEN s2 ELSE s1]

\* The threads of s1 are interchangeable, and so are the tokens.
Interchangeable == Permutations({t1, t2}) \cup Permutations(Tokens)

=============================================================================
