------------------------------ MODULE RestCall ------------------------------
(***************************************************************************)
(* What RestClient (lib/ibm_scbe_client.py) promises to its callers, and   *)
(* all that Request of BlockDeviceDriver uses of it: the storage executes  *)
(* a request at most once; a call that returns was executed; a call that   *)
(* raises may or may not have been.                                        *)
(***************************************************************************)

CONSTANT Threads

VARIABLES stage,    \* stage[t]: how far the request of thread t is
          outcome   \* outcome[t]: how the last call of t ended

Init ==
  /\ stage = [t \in Threads |-> "idle"]
  /\ outcome = [t \in Threads |-> "none"]

Move(t, from, to, o) ==
  /\ stage[t] = from
  /\ stage' = [stage EXCEPT ![t] = to]
  /\ outcome' = [outcome EXCEPT ![t] = o]

Start(t)   == Move(t, "idle", "open", "none")
Execute(t) == Move(t, "open", "executed", "none")
Return(t)  == Move(t, "executed", "idle", "returned")
Raise(t)   == \E from \in {"open", "executed"} : Move(t, from, "idle", "raised")

Next == \E t \in Threads : Start(t) \/ Execute(t) \/ Return(t) \/ Raise(t)

Spec == Init /\ [][Next]_<<stage, outcome>>

=============================================================================
