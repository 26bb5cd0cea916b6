--------------------------- MODULE VolumeLifecycle ---------------------------
(***************************************************************************)
(* The life of the volumes as Flocker sees them, without requests,         *)
(* commands, processes or failures: what BlockDeviceDriver implements.     *)
(*                                                                         *)
(*   absent -> available -> mapped -> ready -> mapped -> available -> gone *)
(*                                                                         *)
(* A volume is "ready" at a host when it is mapped to the host and has a   *)
(* multipath device there.  There is no place for a device without its     *)
(* mapping, and no way from "ready" to "available": a device is flushed    *)
(* before the volume is unmapped.                                          *)
(***************************************************************************)

CONSTANTS Volumes, Hosts,
          Own          \* the volumes of the cluster

VARIABLE place

Absent    == [at |-> "absent"]
Available == [at |-> "available"]
Gone      == [at |-> "gone"]
Mapped(h) == [at |-> "mapped", host |-> h]
Ready(h)  == [at |-> "ready", host |-> h]

Places == {Absent, Available, Gone}
            \cup {Mapped(h) : h \in Hosts} \cup {Ready(h) : h \in Hosts}

Init ==
  /\ place \in [Volumes -> Places \ {Gone}]
  /\ \A w \in Own : place[w] = Absent

Move(w, from, to) ==
  /\ place[w] = from
  /\ place' = [place EXCEPT ![w] = to]

Create(w)   == w \in Own /\ Move(w, Absent, Available)
Destroy(w)  == Move(w, Available, Gone)
Map(w, h)   == w \in Own /\ Move(w, Available, Mapped(h))
Unmap(w, h) == w \in Own /\ Move(w, Mapped(h), Available)
Flush(w, h) == w \in Own /\ Move(w, Ready(h), Mapped(h))

\* One rescan may find several volumes.
Rescan(h) ==
  \E found \in SUBSET {w \in Volumes : place[w] = Mapped(h)} :
    place' = [w \in Volumes |-> IF w \in found THEN Ready(h) ELSE place[w]]

Next ==
  \/ \E w \in Volumes :
       \/ Create(w) \/ Destroy(w)
       \/ \E h \in Hosts : Map(w, h) \/ Unmap(w, h) \/ Flush(w, h)
  \/ \E h \in Hosts : Rescan(h)

Spec == Init /\ [][Next]_place

=============================================================================
