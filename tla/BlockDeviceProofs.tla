-------------------------- MODULE BlockDeviceProofs --------------------------
(***************************************************************************)
(* Proofs, for any number of processes, hosts and volumes, of the safety   *)
(* properties of BlockDeviceSafety.                                        *)
(*                                                                         *)
(* A step of a process p changes the call of p and, of the storage and the *)
(* devices, only what cannot harm a call that may overlap with the one of  *)
(* p (Local).  So the invariant of the other processes is kept by one      *)
(* argument for all steps (OthersUndisturbed), and each step only has to   *)
(* keep the global invariants and the invariant of p itself (Keeps).       *)
(***************************************************************************)
EXTENDS BlockDeviceSerial, TLAPS

USE DEF At

\* The other processes do nothing.
OthersWait(p) == \A q \in Procs \ {p} : call'[q] = call[q]

\* Whether p, in its call, may unmap a volume from h, or touch the devices of h.
Unmaps(p, h)  == h = HostOf[p] /\ call[p].op = "detach"
Touches(p, h) == h = HostOf[p] /\ call[p].op \in {"attach", "detach"}

\* What a step of p leaves to the calls that may overlap with it.
Local(p) ==
  /\ fresh' \subseteq fresh
  /\ vols' \subseteq vols \cup fresh
  /\ \A h \in Hosts :
       /\ ~Touches(p, h) => paths'[h] = paths[h] /\ mpath'[h] = mpath[h]
       /\ ~Unmaps(p, h) =>
            /\ \A w \in Volumes : h \in mappedTo[w] => h \in mappedTo'[w]
            /\ paths'[h] \subseteq paths[h] \cup MappedAt(h)
            /\ paths[h] \cap MappedAt(h) \subseteq paths'[h]

\* The storage and the devices after the step.
StorageOK(p) ==
  /\ BackendTypeOK'
  /\ DevicesTypeOK'
  /\ SoundMappings'
  /\ NoFaultyDevice'
  /\ Local(p)

\* The calls after the step.
CallOfStepOK(p) ==
  /\ call' \in [Procs -> Calls]
  /\ answer' \in Answers
  /\ OthersWait(p)
  /\ ProcessOK(p)'

Keeps(p) == StorageOK(p) /\ CallOfStepOK(p)

-----------------------------------------------------------------------------
(* Control                                                                  *)

\* A call that ends leaves a process of which nothing is required.
LEMMA AnswerEnds ==
  ASSUME call \in [Procs -> Calls], NEW p \in Procs, NEW a \in Answers,
         Answer(p, a)
  PROVE  CallOfStepOK(p)
<1>1. NoCall \in Calls
  BY DriverAssumption DEF NoCall, Calls, Ops, Steps
<1>2. call' = [call EXCEPT ![p] = NoCall] /\ answer' = a
  BY DEF Answer
<1>3. call' \in [Procs -> Calls] /\ call'[p] = NoCall /\ OthersWait(p)
  BY <1>1, <1>2 DEF OthersWait
<1>4. ProcessOK(p)'
  BY <1>3 DEF ProcessOK, CallOK, ChecksPassed, ReloadsFreshPaths, SeenElsewhere,
              CleanBeforeUnmap, AttachInProgress, NoCall, StepsOf, Reading, Cleaning,
              Rescans
<1>. QED BY <1>2, <1>3, <1>4 DEF CallOfStepOK

\* A call that goes on keeps its operation and its arguments.
LEMMA ContinueStep ==
  ASSUME call \in [Procs -> Calls], NEW p \in Procs, NEW s \in Steps,
         NEW n \in 0 .. Retries, Continue(p, s, n)
  PROVE  /\ call' \in [Procs -> Calls]
         /\ answer' \in Answers
         /\ OthersWait(p)
         /\ call'[p] = [call[p] EXCEPT !.pc = s, !.left = n]
         /\ call'[p].pc = s
         /\ call'[p].op = call[p].op
         /\ call'[p].wwn = call[p].wwn
         /\ call'[p].to = call[p].to
         /\ call'[p].seen = call[p].seen
<1>1. call[p] \in Calls
  OBVIOUS
<1>2. [call[p] EXCEPT !.pc = s, !.left = n] \in Calls
  BY <1>1 DEF Calls
<1>3. call' = [call EXCEPT ![p] = [call[p] EXCEPT !.pc = s, !.left = n]]
  BY DEF Continue
<1>4. call' \in [Procs -> Calls] /\ OthersWait(p)
  BY <1>2, <1>3 DEF OthersWait
<1>5. call'[p] = [call[p] EXCEPT !.pc = s, !.left = n]
  BY <1>3
<1>6. answer' \in Answers
  BY DEF Continue, Answers
<1>. QED BY <1>1, <1>4, <1>5, <1>6 DEF Calls

\* The other calls do not notice a step of p.
LEMMA OthersUndisturbed ==
  ASSUME IInv, DetachesAlone, NEW p \in Procs, OthersWait(p), Local(p),
         NEW q \in Procs, q # p
  PROVE  ProcessOK(q)'
<1>. DEFINE h == HostOf[q]
<1>1. call'[q] = call[q] /\ call[q] \in Calls /\ ProcessOK(q)
  BY DEF OthersWait, IInv, TypeOK
<1>2. h \in Hosts /\ fresh' \subseteq fresh /\ vols' \subseteq vols \cup fresh
  BY DriverAssumption DEF Local
<1>3. call[q].op = "detach" => ~Touches(p, h)
  BY DEF DetachesAlone, Touches
<1>4. call[q].op \in {"attach", "detach"} => ~Unmaps(p, h)
  BY DEF DetachesAlone, Unmaps
<1>5. call[q].op = "detach" => paths'[h] = paths[h] /\ mpath'[h] = mpath[h]
  BY <1>2, <1>3 DEF Local
<1>6. call[q].op \in {"attach", "detach"} =>
        /\ \A w \in Volumes : h \in mappedTo[w] => h \in mappedTo'[w]
        /\ paths'[h] \subseteq paths[h] \cup MappedAt(h)
        /\ paths[h] \cap MappedAt(h) \subseteq paths'[h]
  BY <1>2, <1>4 DEF Local
<1>. HIDE DEF h
<1>7. CallOK(q)' /\ ChecksPassed(q)'
  BY <1>1, <1>2 DEF ProcessOK, CallOK, ChecksPassed
<1>8. ReloadsFreshPaths(q)'
  <2>1. call[q].pc = "multipath_reload" => call[q].op \in {"attach", "detach"}
    BY <1>1 DEF ProcessOK, CallOK, StepsOf, Calls, Ops, Creating, Reading, Cleaning
  <2>. QED BY <1>1, <1>6, <2>1 DEF ProcessOK, ReloadsFreshPaths, MappedAt, h
<1>9. SeenElsewhere(q)'
  BY <1>1, <1>5 DEF ProcessOK, SeenElsewhere, h
<1>10. CleanBeforeUnmap(q)'
  BY <1>1, <1>2, <1>5 DEF ProcessOK, CleanBeforeUnmap, ChecksPassed, h
<1>11. AttachInProgress(q)'
  <2>. SUFFICES ASSUME call[q].op = "attach", call[q].to = h, call[q].pc \in Rescans
       PROVE  AttachInProgress(q)'
    BY <1>1 DEF AttachInProgress, h
  <2>1. call[q].wwn \in Volumes
    BY <1>1 DEF ProcessOK, CallOK
  <2>2. h \in mappedTo[call[q].wwn] /\ h \in mappedTo'[call[q].wwn]
    BY <1>1, <1>6, <2>1 DEF ProcessOK, AttachInProgress, h
  <2>3. call[q].pc = "multipath_reload" => call[q].wwn \in paths'[h]
    BY <1>1, <1>6, <2>1, <2>2 DEF ProcessOK, AttachInProgress, MappedAt, h
  <2>. QED BY <1>1, <2>2, <2>3 DEF AttachInProgress
<1>. QED BY <1>7, <1>8, <1>9, <1>10, <1>11 DEF ProcessOK

-----------------------------------------------------------------------------
(* Steps that only read                                                     *)

\* A step that leaves the storage and the devices alone keeps what they satisfy.
LEMMA UnchangedStorage ==
  ASSUME IInv, NEW p \in Procs, UNCHANGED <<backendVars, deviceVars>>
  PROVE  StorageOK(p)
<1>. USE DEF backendVars, deviceVars
<1>1. BackendTypeOK' /\ DevicesTypeOK'
  BY DEF IInv, TypeOK, BackendTypeOK, DevicesTypeOK
<1>2. SoundMappings' /\ NoFaultyDevice'
  BY DEF IInv, SoundMappings, NoFaultyDevice, MappedAt
<1>3. Local(p)
  BY DEF Local
<1>. QED BY <1>1, <1>2, <1>3 DEF StorageOK

\* A step that only reads, and goes on with a call that is all right, keeps all.
LEMMA ReadKeeps ==
  ASSUME IInv, NEW p \in Procs,
         UNCHANGED <<backendVars, deviceVars>>,
         call' \in [Procs -> Calls], answer' \in Answers,
         OthersWait(p), ProcessOK(p)'
  PROVE  Keeps(p)
BY UnchangedStorage DEF Keeps, CallOfStepOK

\* A step that only reads, and answers, keeps all.
LEMMA ReadAndAnswer ==
  ASSUME IInv, NEW p \in Procs, NEW a \in Answers,
         UNCHANGED <<backendVars, deviceVars>>, Answer(p, a)
  PROVE  Keeps(p)
<1>1. call \in [Procs -> Calls]
  BY DEF IInv, TypeOK
<1>. QED BY <1>1, AnswerEnds, UnchangedStorage DEF Keeps

\* Each of the five operations begins with a call that is all right.
LEMMA CallBegins ==
  ASSUME call \in [Procs -> Calls], NEW p \in Procs, Call(p)
  PROVE  /\ CallOfStepOK(p)
         /\ UNCHANGED <<backendVars, deviceVars>>
         /\ call'[p].pc \in {"service_exists", "lookup", "device_lookup"}
         /\ call'[p].left = 0
<1>. USE DriverAssumption
<1>. DEFINE Begun(op, w, h, s) ==
       /\ Begin(p, op, w, h, s)
       /\ UNCHANGED <<backendVars, deviceVars>>
       /\ s \in StepsOf[op] \cap {"service_exists", "lookup", "device_lookup"}
       /\ op # "none"
       /\ op # "create" => w \in Volumes
       /\ op = "attach" => h \in Hosts
       /\ op \in {"attach", "detach"} => s = "lookup"
<1>1. \E op \in Ops, w \in Volumes \cup {NoVolume}, h \in Hosts \cup {NoHost},
         s \in Steps : Begun(op, w, h, s)
  <2>. USE DEF Ops, Steps, StepsOf, Creating, Reading
  <2>1. CASE CreateVolume(p)
    <3>1. Begun("create", NoVolume, NoHost, "service_exists")
      BY <2>1 DEF CreateVolume
    <3>. QED BY <3>1
  <2>2. ASSUME NEW w \in Volumes, DestroyVolume(p, w)
        PROVE  Begun("destroy", w, NoHost, "lookup")
    BY <2>2 DEF DestroyVolume
  <2>3. ASSUME NEW w \in Volumes, DetachVolume(p, w)
        PROVE  Begun("detach", w, NoHost, "lookup")
    BY <2>3 DEF DetachVolume
  <2>4. ASSUME NEW w \in Volumes, GetDevicePath(p, w)
        PROVE  Begun("path", w, NoHost, "device_lookup")
    BY <2>4 DEF GetDevicePath
  <2>5. ASSUME NEW w \in Volumes, NEW h \in Hosts, AttachVolume(p, w, h)
        PROVE  Begun("attach", w, h, "lookup")
    BY <2>5 DEF AttachVolume
  <2>. HIDE DEF Begun
  <2>. QED BY <2>1, <2>2, <2>3, <2>4, <2>5 DEF Call
<1>2. PICK op \in Ops, w \in Volumes \cup {NoVolume}, h \in Hosts \cup {NoHost},
           s \in Steps : Begun(op, w, h, s)
  BY <1>1
<1>. DEFINE c == [op |-> op, wwn |-> w, to |-> h, seen |-> NoHost,
                  pc |-> s, left |-> 0]
<1>3. c \in Calls
  BY DEF Calls
<1>4. call' = [call EXCEPT ![p] = c] /\ answer' = "none"
  BY <1>2 DEF Begin
<1>5. call' \in [Procs -> Calls] /\ OthersWait(p) /\ answer' \in Answers
  BY <1>3, <1>4 DEF OthersWait, Answers
<1>6. call'[p] = c
  BY <1>4
<1>7. ProcessOK(p)'
  BY <1>2, <1>6 DEF ProcessOK, CallOK, ChecksPassed, ReloadsFreshPaths,
     SeenElsewhere, CleanBeforeUnmap, AttachInProgress, Creating, Reading, Cleaning,
     Rescans
<1>. QED BY <1>2, <1>5, <1>6, <1>7 DEF CallOfStepOK

\* The start of a call keeps the invariants.
LEMMA CallKeeps ==
  ASSUME IInv, NEW p \in Procs, Call(p)
  PROVE  Keeps(p)
BY CallBegins, UnchangedStorage DEF IInv, TypeOK, Keeps

\* The two reads of the service before a volume is created keep the invariants.
LEMMA CreateReadsKeep ==
  ASSUME IInv, NEW p \in Procs, CheckService(p) \/ ReadServiceId(p)
  PROVE  Keeps(p)
<1>1. call \in [Procs -> Calls] /\ ProcessOK(p)
  BY DEF IInv, TypeOK
<1>2. UNCHANGED <<backendVars, deviceVars>> /\ call[p].pc \in Creating
  BY DEF CheckService, ReadServiceId, Creating
<1>3. CASE \E a \in Answers : Answer(p, a)
  BY <1>2, <1>3, ReadAndAnswer
<1>4. CASE Goto(p, "service_id") \/ Goto(p, "post_volume")
  <2>1. PICK s \in {"service_id", "post_volume"} : Continue(p, s, 0)
    BY <1>4 DEF Goto
  <2>2. s \in Steps /\ 0 \in 0 .. Retries
    BY DriverAssumption DEF Steps
  <2>3. /\ call' \in [Procs -> Calls]
        /\ answer' \in Answers
        /\ OthersWait(p)
        /\ call'[p].pc = s
        /\ call'[p].op = call[p].op
    BY <1>1, <2>1, <2>2, ContinueStep
  <2>4. call[p].op = "create"
    BY <1>1, <1>2 DEF Calls, Ops, ProcessOK, CallOK, StepsOf, Creating, Reading,
       Cleaning, Rescans
  <2>5. ProcessOK(p)'
    BY <2>1, <2>3, <2>4 DEF ProcessOK, CallOK, ChecksPassed, ReloadsFreshPaths,
       SeenElsewhere, CleanBeforeUnmap, AttachInProgress, StepsOf, Creating
  <2>. QED BY <1>2, <2>3, <2>5, ReadKeeps
<1>. QED BY <1>3, <1>4 DEF CheckService, ReadServiceId, Answers

\* Only volumes of the cluster get past the look-up of attach and detach.
LEMMA LookUpVolumeKeeps ==
  ASSUME IInv, NEW p \in Procs, LookUpVolume(p)
  PROVE  Keeps(p)
<1>1. call \in [Procs -> Calls] /\ ProcessOK(p)
  BY DEF IInv, TypeOK
<1>2. UNCHANGED <<backendVars, deviceVars>> /\ call[p].pc = "lookup"
  BY DEF LookUpVolume
<1>3. CASE \E a \in Answers : Answer(p, a)
  BY <1>2, <1>3, ReadAndAnswer
<1>4. ASSUME NEW s \in {"delete_volume", "mapping"},
             Goto(p, s),
             s = "delete_volume" => call[p].op = "destroy",
             s = "mapping" => call[p].op # "destroy" /\ call[p].wwn \in ClusterVolumes
      PROVE  Keeps(p)
  <2>1. s \in Steps /\ 0 \in 0 .. Retries /\ Continue(p, s, 0)
    BY <1>4, DriverAssumption DEF Steps, Goto
  <2>2. /\ call' \in [Procs -> Calls]
        /\ answer' \in Answers
        /\ OthersWait(p)
        /\ call'[p].pc = s
        /\ call'[p].op = call[p].op
        /\ call'[p].wwn = call[p].wwn
        /\ call'[p].to = call[p].to
    BY <1>1, <2>1, ContinueStep
  <2>3. call[p].op \in {"destroy", "attach", "detach"}
    BY <1>1, <1>2 DEF Calls, Ops, ProcessOK, CallOK, StepsOf, Creating, Reading,
       Cleaning, Rescans
  <2>4. CallOK(p)'
    BY <1>1, <1>2, <1>4, <2>2, <2>3 DEF ProcessOK, CallOK, StepsOf
  <2>5. ChecksPassed(p)'
    BY <1>2, <1>4, <2>2, <2>3 DEF ChecksPassed, ClusterVolumes, IInv, TypeOK,
       BackendTypeOK, backendVars
  <2>6. ProcessOK(p)'
    BY <2>2, <2>4, <2>5 DEF ProcessOK, ReloadsFreshPaths, SeenElsewhere,
       CleanBeforeUnmap, AttachInProgress, Reading, Cleaning, Rescans
  <2>. QED BY <1>2, <2>2, <2>6, ReadKeeps
<1>. QED BY <1>3, <1>4 DEF LookUpVolume, Answers

\* What detach sees elsewhere has no device here, as devices lie over mappings.
LEMMA ReadMappingKeeps ==
  ASSUME IInv, NEW p \in Procs, ReadMapping(p)
  PROVE  Keeps(p)
<1>1. call \in [Procs -> Calls] /\ ProcessOK(p) /\ call[p] \in Calls
  BY DEF IInv, TypeOK
<1>2. UNCHANGED <<backendVars, deviceVars>> /\ call[p].pc = "mapping"
  BY DEF ReadMapping
<1>3. CASE \E a \in Answers : Answer(p, a)
  BY <1>2, <1>3, ReadAndAnswer
<1>4. CASE call[p].op = "attach" /\ Goto(p, "resolve_host")
  <2>1. "resolve_host" \in Steps /\ 0 \in 0 .. Retries /\ Continue(p, "resolve_host", 0)
    BY <1>4, DriverAssumption DEF Steps, Goto
  <2>2. /\ call' \in [Procs -> Calls]
        /\ answer' \in Answers
        /\ OthersWait(p)
        /\ call'[p].pc = "resolve_host"
        /\ call'[p].op = "attach"
        /\ call'[p].wwn = call[p].wwn
        /\ call'[p].to = call[p].to
    BY <1>1, <1>4, <2>1, ContinueStep
  <2>3. ProcessOK(p)'
    BY <1>1, <1>2, <1>4, <2>2 DEF ProcessOK, CallOK, StepsOf, ChecksPassed,
       ReloadsFreshPaths, SeenElsewhere, CleanBeforeUnmap, AttachInProgress, Rescans,
       backendVars
  <2>. QED BY <1>2, <2>2, <2>3, ReadKeeps
<1>5. ASSUME NEW h \in mappedTo[call[p].wwn], call[p].op = "detach",
             call' = [call EXCEPT ![p] = [@ EXCEPT !.pc = "device_lookup", !.seen = h]],
             answer' = "none"
      PROVE  Keeps(p)
  <2>. DEFINE c == [call[p] EXCEPT !.pc = "device_lookup", !.seen = h]
  <2>1. call[p].wwn \in Volumes /\ h \in Hosts
    BY <1>1, <1>5 DEF ProcessOK, CallOK, IInv, TypeOK, BackendTypeOK
  <2>2. /\ c \in Calls
        /\ c.pc = "device_lookup"
        /\ c.op = "detach"
        /\ c.wwn = call[p].wwn
        /\ c.seen = h
    BY <1>1, <1>5, <2>1 DEF Calls, Steps
  <2>3. call' = [call EXCEPT ![p] = c]
    BY <1>5
  <2>. HIDE DEF c
  <2>4. call' \in [Procs -> Calls] /\ OthersWait(p) /\ call'[p] = c
    BY <1>1, <2>2, <2>3 DEF OthersWait
  <2>5. h # HostOf[p] => call[p].wwn \notin mpath[HostOf[p]]
    BY <1>5, <2>1, DriverAssumption DEF IInv, SoundMappings, NoFaultyDevice, MappedAt
  <2>6. SeenElsewhere(p)'
    BY <1>2, <2>2, <2>4, <2>5 DEF SeenElsewhere, Cleaning, deviceVars
  <2>7. ProcessOK(p)'
    BY <1>1, <1>2, <1>5, <2>1, <2>2, <2>4, <2>6 DEF ProcessOK, CallOK, StepsOf,
       ChecksPassed, ReloadsFreshPaths, CleanBeforeUnmap, AttachInProgress, Reading,
       backendVars
  <2>. QED BY <1>2, <1>5, <2>4, <2>7, ReadKeeps DEF Answers
<1>. QED BY <1>3, <1>4, <1>5 DEF ReadMapping, Answers

\* Without the volume there is no mapping, so no device that would be left behind.
LEMMA LookUpDeviceVolumeKeeps ==
  ASSUME IInv, NEW p \in Procs, LookUpDeviceVolume(p)
  PROVE  Keeps(p)
<1>1. call \in [Procs -> Calls] /\ ProcessOK(p) /\ call[p] \in Calls
  BY DEF IInv, TypeOK
<1>2. UNCHANGED <<backendVars, deviceVars>> /\ call[p].pc = "device_lookup"
  BY DEF LookUpDeviceVolume
<1>3. call[p].op \in {"path", "detach"} /\ call[p].wwn \in Volumes
  BY <1>1, <1>2 DEF Calls, Ops, ProcessOK, CallOK, StepsOf, Creating, Rescans
<1>4. CASE \E a \in Answers : Answer(p, a)
  BY <1>2, <1>4, ReadAndAnswer
<1>5. CASE Goto(p, "device_mapping")
  <2>1. "device_mapping" \in Steps /\ 0 \in 0 .. Retries /\ Continue(p, "device_mapping", 0)
    BY <1>5, DriverAssumption DEF Steps, Goto
  <2>2. /\ call' \in [Procs -> Calls]
        /\ answer' \in Answers
        /\ OthersWait(p)
        /\ call'[p].pc = "device_mapping"
        /\ call'[p].op = call[p].op
        /\ call'[p].wwn = call[p].wwn
        /\ call'[p].seen = call[p].seen
    BY <1>1, <2>1, ContinueStep
  <2>3. ProcessOK(p)'
    BY <1>1, <1>2, <1>3, <2>2 DEF ProcessOK, CallOK, StepsOf, ChecksPassed,
       ReloadsFreshPaths, SeenElsewhere, CleanBeforeUnmap, AttachInProgress, Reading,
       Cleaning, backendVars, deviceVars
  <2>. QED BY <1>2, <2>2, <2>3, ReadKeeps
<1>6. CASE /\ call[p].wwn \notin ClusterVolumes
           /\ call[p].op = "detach"
           /\ Goto(p, "resolve_host")
  <2>1. "resolve_host" \in Steps /\ 0 \in 0 .. Retries /\ Continue(p, "resolve_host", 0)
    BY <1>6, DriverAssumption DEF Steps, Goto
  <2>2. /\ call' \in [Procs -> Calls]
        /\ answer' \in Answers
        /\ OthersWait(p)
        /\ call'[p].pc = "resolve_host"
        /\ call'[p].op = "detach"
        /\ call'[p].wwn = call[p].wwn
        /\ call'[p].seen = call[p].seen
    BY <1>1, <1>6, <2>1, ContinueStep
  <2>3. call[p].wwn \notin vols
    BY <1>1, <1>2, <1>6 DEF ClusterVolumes, ProcessOK, ChecksPassed
  <2>4. mappedTo[call[p].wwn] = {}
    BY <1>3, <2>3 DEF IInv, SoundMappings
  <2>5. call[p].wwn \notin mpath[HostOf[p]]
    BY <2>4, DriverAssumption DEF IInv, NoFaultyDevice, MappedAt
  <2>6. CleanBeforeUnmap(p)'
    BY <1>2, <2>2, <2>3, <2>5 DEF CleanBeforeUnmap, backendVars, deviceVars
  <2>7. ProcessOK(p)'
    BY <1>1, <1>2, <1>3, <1>6, <2>2, <2>6 DEF ProcessOK, CallOK, StepsOf, ChecksPassed,
       ReloadsFreshPaths, SeenElsewhere, AttachInProgress, Reading, Cleaning, backendVars
  <2>. QED BY <1>2, <2>2, <2>7, ReadKeeps
<1>. QED BY <1>4, <1>5, <1>6 DEF LookUpDeviceVolume, Answers

\* The second read of the mapping keeps the invariants.
LEMMA ReadDeviceMappingKeeps ==
  ASSUME IInv, NEW p \in Procs, ReadDeviceMapping(p)
  PROVE  Keeps(p)
<1>1. call \in [Procs -> Calls] /\ ProcessOK(p) /\ call[p] \in Calls
  BY DEF IInv, TypeOK
<1>2. UNCHANGED <<backendVars, deviceVars>> /\ call[p].pc = "device_mapping"
  BY DEF ReadDeviceMapping
<1>3. call[p].op \in {"path", "detach"}
  BY <1>1, <1>2 DEF Calls, Ops, ProcessOK, CallOK, StepsOf, Creating, Rescans
<1>4. CASE \E a \in Answers : Answer(p, a)
  BY <1>2, <1>4, ReadAndAnswer
<1>5. CASE Goto(p, "device_find")
  <2>1. "device_find" \in Steps /\ 0 \in 0 .. Retries /\ Continue(p, "device_find", 0)
    BY <1>5, DriverAssumption DEF Steps, Goto
  <2>2. /\ call' \in [Procs -> Calls]
        /\ answer' \in Answers
        /\ OthersWait(p)
        /\ call'[p].pc = "device_find"
        /\ call'[p].op = call[p].op
        /\ call'[p].wwn = call[p].wwn
        /\ call'[p].seen = call[p].seen
    BY <1>1, <2>1, ContinueStep
  <2>3. ProcessOK(p)'
    BY <1>1, <1>2, <1>3, <2>2 DEF ProcessOK, CallOK, StepsOf, ChecksPassed,
       ReloadsFreshPaths, SeenElsewhere, CleanBeforeUnmap, AttachInProgress, Reading,
       Cleaning, backendVars, deviceVars
  <2>. QED BY <1>2, <2>2, <2>3, ReadKeeps
<1>. QED BY <1>4, <1>5 DEF ReadDeviceMapping, Answers

\* A device here means that the mapping was seen here.
LEMMA FindDeviceKeeps ==
  ASSUME IInv, NEW p \in Procs, FindDevice(p)
  PROVE  Keeps(p)
<1>1. call \in [Procs -> Calls] /\ ProcessOK(p) /\ call[p] \in Calls
  BY DEF IInv, TypeOK
<1>2. UNCHANGED <<backendVars, deviceVars>> /\ call[p].pc = "device_find"
  BY DEF FindDevice
<1>3. CASE \E a \in Answers : Answer(p, a)
  BY <1>2, <1>3, ReadAndAnswer
<1>4. CASE /\ call[p].wwn \in mpath[HostOf[p]]
           /\ call[p].op = "detach"
           /\ Goto(p, "fail_if_no_path")
  <2>1. /\ "fail_if_no_path" \in Steps
        /\ 0 \in 0 .. Retries
        /\ Continue(p, "fail_if_no_path", 0)
    BY <1>4, DriverAssumption DEF Steps, Goto
  <2>2. /\ call' \in [Procs -> Calls]
        /\ answer' \in Answers
        /\ OthersWait(p)
        /\ call'[p].pc = "fail_if_no_path"
        /\ call'[p].op = "detach"
        /\ call'[p].wwn = call[p].wwn
        /\ call'[p].seen = call[p].seen
    BY <1>1, <1>4, <2>1, ContinueStep
  <2>3. call[p].seen = HostOf[p]
    BY <1>1, <1>2, <1>4 DEF ProcessOK, SeenElsewhere, Reading
  <2>4. ProcessOK(p)'
    BY <1>1, <1>2, <1>4, <2>2, <2>3 DEF ProcessOK, CallOK, StepsOf, ChecksPassed,
       ReloadsFreshPaths, SeenElsewhere, CleanBeforeUnmap, AttachInProgress, Cleaning,
       backendVars
  <2>. QED BY <1>2, <2>2, <2>4, ReadKeeps
<1>. QED BY <1>3, <1>4 DEF FindDevice, Answers

\* The dmsetup message keeps the invariants.
LEMMA FailIfNoPathKeeps ==
  ASSUME IInv, NEW p \in Procs, FailIfNoPath(p)
  PROVE  Keeps(p)
<1>1. call \in [Procs -> Calls] /\ ProcessOK(p) /\ call[p] \in Calls
  BY DEF IInv, TypeOK
<1>2. UNCHANGED <<backendVars, deviceVars>> /\ call[p].pc = "fail_if_no_path"
  BY DEF FailIfNoPath
<1>3. call[p].op = "detach"
  BY <1>1, <1>2 DEF Calls, Ops, ProcessOK, CallOK, StepsOf, Creating, Reading, Rescans
<1>4. CASE Answer(p, "error")
  BY <1>2, <1>4, ReadAndAnswer DEF Answers
<1>5. CASE Continue(p, "flush", Retries)
  <2>1. "flush" \in Steps /\ Retries \in 0 .. Retries
    BY DriverAssumption DEF Steps
  <2>2. /\ call' \in [Procs -> Calls]
        /\ answer' \in Answers
        /\ OthersWait(p)
        /\ call'[p].pc = "flush"
        /\ call'[p].op = "detach"
        /\ call'[p].wwn = call[p].wwn
        /\ call'[p].seen = call[p].seen
    BY <1>1, <1>3, <1>5, <2>1, ContinueStep
  <2>3. ProcessOK(p)'
    BY <1>1, <1>2, <1>3, <2>2 DEF ProcessOK, CallOK, StepsOf, ChecksPassed,
       ReloadsFreshPaths, SeenElsewhere, CleanBeforeUnmap, AttachInProgress, Cleaning,
       backendVars
  <2>. QED BY <1>2, <2>2, <2>3, ReadKeeps
<1>. QED BY <1>4, <1>5 DEF FailIfNoPath

\* The look-up of the host id keeps the invariants.
LEMMA ResolveHostKeeps ==
  ASSUME IInv, NEW p \in Procs, ResolveHost(p)
  PROVE  Keeps(p)
<1>1. call \in [Procs -> Calls] /\ ProcessOK(p) /\ call[p] \in Calls
  BY DEF IInv, TypeOK
<1>2. UNCHANGED <<backendVars, deviceVars>> /\ call[p].pc = "resolve_host"
  BY DEF ResolveHost
<1>3. CASE Answer(p, "error")
  BY <1>2, <1>3, ReadAndAnswer DEF Answers
<1>4. ASSUME NEW s \in {"map", "unmap"}, Goto(p, s),
             s = "map" => call[p].op = "attach",
             s = "unmap" => call[p].op = "detach"
      PROVE  Keeps(p)
  <2>1. s \in Steps /\ 0 \in 0 .. Retries /\ Continue(p, s, 0)
    BY <1>4, DriverAssumption DEF Steps, Goto
  <2>2. /\ call' \in [Procs -> Calls]
        /\ answer' \in Answers
        /\ OthersWait(p)
        /\ call'[p].pc = s
        /\ call'[p].op = call[p].op
        /\ call'[p].wwn = call[p].wwn
        /\ call'[p].to = call[p].to
        /\ call'[p].seen = call[p].seen
    BY <1>1, <2>1, ContinueStep
  <2>3. ProcessOK(p)'
    BY <1>1, <1>2, <1>4, <2>2 DEF ProcessOK, CallOK, StepsOf, ChecksPassed,
       ReloadsFreshPaths, SeenElsewhere, CleanBeforeUnmap, AttachInProgress, Reading,
       Cleaning, Rescans, backendVars, deviceVars
  <2>. QED BY <1>2, <2>2, <2>3, ReadKeeps
<1>. QED BY <1>3, <1>4 DEF ResolveHost

\* A crash keeps the invariants: what it leaves behind is allowed between calls.
LEMMA CrashKeeps ==
  ASSUME IInv, NEW p \in Procs, Crash(p)
  PROVE  Keeps(p)
BY ReadAndAnswer DEF Crash, Answers

-----------------------------------------------------------------------------
(* Steps that change the storage                                            *)

\* A new volume has no mapping and no device.
LEMMA PostVolumeSafe ==
  ASSUME IInv, NEW p \in Procs, NEW w \in fresh, PostVolume(w), UNCHANGED deviceVars
  PROVE  StorageOK(p)
<1>. USE DEF PostVolume, deviceVars
<1>1. BackendTypeOK' /\ DevicesTypeOK'
  BY DEF IInv, TypeOK, BackendTypeOK, DevicesTypeOK
<1>2. SoundMappings' /\ NoFaultyDevice'
  BY DEF IInv, SoundMappings, NoFaultyDevice, MappedAt
<1>3. Local(p)
  BY DEF Local
<1>. QED BY <1>1, <1>2, <1>3 DEF StorageOK

\* A volume that is deleted has no mapping, so no device.
LEMMA DeleteVolumeSafe ==
  ASSUME IInv, NEW p \in Procs, NEW w \in Volumes, DeleteVolume(w), UNCHANGED deviceVars
  PROVE  StorageOK(p)
<1>. USE DEF DeleteVolume, deviceVars
<1>1. BackendTypeOK' /\ DevicesTypeOK'
  BY DEF IInv, TypeOK, BackendTypeOK, DevicesTypeOK
<1>2. SoundMappings' /\ NoFaultyDevice'
  BY DEF IInv, SoundMappings, NoFaultyDevice, MappedAt
<1>3. Local(p)
  BY DEF Local
<1>. QED BY <1>1, <1>2, <1>3 DEF StorageOK

\* A new mapping is the only one of its volume, and harms no other host.
LEMMA PostMappingSafe ==
  ASSUME IInv, NEW p \in Procs, NEW w \in Volumes, NEW h \in Hosts,
         PostMapping(w, h), UNCHANGED deviceVars
  PROVE  StorageOK(p) /\ mappedTo'[w] = {h}
<1>. USE DEF PostMapping, deviceVars
<1>1. BackendTypeOK' /\ DevicesTypeOK' /\ mappedTo'[w] = {h}
  BY DEF IInv, TypeOK, BackendTypeOK, DevicesTypeOK
<1>2. \A v \in Volumes : mappedTo[v] \subseteq mappedTo'[v]
  BY DEF IInv, TypeOK, BackendTypeOK
<1>3. SoundMappings'
  BY <1>1 DEF IInv, TypeOK, BackendTypeOK, SoundMappings
<1>4. NoFaultyDevice'
  BY <1>2 DEF IInv, NoFaultyDevice, MappedAt
<1>5. Local(p)
  BY <1>2 DEF Local
<1>. QED BY <1>1, <1>3, <1>4, <1>5 DEF StorageOK

\* A mapping to the own host is removed when the device over it is gone.
LEMMA DeleteMappingSafe ==
  ASSUME IInv, NEW p \in Procs, NEW w \in Volumes,
         DeleteMapping(w, HostOf[p]), w \notin mpath[HostOf[p]], UNCHANGED deviceVars,
         call[p].op = "detach"
  PROVE  StorageOK(p)
<1>. USE DEF DeleteMapping, deviceVars
<1>1. BackendTypeOK' /\ DevicesTypeOK'
  BY DEF IInv, TypeOK, BackendTypeOK, DevicesTypeOK
<1>2. \A v \in Volumes, g \in Hosts :
        g \in mappedTo'[v] <=> g \in mappedTo[v] /\ ~(v = w /\ g = HostOf[p])
  BY DEF IInv, TypeOK, BackendTypeOK
<1>3. SoundMappings'
  BY <1>1, <1>2 DEF IInv, SoundMappings, BackendTypeOK
<1>4. NoFaultyDevice'
  BY <1>2 DEF IInv, NoFaultyDevice, MappedAt
<1>5. Local(p)
  BY <1>2 DEF Local, Unmaps
<1>. QED BY <1>1, <1>3, <1>4, <1>5 DEF StorageOK

\* A change of the storage that is safe may end the call.
LEMMA AnswerKeeps ==
  ASSUME IInv, NEW p \in Procs, NEW a \in Answers, StorageOK(p), Answer(p, a)
  PROVE  Keeps(p)
BY AnswerEnds DEF IInv, TypeOK, Keeps

\* The creation keeps the invariants, whether the response arrives or not.
LEMMA CreateOnStorageKeeps ==
  ASSUME IInv, NEW p \in Procs, CreateOnStorage(p)
  PROVE  Keeps(p)
<1>1. "ok" \in Answers /\ "error" \in Answers
  BY DEF Answers
<1>2. CASE UNCHANGED backendVars /\ Answer(p, "error")
  BY <1>1, <1>2, ReadAndAnswer DEF CreateOnStorage
<1>3. ASSUME NEW w \in fresh, PostVolume(w), Answer(p, "ok") \/ Answer(p, "error")
      PROVE  Keeps(p)
  BY <1>1, <1>3, PostVolumeSafe, AnswerKeeps DEF CreateOnStorage
<1>. QED BY <1>2, <1>3 DEF CreateOnStorage

\* The deletion keeps the invariants, whether the response arrives or not.
LEMMA DeleteOnStorageKeeps ==
  ASSUME IInv, NEW p \in Procs, DeleteOnStorage(p)
  PROVE  Keeps(p)
<1>1. "ok" \in Answers /\ "error" \in Answers
  BY DEF Answers
<1>2. call[p].wwn \in Volumes
  BY DEF DeleteOnStorage, IInv, TypeOK, Calls, Ops, ProcessOK, CallOK, StepsOf, Creating
<1>3. CASE UNCHANGED backendVars /\ Answer(p, "error")
  BY <1>1, <1>3, ReadAndAnswer DEF DeleteOnStorage
<1>4. CASE DeleteVolume(call[p].wwn) /\ (Answer(p, "ok") \/ Answer(p, "error"))
  BY <1>1, <1>2, <1>4, DeleteVolumeSafe, AnswerKeeps DEF DeleteOnStorage
<1>. QED BY <1>3, <1>4 DEF DeleteOnStorage, Request

\* The mapping keeps the invariants, whether the response arrives or not.
LEMMA MapVolumeKeeps ==
  ASSUME IInv, NEW p \in Procs, MapVolume(p)
  PROVE  Keeps(p)
<1>1. call \in [Procs -> Calls] /\ ProcessOK(p) /\ call[p] \in Calls
  BY DEF IInv, TypeOK
<1>2. call[p].pc = "map" /\ UNCHANGED deviceVars
  BY DEF MapVolume
<1>3. call[p].op = "attach"
  BY <1>1, <1>2 DEF Calls, Ops, ProcessOK, CallOK, StepsOf, Creating, Reading, Cleaning,
     Rescans
<1>4. call[p].wwn \in Volumes /\ call[p].to \in Hosts
  BY <1>1, <1>3 DEF ProcessOK, CallOK
<1>5. CASE UNCHANGED backendVars /\ Answer(p, "error")
  BY <1>2, <1>5, ReadAndAnswer DEF Answers
<1>6. CASE PostMapping(call[p].wwn, call[p].to) /\ Answer(p, "error")
  BY <1>2, <1>4, <1>6, PostMappingSafe, AnswerKeeps DEF Answers
<1>7. CASE PostMapping(call[p].wwn, call[p].to) /\ Goto(p, "iscsi_rescan")
  <2>1. /\ "iscsi_rescan" \in Steps
        /\ 0 \in 0 .. Retries
        /\ Continue(p, "iscsi_rescan", 0)
    BY <1>7, DriverAssumption DEF Steps, Goto
  <2>2. /\ call' \in [Procs -> Calls]
        /\ answer' \in Answers
        /\ OthersWait(p)
        /\ call'[p].pc = "iscsi_rescan"
        /\ call'[p].op = "attach"
        /\ call'[p].wwn = call[p].wwn
        /\ call'[p].to = call[p].to
    BY <1>1, <1>3, <2>1, ContinueStep
  <2>3. StorageOK(p) /\ mappedTo'[call[p].wwn] = {call[p].to}
    BY <1>2, <1>4, <1>7, PostMappingSafe
  <2>4. ProcessOK(p)'
    BY <1>1, <1>2, <1>3, <1>4, <1>7, <2>2, <2>3 DEF ProcessOK, CallOK, StepsOf, Rescans,
       ChecksPassed, ReloadsFreshPaths, SeenElsewhere, CleanBeforeUnmap,
       AttachInProgress, PostMapping
  <2>. QED BY <2>2, <2>3, <2>4 DEF Keeps, CallOfStepOK
<1>. QED BY <1>5, <1>6, <1>7 DEF MapVolume, Request

\* The unmapping keeps the invariants, whether the response arrives or not.
LEMMA UnmapVolumeKeeps ==
  ASSUME IInv, NEW p \in Procs, UnmapVolume(p)
  PROVE  Keeps(p)
<1>1. call \in [Procs -> Calls] /\ ProcessOK(p) /\ call[p] \in Calls
  BY DEF IInv, TypeOK
<1>2. call[p].pc = "unmap" /\ UNCHANGED deviceVars
  BY DEF UnmapVolume
<1>3. call[p].op = "detach"
  BY <1>1, <1>2 DEF Calls, Ops, ProcessOK, CallOK, StepsOf, Creating, Reading, Cleaning,
     Rescans
<1>4. call[p].wwn \in Volumes
  BY <1>1, <1>3 DEF ProcessOK, CallOK
<1>5. CASE UNCHANGED backendVars /\ Answer(p, "error")
  BY <1>2, <1>5, ReadAndAnswer DEF Answers
<1>6. ASSUME DeleteMapping(call[p].wwn, call[p].seen)
      PROVE  StorageOK(p)
  <2>1. call[p].seen = HostOf[p] /\ call[p].wwn \notin mpath[HostOf[p]]
    BY <1>1, <1>2, <1>3, <1>6 DEF ProcessOK, CleanBeforeUnmap, DeleteMapping
  <2>. QED BY <1>2, <1>3, <1>4, <1>6, <2>1, DeleteMappingSafe
<1>7. CASE DeleteMapping(call[p].wwn, call[p].seen) /\ Answer(p, "error")
  BY <1>6, <1>7, AnswerKeeps DEF Answers
<1>8. CASE DeleteMapping(call[p].wwn, call[p].seen) /\ Goto(p, "iscsi_rescan")
  <2>1. /\ "iscsi_rescan" \in Steps
        /\ 0 \in 0 .. Retries
        /\ Continue(p, "iscsi_rescan", 0)
    BY <1>8, DriverAssumption DEF Steps, Goto
  <2>2. /\ call' \in [Procs -> Calls]
        /\ answer' \in Answers
        /\ OthersWait(p)
        /\ call'[p].pc = "iscsi_rescan"
        /\ call'[p].op = "detach"
        /\ call'[p].wwn = call[p].wwn
        /\ call'[p].seen = call[p].seen
    BY <1>1, <1>3, <2>1, ContinueStep
  <2>3. ProcessOK(p)'
    BY <1>1, <1>2, <1>3, <1>8, <2>2 DEF ProcessOK, CallOK, StepsOf, Rescans, Reading,
       Cleaning, ChecksPassed, ReloadsFreshPaths, SeenElsewhere, CleanBeforeUnmap,
       AttachInProgress, DeleteMapping
  <2>. QED BY <1>6, <1>8, <2>2, <2>3 DEF Keeps, CallOfStepOK
<1>. QED BY <1>5, <1>7, <1>8 DEF UnmapVolume, Request

-----------------------------------------------------------------------------
(* Steps that change the devices                                            *)

\* Whatever a command of attach or detach does to the devices of its host, the
\* global invariants hold when each device is still over a mapping and attach
\* takes stale paths away only.
LEMMA OwnDevicesSafe ==
  ASSUME IInv, NEW p \in Procs, UNCHANGED backendVars, DevicesTypeOK',
         call[p].op \in {"attach", "detach"},
         paths'[HostOf[p]] \subseteq paths[HostOf[p]] \cup MappedAt(HostOf[p]),
         paths[HostOf[p]] \cap MappedAt(HostOf[p]) \subseteq paths'[HostOf[p]],
         \A h \in Hosts \ {HostOf[p]} : paths'[h] = paths[h] /\ mpath'[h] = mpath[h],
         mpath'[HostOf[p]] \subseteq MappedAt(HostOf[p])
  PROVE  StorageOK(p)
<1>. USE DEF backendVars
<1>1. BackendTypeOK' /\ SoundMappings'
  BY DEF IInv, TypeOK, BackendTypeOK, SoundMappings
<1>2. NoFaultyDevice'
  BY DriverAssumption DEF IInv, NoFaultyDevice, MappedAt
<1>3. Local(p)
  BY DEF Local, Touches, MappedAt
<1>. QED BY <1>1, <1>2, <1>3 DEF StorageOK

\* The flush removes a device of the own host; a failed flush changes nothing.
LEMMA FlushDeviceKeeps ==
  ASSUME IInv, NEW p \in Procs, FlushDevice(p)
  PROVE  Keeps(p)
<1>1. call \in [Procs -> Calls] /\ ProcessOK(p) /\ call[p] \in Calls
  BY DEF IInv, TypeOK
<1>2. call[p].pc = "flush" /\ UNCHANGED backendVars
  BY DEF FlushDevice
<1>3. call[p].op = "detach"
  BY <1>1, <1>2 DEF Calls, Ops, ProcessOK, CallOK, StepsOf, Creating, Reading, Rescans
<1>4. call[p].wwn \in Volumes /\ call[p].seen = HostOf[p]
  BY <1>1, <1>2, <1>3 DEF ProcessOK, CallOK, SeenElsewhere, Cleaning
<1>5. CASE RunMultipathFlush(HostOf[p], call[p].wwn) /\ Goto(p, "resolve_host")
  <2>1. /\ "resolve_host" \in Steps
        /\ 0 \in 0 .. Retries
        /\ Continue(p, "resolve_host", 0)
    BY <1>5, DriverAssumption DEF Steps, Goto
  <2>2. /\ call' \in [Procs -> Calls]
        /\ answer' \in Answers
        /\ OthersWait(p)
        /\ call'[p].pc = "resolve_host"
        /\ call'[p].op = "detach"
        /\ call'[p].wwn = call[p].wwn
        /\ call'[p].seen = call[p].seen
    BY <1>1, <1>3, <2>1, ContinueStep
  <2>3. /\ mpath' = [mpath EXCEPT ![HostOf[p]] = @ \ {call[p].wwn}]
        /\ paths' = paths
    BY <1>5 DEF RunMultipathFlush
  <2>4. mpath'[HostOf[p]] = mpath[HostOf[p]] \ {call[p].wwn}
    BY <2>3, DriverAssumption DEF IInv, TypeOK, DevicesTypeOK
  <2>5. DevicesTypeOK'
    BY <2>3, DriverAssumption DEF IInv, TypeOK, DevicesTypeOK
  <2>6. mpath'[HostOf[p]] \subseteq MappedAt(HostOf[p])
    BY <2>4, DriverAssumption DEF IInv, NoFaultyDevice
  <2>7. StorageOK(p)
    BY <1>2, <1>3, <2>3, <2>5, <2>6, OwnDevicesSafe DEF IInv, TypeOK, DevicesTypeOK
  <2>8. ProcessOK(p)'
    BY <1>1, <1>2, <1>3, <1>4, <2>2, <2>4 DEF ProcessOK, CallOK, StepsOf, ChecksPassed,
       ReloadsFreshPaths, SeenElsewhere, CleanBeforeUnmap, AttachInProgress, Reading,
       Cleaning, backendVars
  <2>. QED BY <2>2, <2>7, <2>8 DEF Keeps, CallOfStepOK
<1>6. CASE UNCHANGED deviceVars /\ RetryOrFail(p)
  <2>1. CASE Answer(p, "error")
    BY <1>2, <1>6, <2>1, ReadAndAnswer DEF Answers
  <2>2. CASE call[p].left # 0 /\ Continue(p, call[p].pc, call[p].left - 1)
    <3>1. "flush" \in Steps /\ call[p].left - 1 \in 0 .. Retries
      BY <1>1, <2>2, DriverAssumption DEF Calls, Steps
    <3>2. Continue(p, "flush", call[p].left - 1)
      BY <1>2, <2>2
    <3>3. /\ call' \in [Procs -> Calls]
          /\ answer' \in Answers
          /\ OthersWait(p)
          /\ call'[p].pc = "flush"
          /\ call'[p].op = "detach"
          /\ call'[p].wwn = call[p].wwn
          /\ call'[p].seen = call[p].seen
      BY <1>1, <1>3, <3>1, <3>2, ContinueStep
    <3>4. ProcessOK(p)'
      BY <1>1, <1>2, <1>3, <1>4, <3>3 DEF ProcessOK, CallOK, StepsOf, ChecksPassed,
         ReloadsFreshPaths, SeenElsewhere, CleanBeforeUnmap, AttachInProgress, Cleaning,
         backendVars
    <3>. QED BY <1>2, <1>6, <3>3, <3>4, ReadKeeps
  <2>. QED BY <1>6, <2>1, <2>2 DEF RetryOrFail
<1>. QED BY <1>5, <1>6 DEF FlushDevice

\* The operation that rescans: nothing is required of a detach any more.
LEMMA RescanningOps ==
  ASSUME IInv, NEW p \in Procs, call[p].pc \in Rescans
  PROVE  /\ call \in [Procs -> Calls]
         /\ call[p] \in Calls
         /\ call[p].op \in {"attach", "detach"}
         /\ call[p].wwn \in Volumes
         /\ ProcessOK(p)
<1>1. call \in [Procs -> Calls] /\ call[p] \in Calls /\ ProcessOK(p)
  BY DEF IInv, TypeOK
<1>2. call[p].op \in {"attach", "detach"}
  BY <1>1 DEF Calls, Ops, ProcessOK, CallOK, StepsOf, Creating, Reading, Rescans
<1>. QED BY <1>1, <1>2 DEF ProcessOK, CallOK

\* A rescan changes the own host only, and multipathd builds devices over mappings.
LEMMA ChangePathsSafe ==
  ASSUME IInv, NEW p \in Procs, UNCHANGED backendVars,
         call[p].op \in {"attach", "detach"},
         NEW gone \in SUBSET StalePaths(HostOf[p]),
         NEW new \in SUBSET MappedAt(HostOf[p]),
         ChangePaths(HostOf[p], gone, new)
  PROVE  /\ StorageOK(p)
         /\ paths'[HostOf[p]] = (paths[HostOf[p]] \ gone) \cup new
<1>1. PICK built \in SUBSET new : mpath' = [mpath EXCEPT ![HostOf[p]] = @ \cup built]
  BY DEF ChangePaths
<1>2. paths' = [paths EXCEPT ![HostOf[p]] = (@ \ gone) \cup new]
  BY DEF ChangePaths
<1>3. MappedAt(HostOf[p]) \in SUBSET Volumes /\ HostOf[p] \in Hosts
  BY DriverAssumption DEF MappedAt
<1>4. DevicesTypeOK' /\ paths'[HostOf[p]] = (paths[HostOf[p]] \ gone) \cup new
  BY <1>1, <1>2, <1>3 DEF IInv, TypeOK, DevicesTypeOK
<1>5. mpath'[HostOf[p]] \subseteq MappedAt(HostOf[p])
  BY <1>1, <1>3 DEF IInv, NoFaultyDevice, TypeOK, DevicesTypeOK
<1>6. /\ paths'[HostOf[p]] \subseteq paths[HostOf[p]] \cup MappedAt(HostOf[p])
      /\ paths[HostOf[p]] \cap MappedAt(HostOf[p]) \subseteq paths'[HostOf[p]]
  BY <1>4 DEF StalePaths
<1>. QED BY <1>1, <1>2, <1>4, <1>5, <1>6, OwnDevicesSafe DEF IInv, TypeOK, DevicesTypeOK

\* The iSCSI rescan adds paths of the own host only.
LEMMA IscsiRescanKeeps ==
  ASSUME IInv, NEW p \in Procs, IscsiRescan(p)
  PROVE  Keeps(p)
<1>1. call[p].pc = "iscsi_rescan" /\ UNCHANGED backendVars /\ Goto(p, "scsi_rescan")
  BY DEF IscsiRescan
<1>2. /\ call \in [Procs -> Calls]
      /\ call[p] \in Calls
      /\ call[p].op \in {"attach", "detach"}
      /\ call[p].wwn \in Volumes
      /\ ProcessOK(p)
  BY <1>1, RescanningOps DEF Rescans
<1>3. /\ "scsi_rescan" \in Steps
      /\ 0 \in 0 .. Retries
      /\ Continue(p, "scsi_rescan", 0)
  BY <1>1, DriverAssumption DEF Steps, Goto
<1>4. /\ call' \in [Procs -> Calls]
      /\ answer' \in Answers
      /\ OthersWait(p)
      /\ call'[p].pc = "scsi_rescan"
      /\ call'[p].op = call[p].op
      /\ call'[p].wwn = call[p].wwn
      /\ call'[p].to = call[p].to
      /\ call'[p].seen = call[p].seen
  BY <1>2, <1>3, ContinueStep
<1>5. StorageOK(p)
  BY <1>1, <1>2, ChangePathsSafe DEF IscsiRescan, RunIscsiRescan, MissingPaths
<1>6. ProcessOK(p)'
  BY <1>1, <1>2, <1>4 DEF ProcessOK, CallOK, StepsOf, ChecksPassed, ReloadsFreshPaths,
     SeenElsewhere, CleanBeforeUnmap, AttachInProgress, Reading, Cleaning, Rescans,
     backendVars
<1>. QED BY <1>4, <1>5, <1>6 DEF Keeps, CallOfStepOK

\* After a SCSI rescan that succeeds no path of the host is stale.
LEMMA ScsiRescanKeeps ==
  ASSUME IInv, NEW p \in Procs, ScsiRescan(p)
  PROVE  Keeps(p)
<1>1. call[p].pc = "scsi_rescan" /\ UNCHANGED backendVars
  BY DEF ScsiRescan
<1>2. /\ call \in [Procs -> Calls]
      /\ call[p] \in Calls
      /\ call[p].op \in {"attach", "detach"}
      /\ call[p].wwn \in Volumes
      /\ ProcessOK(p)
  BY <1>1, RescanningOps DEF Rescans
<1>3. CASE FailScsiRescan(HostOf[p]) /\ Answer(p, "error")
  <2>1. StorageOK(p)
    BY <1>1, <1>2, <1>3, ChangePathsSafe DEF FailScsiRescan, MissingPaths
  <2>. QED BY <1>3, <2>1, AnswerKeeps DEF Answers
<1>4. CASE RunScsiRescan(HostOf[p]) /\ Continue(p, "multipath_reload", Retries)
  <2>1. "multipath_reload" \in Steps /\ Retries \in 0 .. Retries
    BY DriverAssumption DEF Steps
  <2>2. /\ call' \in [Procs -> Calls]
        /\ answer' \in Answers
        /\ OthersWait(p)
        /\ call'[p].pc = "multipath_reload"
        /\ call'[p].op = call[p].op
        /\ call'[p].wwn = call[p].wwn
        /\ call'[p].to = call[p].to
        /\ call'[p].seen = call[p].seen
    BY <1>2, <1>4, <2>1, ContinueStep
  <2>3. StorageOK(p) /\ paths'[HostOf[p]] = MappedAt(HostOf[p])
    <3>. DEFINE h == HostOf[p]
    <3>1. ChangePaths(h, StalePaths(h), MissingPaths(h))
      BY <1>4 DEF RunScsiRescan
    <3>2. MissingPaths(h) \in SUBSET MappedAt(h)
      BY DEF MissingPaths
    <3>3. StorageOK(p) /\ paths'[h] = (paths[h] \ StalePaths(h)) \cup MissingPaths(h)
      BY <1>1, <1>2, <3>1, <3>2, ChangePathsSafe
    <3>. QED BY <3>3 DEF StalePaths, MissingPaths
  <2>4. ReloadsFreshPaths(p)' /\ AttachInProgress(p)'
    BY <1>1, <1>2, <2>2, <2>3 DEF ProcessOK, ReloadsFreshPaths, AttachInProgress,
       MappedAt, Rescans, backendVars
  <2>5. ProcessOK(p)'
    BY <1>1, <1>2, <2>2, <2>4 DEF ProcessOK, CallOK, StepsOf, ChecksPassed,
       SeenElsewhere, CleanBeforeUnmap, Reading, Cleaning, Rescans, backendVars
  <2>. QED BY <2>2, <2>3, <2>5 DEF Keeps, CallOfStepOK
<1>. QED BY <1>3, <1>4 DEF ScsiRescan

\* The reload builds devices over fresh paths, that is over mappings.
LEMMA MultipathReloadKeeps ==
  ASSUME IInv, NEW p \in Procs, MultipathReload(p)
  PROVE  Keeps(p)
<1>1. call[p].pc = "multipath_reload" /\ UNCHANGED backendVars
  BY DEF MultipathReload
<1>2. /\ call \in [Procs -> Calls]
      /\ call[p] \in Calls
      /\ call[p].op \in {"attach", "detach"}
      /\ call[p].wwn \in Volumes
      /\ ProcessOK(p)
  BY <1>1, RescanningOps DEF Rescans
<1>3. PICK built \in SUBSET paths[HostOf[p]] :
        mpath' = [mpath EXCEPT ![HostOf[p]] = @ \cup built] /\ paths' = paths
  BY DEF MultipathReload, RunMultipathReload, FailMultipathReload
<1>4. DevicesTypeOK'
  BY <1>3, DriverAssumption DEF IInv, TypeOK, DevicesTypeOK
<1>5. paths[HostOf[p]] \subseteq MappedAt(HostOf[p])
  BY <1>1, <1>2 DEF ProcessOK, ReloadsFreshPaths
<1>6. mpath'[HostOf[p]] \subseteq MappedAt(HostOf[p])
  BY <1>3, <1>5, DriverAssumption DEF IInv, NoFaultyDevice, TypeOK, DevicesTypeOK
<1>7. StorageOK(p)
  BY <1>1, <1>2, <1>3, <1>4, <1>6, OwnDevicesSafe DEF IInv, TypeOK, DevicesTypeOK
<1>8. CASE \E a \in Answers : Answer(p, a)
  BY <1>7, <1>8, AnswerKeeps
<1>9. CASE call[p].left # 0 /\ Continue(p, call[p].pc, call[p].left - 1)
  <2>1. "multipath_reload" \in Steps /\ call[p].left - 1 \in 0 .. Retries
    BY <1>2, <1>9, DriverAssumption DEF Calls, Steps
  <2>2. Continue(p, "multipath_reload", call[p].left - 1)
    BY <1>1, <1>9
  <2>3. /\ call' \in [Procs -> Calls]
        /\ answer' \in Answers
        /\ OthersWait(p)
        /\ call'[p].pc = "multipath_reload"
        /\ call'[p].op = call[p].op
        /\ call'[p].wwn = call[p].wwn
        /\ call'[p].to = call[p].to
        /\ call'[p].seen = call[p].seen
    BY <1>2, <2>1, <2>2, ContinueStep
  <2>4. ReloadsFreshPaths(p)' /\ AttachInProgress(p)'
    BY <1>1, <1>2, <1>3, <2>3 DEF ProcessOK, ReloadsFreshPaths, AttachInProgress,
       MappedAt, Rescans, backendVars
  <2>5. ProcessOK(p)'
    BY <1>1, <1>2, <2>3, <2>4 DEF ProcessOK, CallOK, StepsOf, ChecksPassed,
       SeenElsewhere, CleanBeforeUnmap, Reading, Cleaning, Rescans, backendVars
  <2>. QED BY <1>7, <2>3, <2>5 DEF Keeps, CallOfStepOK
<1>. QED BY <1>8, <1>9 DEF MultipathReload, RetryOrFail, Answers

-----------------------------------------------------------------------------
(* The invariant                                                            *)

\* Every step of a process keeps the invariants.
LEMMA StepKeeps ==
  ASSUME IInv, NEW p \in Procs, Call(p) \/ Step(p) \/ Crash(p)
  PROVE  Keeps(p)
BY CallKeeps, CreateReadsKeep, LookUpVolumeKeeps, ReadMappingKeeps,
   LookUpDeviceVolumeKeeps, ReadDeviceMappingKeeps, FindDeviceKeeps, FailIfNoPathKeeps,
   ResolveHostKeeps, CrashKeeps, CreateOnStorageKeeps, DeleteOnStorageKeeps,
   MapVolumeKeeps, UnmapVolumeKeeps, FlushDeviceKeeps, IscsiRescanKeeps,
   ScsiRescanKeeps, MultipathReloadKeeps
DEF Step

\* The invariant holds initially.
LEMMA InitIInv == Init => IInv
<1>. SUFFICES ASSUME Init PROVE IInv
  OBVIOUS
<1>1. NoCall \in Calls /\ call = [p \in Procs |-> NoCall] /\ answer \in Answers
  BY DriverAssumption DEF NoCall, Calls, Ops, Steps, Init, Answers
<1>2. BackendTypeOK
  BY BackendAssumption DEF Init, BackendInit, BackendTypeOK
<1>3. DevicesTypeOK
  BY DEF Init, DevicesInit, DevicesTypeOK, MappedAt
<1>4. TypeOK
  BY <1>1, <1>2, <1>3 DEF TypeOK
<1>5. SoundMappings
  BY DEF Init, BackendInit, SoundMappings
<1>6. NoFaultyDevice
  BY DEF Init, DevicesInit, NoFaultyDevice
<1>7. ASSUME NEW p \in Procs PROVE ProcessOK(p)
  BY <1>1 DEF ProcessOK, CallOK, ChecksPassed, ReloadsFreshPaths, SeenElsewhere,
     CleanBeforeUnmap, AttachInProgress, NoCall, StepsOf, Reading, Cleaning, Rescans
<1>. QED BY <1>4, <1>5, <1>6, <1>7 DEF IInv

\* The invariant is inductive, as long as the callers keep their part.
LEMMA NextIInv == IInv /\ DetachesAlone /\ [SerialNext]_vars => IInv' /\ DetachesAlone'
<1>1. ASSUME IInv, DetachesAlone, NEW p \in Procs, Call(p) \/ Step(p) \/ Crash(p)
      PROVE  IInv'
  <2>1. Keeps(p)
    BY <1>1, StepKeeps
  <2>2. \A q \in Procs : ProcessOK(q)'
    BY <1>1, <2>1, OthersUndisturbed DEF Keeps, StorageOK, CallOfStepOK
  <2>. QED BY <2>1, <2>2 DEF Keeps, StorageOK, CallOfStepOK, IInv, TypeOK
<1>2. ASSUME IInv, DetachesAlone, UNCHANGED vars PROVE IInv' /\ DetachesAlone'
  BY <1>2 DEF vars, IInv, TypeOK, BackendTypeOK, DevicesTypeOK, SoundMappings,
     NoFaultyDevice, MappedAt, ProcessOK, CallOK, ChecksPassed, ReloadsFreshPaths,
     SeenElsewhere, CleanBeforeUnmap, AttachInProgress, DetachesAlone
<1>. QED BY <1>1, <1>2 DEF Next, SerialNext

\* IInv holds in every reachable state of the driver, for any number of hosts,
\* processes, volumes and retries, if no detach overlaps with an attach or another
\* detach of its host.
THEOREM Invariance == SerialSpec => []IInv
<1>1. Init => DetachesAlone
  BY DEF Init, DetachesAlone, NoCall
<1>. QED BY <1>1, InitIInv, NextIInv, PTL DEF SerialSpec

\* With one process per host, whose calls cannot overlap, the driver needs no
\* assumption on its callers.
OneCallPerHost == \A p, q \in Procs : HostOf[p] = HostOf[q] => p = q

THEOREM OneCallIsSerial == OneCallPerHost => (Spec => SerialSpec)
<1>1. OneCallPerHost /\ [Next]_vars => [SerialNext]_vars
  BY DEF OneCallPerHost, SerialNext, DetachesAlone
<1>2. OneCallPerHost => OneCallPerHost'
  BY DEF OneCallPerHost
<1>. QED BY <1>1, <1>2, PTL DEF Spec, SerialSpec

\* The variables keep their types.
THEOREM TypeCorrect == SerialSpec => []TypeOK
<1>1. IInv => TypeOK
  BY DEF IInv
<1>. QED BY <1>1, Invariance, PTL

\* No multipath device outlives the mapping below it.
THEOREM NeverFaulty == SerialSpec => []NoFaultyDevice
<1>1. IInv => NoFaultyDevice
  BY DEF IInv
<1>. QED BY <1>1, Invariance, PTL

-----------------------------------------------------------------------------
(* The action properties                                                    *)

\* The steps of the driver, whatever its callers keep apart.
LEMMA NextIsSerial == [SerialNext]_vars => [Next]_vars
BY DEF SerialNext

\* The steps with which a call ends well.
LEMMA OkSteps ==
  ASSUME IInv, [Next]_vars, NEW p \in Procs, NEW op \in Ops \ {"none"},
         Ends(p, op, "ok"), op \notin {"create", "destroy"}
  PROVE  \/ op = "path" /\ FindDevice(p) /\ call[p].wwn \in mpath[HostOf[p]]
         \/ op \in {"attach", "detach"} /\ MultipathReload(p) /\ RunMultipathReload(HostOf[p])
<1>1. call[p].op = op /\ call'[p].pc = "idle" /\ answer' = "ok"
  BY DEF Ends
<1>2. call[p].pc # "idle" /\ call[p] \in Calls /\ call[p].pc \in StepsOf[op]
  BY <1>1 DEF IInv, TypeOK, ProcessOK, CallOK, StepsOf, Ops, Creating, Reading, Cleaning,
     Rescans
<1>3. PICK q \in Procs : Call(q) \/ Step(q) \/ Crash(q)
  BY <1>1, <1>2 DEF Next, vars
<1>4. q = p
  BY <1>1, <1>2, <1>3, StepKeeps DEF Keeps, CallOfStepOK, OthersWait
<1>5. ~Call(p) /\ ~Crash(p)
  BY <1>1, <1>2 DEF Call, CreateVolume, DestroyVolume, AttachVolume, DetachVolume,
     GetDevicePath, Begin, Crash, Answer
<1>6. Step(p)
  BY <1>3, <1>4, <1>5
<1>7. call[p].pc \in Reading \cup Cleaning \cup Rescans
        \cup {"lookup", "mapping", "resolve_host", "map", "unmap"}
  BY <1>1, <1>2 DEF StepsOf, Ops
<1>8. FindDevice(p) \/ MultipathReload(p)
  BY <1>1, <1>2, <1>6, <1>7 DEF Step, CheckService, ReadServiceId, CreateOnStorage,
     LookUpVolume, ReadMapping, DeleteOnStorage, LookUpDeviceVolume, ReadDeviceMapping,
     FailIfNoPath, FlushDevice, ResolveHost, MapVolume, UnmapVolume, IscsiRescan,
     ScsiRescan, Answer, Goto, Continue, RetryOrFail, Request, Reading, Cleaning, Rescans
<1>9. CASE FindDevice(p)
  BY <1>1, <1>9 DEF FindDevice, Answer, Goto, Continue
<1>10. CASE MultipathReload(p)
  <2>1. call[p].op \in {"attach", "detach"}
    BY <1>10, RescanningOps DEF MultipathReload, Rescans
  <2>2. RunMultipathReload(HostOf[p])
    BY <1>1, <1>10 DEF MultipathReload, RetryOrFail, Answer, Continue
  <2>. QED BY <1>1, <1>10, <2>1, <2>2
<1>. QED BY <1>8, <1>9, <1>10

\* get_device_path answers with a device only where the volume is mapped.
THEOREM PathsAreMapped == SerialSpec => PathOnlyWhereAttached
<1>1. ASSUME IInv, [Next]_vars, NEW p \in Procs, Ends(p, "path", "ok")
      PROVE  call[p].wwn \in MappedAt(HostOf[p])
  <2>1. call[p].wwn \in mpath[HostOf[p]]
    BY <1>1, OkSteps DEF Ops
  <2>. QED BY <1>1, <2>1, DriverAssumption DEF IInv, NoFaultyDevice
<1>2. IInv /\ [Next]_vars =>
        [\A p \in Procs :
           Ends(p, "path", "ok") => call[p].wwn \in MappedAt(HostOf[p])]_vars
  BY <1>1
<1>. QED BY <1>2, Invariance, NextIsSerial, PTL DEF SerialSpec, PathOnlyWhereAttached

\* A device that attach_volume returns to its own host is mapped and usable.
THEOREM AttachesAreUsable == SerialSpec => AttachedIsUsable
<1>1. ASSUME IInv, [Next]_vars, NEW p \in Procs,
             Ends(p, "attach", "ok"), call[p].to = HostOf[p]
      PROVE  call[p].wwn \in mpath'[HostOf[p]] \cap MappedAt(HostOf[p])'
  <2>1. MultipathReload(p) /\ RunMultipathReload(HostOf[p])
    BY <1>1, OkSteps DEF Ops
  <2>2. call[p].pc = "multipath_reload" /\ mappedTo' = mappedTo
    BY <2>1 DEF MultipathReload, backendVars
  <2>3. ProcessOK(p) /\ call[p].wwn \in Volumes
    BY <1>1, <2>2, RescanningOps DEF Rescans
  <2>4. call[p].wwn \in MappedAt(HostOf[p])' /\ call[p].wwn \in paths[HostOf[p]]
    BY <1>1, <2>2, <2>3 DEF ProcessOK, AttachInProgress, Ends, Rescans, MappedAt
  <2>5. call[p].wwn \in mpath'[HostOf[p]]
    BY <1>1, <2>1, <2>4, DriverAssumption DEF RunMultipathReload, IInv, TypeOK,
       DevicesTypeOK
  <2>. QED BY <2>4, <2>5
<1>2. IInv /\ [Next]_vars =>
        [\A p \in Procs :
           Ends(p, "attach", "ok") /\ call[p].to = HostOf[p] =>
             call[p].wwn \in mpath'[HostOf[p]] \cap MappedAt(HostOf[p])']_vars
  BY <1>1
<1>. QED BY <1>2, Invariance, NextIsSerial, PTL DEF SerialSpec, AttachedIsUsable

\* No path of the host is stale when attach_volume or detach_volume returns.
THEOREM PathsAreFresh == SerialSpec => NoStalePathAfterCall
<1>1. ASSUME IInv, [Next]_vars, NEW p \in Procs,
             Ends(p, "attach", "ok") \/ Ends(p, "detach", "ok")
      PROVE  paths'[HostOf[p]] \subseteq MappedAt(HostOf[p])'
  <2>1. MultipathReload(p) /\ RunMultipathReload(HostOf[p])
    BY <1>1, OkSteps DEF Ops
  <2>. QED BY <1>1, <2>1 DEF MultipathReload, RunMultipathReload, backendVars, IInv,
           ProcessOK, ReloadsFreshPaths, MappedAt
<1>2. IInv /\ [Next]_vars =>
        [\A p \in Procs :
           Ends(p, "attach", "ok") \/ Ends(p, "detach", "ok") =>
             paths'[HostOf[p]] \subseteq MappedAt(HostOf[p])']_vars
  BY <1>1
<1>. QED BY <1>2, Invariance, NextIsSerial, PTL DEF SerialSpec, NoStalePathAfterCall

\* Only UnmapVolume takes a mapping away, and only the one to its own host.
LEMMA UnmapStep ==
  ASSUME IInv, [Next]_vars, NEW w \in Volumes, NEW h \in mappedTo[w], h \notin mappedTo'[w]
  PROVE  \E p \in Procs :
           /\ HostOf[p] = h
           /\ call[p].op = "detach" /\ call[p].wwn = w
           /\ call[p].pc = "unmap"
           /\ DeleteMapping(w, h) /\ UNCHANGED deviceVars
<1>1. PICK p \in Procs : Call(p) \/ Step(p) \/ Crash(p)
  BY DEF Next, vars
<1>2. CASE UnmapVolume(p)
  <2>1. DeleteMapping(call[p].wwn, call[p].seen) /\ call[p].pc = "unmap"
          /\ UNCHANGED deviceVars
    BY <1>2 DEF UnmapVolume, Request, backendVars
  <2>2. call[p].wwn = w /\ call[p].seen = h
    BY <2>1 DEF DeleteMapping, IInv, TypeOK, BackendTypeOK
  <2>3. call[p].op = "detach"
    BY <2>1 DEF IInv, TypeOK, Calls, Ops, ProcessOK, CallOK, StepsOf, Creating, Reading,
       Cleaning, Rescans
  <2>4. call[p].seen = HostOf[p]
    BY <2>1, <2>3 DEF IInv, ProcessOK, CleanBeforeUnmap, DeleteMapping
  <2>. QED BY <2>1, <2>2, <2>3, <2>4
<1>3. CASE MapVolume(p)
  <2>1. call[p].wwn \in Volumes
    BY <1>3 DEF MapVolume, IInv, TypeOK, Calls, Ops, ProcessOK, CallOK, StepsOf, Creating
  <2>. QED BY <1>3, <2>1 DEF MapVolume, Request, PostMapping, backendVars, IInv, TypeOK,
           BackendTypeOK
<1>4. CASE ~UnmapVolume(p) /\ ~MapVolume(p)
  BY <1>1, <1>4 DEF Call, CreateVolume, DestroyVolume, AttachVolume, DetachVolume,
     GetDevicePath, Step, CheckService, ReadServiceId, CreateOnStorage, PostVolume,
     LookUpVolume, ReadMapping, DeleteOnStorage, DeleteVolume, Request,
     LookUpDeviceVolume, ReadDeviceMapping, FindDevice, FailIfNoPath, FlushDevice,
     ResolveHost, IscsiRescan, ScsiRescan, MultipathReload, Crash, backendVars
<1>. QED BY <1>2, <1>3, <1>4

\* A mapping is removed by the driver of the host it is to, and nobody else.
THEOREM OwnHostUnmaps == SerialSpec => UnmappedByItsHost
<1>1. ASSUME IInv, [Next]_vars, NEW w \in Volumes, NEW h \in mappedTo[w],
             h \notin mappedTo'[w]
      PROVE  \E p \in Procs : /\ HostOf[p] = h
                              /\ call[p].op = "detach" /\ call[p].wwn = w
                              /\ At(p, "unmap")
  BY <1>1, UnmapStep
<1>2. IInv /\ [Next]_vars =>
        [\A w \in Volumes : \A h \in mappedTo[w] :
           h \notin mappedTo'[w] =>
             \E p \in Procs : /\ HostOf[p] = h
                              /\ call[p].op = "detach" /\ call[p].wwn = w
                              /\ At(p, "unmap")]_vars
  BY <1>1
<1>. QED BY <1>2, Invariance, NextIsSerial, PTL DEF SerialSpec, UnmappedByItsHost

-----------------------------------------------------------------------------
(* Whatever calls overlap: the theorems of Spec                             *)

\* What needs no order of the calls.  It is the part of IInv that is about the storage
\* and the calls themselves, and it is inductive without DetachesAlone.
OverlapInv ==
  /\ TypeOK
  /\ SoundMappings
  /\ \A p \in Procs : CallOK(p) /\ ChecksPassed(p) /\ RequestsLeft(p) <= 15 + 2 * Retries

\* The call of p ends in this step.
EndsNow(p) == call[p].pc # "idle" /\ \E a \in Answers : Answer(p, a)

\* The call of p goes on with a step that is nearer to the end.
Advances(p) ==
  \E s \in Steps \ {"idle"}, n \in 0 .. Retries, h \in Hosts \cup {NoHost} :
    /\ call' = [call EXCEPT ![p] = [call[p] EXCEPT !.pc = s, !.left = n, !.seen = h]]
    /\ answer' = "none"
    /\ RequestsFrom[s] + n + Requests(p) <= RequestsLeft(p)
    /\ s \in StepsOf[call[p].op]
    /\ call[p].op = "detach" /\ s # "mapping" => h \in Hosts
    /\ call[p].op \in {"attach", "detach"} => call[p].wwn \notin Foreign \cup fresh

\* How to show that a step that goes on advances.
LEMMA ContinueAdvances ==
  ASSUME NEW p \in Procs, call[p] \in Calls,
         NEW s \in Steps \ {"idle"}, NEW n \in 0 .. Retries, Continue(p, s, n),
         RequestsFrom[s] + n + Requests(p) <= RequestsLeft(p),
         s \in StepsOf[call[p].op],
         call[p].op = "detach" /\ s # "mapping" => call[p].seen \in Hosts,
         call[p].op \in {"attach", "detach"} => call[p].wwn \notin Foreign \cup fresh
  PROVE  Advances(p)
<1>1. [call[p] EXCEPT !.pc = s, !.left = n]
        = [call[p] EXCEPT !.pc = s, !.left = n, !.seen = call[p].seen]
  BY DEF Calls
<1>2. call[p].seen \in Hosts \cup {NoHost}
  BY DEF Calls
<1>. QED BY <1>1, <1>2 DEF Advances, Continue

\* Each step ends its call or advances it.
LEMMA StepControl ==
  ASSUME OverlapInv, NEW p \in Procs, Step(p)
  PROVE  EndsNow(p) \/ Advances(p)
<1>. USE DriverAssumption DEF Goto, Answers
<1>1. call[p] \in Calls /\ CallOK(p) /\ ChecksPassed(p) /\ call[p].left \in 0 .. Retries
  BY DEF OverlapInv, TypeOK, Calls
<1>. DEFINE op == call[p].op
<1>2. op \in Ops /\ call[p].pc \in StepsOf[op]
  BY <1>1 DEF Calls, CallOK
<1>. USE DEF StepsOf, RequestsFrom, RequestsLeft, Requests, Steps, Ops, Creating, Reading, Cleaning, Rescans
<1>3. CASE CheckService(p)
  BY <1>1, <1>2, <1>3, ContinueAdvances DEF CheckService, EndsNow
<1>4. CASE ReadServiceId(p)
  BY <1>1, <1>2, <1>4, ContinueAdvances DEF ReadServiceId, EndsNow
<1>5. CASE CreateOnStorage(p)
  BY <1>5 DEF CreateOnStorage, EndsNow
<1>6. CASE LookUpVolume(p)
  <2>1. CASE \E a \in Answers : Answer(p, a)
    BY <1>6, <2>1 DEF LookUpVolume, EndsNow
  <2>2. CASE op = "destroy" /\ Goto(p, "delete_volume")
    BY <1>1, <1>2, <1>6, <2>2, ContinueAdvances DEF LookUpVolume
  <2>3. CASE call[p].wwn \in ClusterVolumes /\ op # "destroy" /\ Goto(p, "mapping")
    <3>1. call[p].wwn \notin Foreign \cup fresh
      BY <2>3 DEF ClusterVolumes, OverlapInv, TypeOK, BackendTypeOK
    <3>2. op \in {"attach", "detach"}
      BY <1>2, <1>6, <2>3 DEF LookUpVolume
    <3>. QED BY <1>1, <1>6, <2>3, <3>1, <3>2, ContinueAdvances DEF LookUpVolume
  <2>. QED BY <1>6, <2>1, <2>2, <2>3 DEF LookUpVolume
<1>7. CASE ReadMapping(p)
  <2>1. CASE \E a \in Answers : Answer(p, a)
    BY <1>7, <2>1 DEF ReadMapping, EndsNow
  <2>2. CASE op = "attach" /\ Goto(p, "resolve_host")
    BY <1>1, <1>2, <1>7, <2>2, ContinueAdvances DEF ReadMapping, ChecksPassed
  <2>3. ASSUME NEW h \in mappedTo[call[p].wwn], op = "detach", answer' = "none",
               call' = [call EXCEPT ![p] = [@ EXCEPT !.pc = "device_lookup", !.seen = h]]
        PROVE  Advances(p)
    <3>1. h \in Hosts
      BY <1>1, <2>3 DEF CallOK, OverlapInv, TypeOK, BackendTypeOK
    <3>2. [call[p] EXCEPT !.pc = "device_lookup", !.seen = h]
            = [call[p] EXCEPT !.pc = "device_lookup", !.left = call[p].left, !.seen = h]
      BY <1>1 DEF Calls
    <3>3. call[p].wwn \notin Foreign \cup fresh
      BY <1>1, <1>7, <2>3 DEF ReadMapping, ChecksPassed
    <3>4. call' = [call EXCEPT ![p] = [call[p] EXCEPT !.pc = "device_lookup",
                                                      !.left = call[p].left, !.seen = h]]
      BY <2>3, <3>2
    <3>5. RequestsFrom["device_lookup"] + call[p].left + Requests(p) <= RequestsLeft(p)
      <4>1. call[p].pc = "mapping"
        BY <1>7 DEF ReadMapping
      <4>2. Retries \in Nat /\ call[p].left \in Nat
        BY <1>1
      <4>. QED BY <4>1, <4>2
    <3>6. "device_lookup" \in Steps \ {"idle"} /\ "device_lookup" \in StepsOf[op]
      BY <2>3
    <3>. QED BY <1>1, <2>3, <3>1, <3>3, <3>4, <3>5, <3>6 DEF Advances
  <2>. QED BY <1>7, <2>1, <2>2, <2>3 DEF ReadMapping
<1>8. CASE DeleteOnStorage(p)
  BY <1>8 DEF DeleteOnStorage, Request, EndsNow
<1>9. CASE LookUpDeviceVolume(p) \/ ReadDeviceMapping(p) \/ FindDevice(p) \/ FailIfNoPath(p)
  <2>1. call[p].pc \in Reading \cup {"fail_if_no_path"} /\ op \in {"path", "detach"}
          /\ (call[p].pc = "fail_if_no_path" => op = "detach")
    BY <1>2, <1>9 DEF LookUpDeviceVolume, ReadDeviceMapping, FindDevice, FailIfNoPath
  <2>2. /\ op = "detach" => call[p].seen \in Hosts
        /\ op = "detach" => call[p].wwn \notin Foreign \cup fresh
    BY <1>1, <2>1 DEF CallOK, ChecksPassed
  <2>3. CASE \E a \in Answers : Answer(p, a)
    BY <2>1, <2>3 DEF EndsNow
  <2>4. CASE LookUpDeviceVolume(p) /\ ~\E a \in Answers : Answer(p, a)
    BY <1>1, <2>1, <2>2, <2>4, ContinueAdvances DEF LookUpDeviceVolume
  <2>5. CASE ReadDeviceMapping(p) /\ ~\E a \in Answers : Answer(p, a)
    BY <1>1, <2>1, <2>2, <2>5, ContinueAdvances DEF ReadDeviceMapping
  <2>6. CASE FindDevice(p) /\ ~\E a \in Answers : Answer(p, a)
    BY <1>1, <2>1, <2>2, <2>6, ContinueAdvances DEF FindDevice
  <2>7. CASE FailIfNoPath(p) /\ ~\E a \in Answers : Answer(p, a)
    BY <1>1, <2>1, <2>2, <2>7, ContinueAdvances DEF FailIfNoPath
  <2>. QED BY <1>9, <2>3, <2>4, <2>5, <2>6, <2>7
<1>10. CASE FlushDevice(p)
  <2>1. call[p].pc = "flush" /\ op = "detach" /\ call[p].seen \in Hosts
          /\ call[p].wwn \notin Foreign \cup fresh
    BY <1>1, <1>2, <1>10 DEF FlushDevice, CallOK, ChecksPassed
  <2>2. CASE \E a \in Answers : Answer(p, a)
    BY <2>1, <2>2 DEF EndsNow
  <2>3. CASE Goto(p, "resolve_host")
    BY <1>1, <2>1, <2>3, ContinueAdvances
  <2>4. CASE call[p].left # 0 /\ Continue(p, call[p].pc, call[p].left - 1)
    BY <1>1, <2>1, <2>4, ContinueAdvances
  <2>. QED BY <1>10, <2>2, <2>3, <2>4 DEF FlushDevice, RetryOrFail
<1>11. CASE ResolveHost(p) \/ MapVolume(p) \/ UnmapVolume(p)
  <2>1. call[p].pc \in {"resolve_host", "map", "unmap"} /\ op \in {"attach", "detach"}
    BY <1>2, <1>11 DEF ResolveHost, MapVolume, UnmapVolume
  <2>2. /\ op = "detach" => call[p].seen \in Hosts
        /\ call[p].wwn \notin Foreign \cup fresh
    BY <1>1, <2>1 DEF CallOK, ChecksPassed
  <2>3. CASE \E a \in Answers : Answer(p, a)
    BY <2>1, <2>3 DEF EndsNow
  <2>4. CASE ResolveHost(p) /\ ~\E a \in Answers : Answer(p, a)
    BY <1>1, <2>1, <2>2, <2>4, ContinueAdvances DEF ResolveHost
  <2>5. CASE (MapVolume(p) \/ UnmapVolume(p)) /\ ~\E a \in Answers : Answer(p, a)
    BY <1>1, <2>1, <2>2, <2>5, ContinueAdvances DEF MapVolume, UnmapVolume, Request
  <2>. QED BY <1>11, <2>3, <2>4, <2>5
<1>12. CASE IscsiRescan(p) \/ ScsiRescan(p) \/ MultipathReload(p)
  <2>1. call[p].pc \in Rescans /\ op \in {"attach", "detach"}
    BY <1>2, <1>12 DEF IscsiRescan, ScsiRescan, MultipathReload
  <2>2. /\ op = "detach" => call[p].seen \in Hosts
        /\ call[p].wwn \notin Foreign \cup fresh
    BY <1>1, <2>1 DEF CallOK, ChecksPassed
  <2>3. CASE \E a \in Answers : Answer(p, a)
    BY <2>1, <2>3 DEF EndsNow
  <2>4. CASE IscsiRescan(p)
    BY <1>1, <2>1, <2>2, <2>4, ContinueAdvances DEF IscsiRescan
  <2>5. CASE ScsiRescan(p) /\ ~\E a \in Answers : Answer(p, a)
    <3>1. call[p].pc = "scsi_rescan" /\ Continue(p, "multipath_reload", Retries)
      BY <2>5 DEF ScsiRescan
    <3>2. RequestsFrom["multipath_reload"] + Retries + Requests(p) <= RequestsLeft(p)
      BY <1>1, <3>1
    <3>. QED BY <1>1, <2>1, <2>2, <3>1, <3>2, ContinueAdvances
  <2>6. CASE MultipathReload(p) /\ ~\E a \in Answers : Answer(p, a)
    <3>1. call[p].pc = "multipath_reload" /\ call[p].left # 0
            /\ Continue(p, call[p].pc, call[p].left - 1)
      BY <2>6 DEF MultipathReload, RetryOrFail
    <3>. QED BY <1>1, <2>1, <2>2, <3>1, ContinueAdvances
  <2>. QED BY <1>12, <2>3, <2>4, <2>5, <2>6
<1>. QED BY <1>3, <1>4, <1>5, <1>6, <1>7, <1>8, <1>9, <1>10, <1>11, <1>12 DEF Step

\* A call that ends or advances keeps what OverlapInv says of the calls.
LEMMA CallsKept ==
  ASSUME OverlapInv, NEW p \in Procs, EndsNow(p) \/ Advances(p), fresh' \subseteq fresh
  PROVE  /\ call' \in [Procs -> Calls] /\ answer' \in Answers
         /\ OthersWait(p)
         /\ \A q \in Procs : CallOK(q)' /\ ChecksPassed(q)'
<1>1. call \in [Procs -> Calls] /\ call[p] \in Calls
  BY DEF OverlapInv, TypeOK
<1>2. ASSUME OthersWait(p), CallOK(p)', ChecksPassed(p)'
      PROVE  \A q \in Procs : CallOK(q)' /\ ChecksPassed(q)'
  BY <1>2 DEF OthersWait, OverlapInv, CallOK, ChecksPassed
<1>3. CASE EndsNow(p)
  BY <1>1, <1>2, <1>3, AnswerEnds DEF EndsNow, CallOfStepOK, ProcessOK
<1>4. CASE Advances(p)
  <2>1. PICK s \in Steps \ {"idle"}, n \in 0 .. Retries, h \in Hosts \cup {NoHost} :
          /\ call' = [call EXCEPT ![p] = [call[p] EXCEPT !.pc = s, !.left = n, !.seen = h]]
          /\ answer' = "none"
          /\ s \in StepsOf[call[p].op]
          /\ call[p].op = "detach" /\ s # "mapping" => h \in Hosts
          /\ call[p].op \in {"attach", "detach"} => call[p].wwn \notin Foreign \cup fresh
    BY <1>4 DEF Advances
  <2>. DEFINE c == [call[p] EXCEPT !.pc = s, !.left = n, !.seen = h]
  <2>2. c \in Calls /\ c.pc = s /\ c.op = call[p].op /\ c.wwn = call[p].wwn
          /\ c.to = call[p].to /\ c.seen = h
    BY <1>1 DEF Calls
  <2>3. call' \in [Procs -> Calls] /\ call'[p] = c /\ OthersWait(p)
    BY <1>1, <2>1, <2>2 DEF OthersWait
  <2>. HIDE DEF c
  <2>4. CallOK(p)' /\ ChecksPassed(p)'
    BY <2>1, <2>2, <2>3 DEF OverlapInv, CallOK, ChecksPassed
  <2>. QED BY <1>2, <2>1, <2>3, <2>4 DEF Answers
<1>. QED BY <1>3, <1>4

\* What a step leaves of the storage and of the devices.
StorageKept ==
  /\ BackendTypeOK' /\ DevicesTypeOK' /\ SoundMappings'
  /\ fresh' \subseteq fresh
  /\ \A w \in Foreign : mappedTo'[w] = mappedTo[w]

\* The four requests that change the storage, sent for any volume of the cluster.
LEMMA RequestsKept ==
  ASSUME OverlapInv, NEW w \in Volumes, UNCHANGED deviceVars,
         \/ UNCHANGED backendVars
         \/ w \in fresh /\ PostVolume(w)
         \/ DeleteVolume(w)
         \/ w \notin Foreign /\ \E h \in Hosts : PostMapping(w, h) \/ DeleteMapping(w, h)
  PROVE  StorageKept
<1>. USE BackendAssumption DEF deviceVars, backendVars, OverlapInv, TypeOK
<1>1. DevicesTypeOK'
  BY DEF DevicesTypeOK
<1>2. CASE UNCHANGED backendVars
  BY <1>1, <1>2 DEF StorageKept, BackendTypeOK, SoundMappings
<1>3. CASE w \in fresh /\ PostVolume(w)
  BY <1>1, <1>3 DEF StorageKept, BackendTypeOK, SoundMappings, PostVolume
<1>4. CASE DeleteVolume(w)
  BY <1>1, <1>4 DEF StorageKept, BackendTypeOK, SoundMappings, DeleteVolume
<1>5. ASSUME w \notin Foreign, NEW h \in Hosts, PostMapping(w, h)
      PROVE  StorageKept
  BY <1>1, <1>5 DEF StorageKept, BackendTypeOK, SoundMappings, PostMapping
<1>6. ASSUME w \notin Foreign, NEW h \in Hosts, DeleteMapping(w, h)
      PROVE  StorageKept
  BY <1>1, <1>6 DEF StorageKept, BackendTypeOK, SoundMappings, DeleteMapping
<1>. QED BY <1>2, <1>3, <1>4, <1>5, <1>6

\* The commands change the devices of a host, in whatever way.
LEMMA CommandsKept ==
  ASSUME OverlapInv, NEW h \in Hosts, UNCHANGED backendVars,
         \/ RunIscsiRescan(h) \/ RunScsiRescan(h) \/ FailScsiRescan(h)
         \/ RunMultipathReload(h) \/ FailMultipathReload(h)
         \/ \E w \in Volumes : RunMultipathFlush(h, w)
         \/ UNCHANGED deviceVars
  PROVE  StorageKept
<1>1. BackendTypeOK' /\ SoundMappings' /\ fresh' = fresh /\ mappedTo' = mappedTo
  BY DEF OverlapInv, TypeOK, backendVars, BackendTypeOK, SoundMappings
<1>2. MappedAt(h) \subseteq Volumes
  BY DEF MappedAt
<1>. USE DEF OverlapInv, TypeOK, DevicesTypeOK
<1>3. ASSUME NEW gone, NEW new \in SUBSET Volumes, ChangePaths(h, gone, new)
      PROVE  DevicesTypeOK'
  BY <1>3 DEF ChangePaths
<1>4. CASE RunIscsiRescan(h) \/ RunScsiRescan(h) \/ FailScsiRescan(h)
  BY <1>1, <1>2, <1>3, <1>4 DEF RunIscsiRescan, RunScsiRescan, FailScsiRescan,
     MissingPaths, StalePaths, StorageKept
<1>5. CASE RunMultipathReload(h) \/ FailMultipathReload(h)
  BY <1>1, <1>5 DEF RunMultipathReload, FailMultipathReload, StorageKept
<1>6. CASE \E w \in Volumes : RunMultipathFlush(h, w)
  BY <1>1, <1>6 DEF RunMultipathFlush, StorageKept
<1>7. CASE UNCHANGED deviceVars
  BY <1>1, <1>7 DEF deviceVars, StorageKept
<1>. QED BY <1>4, <1>5, <1>6, <1>7

\* No step of a call harms the storage, or touches the mapping of a foreign volume.
LEMMA StepLeavesStorage ==
  ASSUME OverlapInv, NEW p \in Procs, Step(p)
  PROVE  StorageKept
<1>1. call[p] \in Calls /\ CallOK(p) /\ ChecksPassed(p) /\ HostOf[p] \in Hosts
  BY DriverAssumption DEF OverlapInv, TypeOK
<1>2. call[p].op \in Ops /\ call[p].pc \in StepsOf[call[p].op]
  BY <1>1 DEF Calls, CallOK
<1>. DEFINE w == call[p].wwn
<1>3. CASE UNCHANGED <<backendVars, deviceVars>>
  BY <1>1, <1>3, CommandsKept
<1>4. CASE CreateOnStorage(p)
  <2>1. \A v \in fresh : v \in Volumes
    BY DEF OverlapInv, TypeOK, BackendTypeOK
  <2>. QED BY <1>3, <1>4, <2>1, RequestsKept DEF CreateOnStorage
<1>5. CASE DeleteOnStorage(p)
  <2>1. w \in Volumes
    BY <1>1, <1>2, <1>5 DEF DeleteOnStorage, CallOK, StepsOf, Ops, Creating
  <2>. QED BY <1>5, <2>1, RequestsKept DEF DeleteOnStorage, Request
<1>6. CASE MapVolume(p)
  <2>1. w \in Volumes /\ w \notin Foreign /\ call[p].to \in Hosts
    BY <1>1, <1>2, <1>6 DEF MapVolume, CallOK, ChecksPassed, StepsOf, Ops, Creating,
       Reading, Cleaning, Rescans
  <2>. QED BY <1>6, <2>1, RequestsKept DEF MapVolume, Request
<1>7. CASE UnmapVolume(p)
  <2>1. w \in Volumes /\ w \notin Foreign /\ call[p].seen \in Hosts
    BY <1>1, <1>2, <1>7 DEF UnmapVolume, CallOK, ChecksPassed, StepsOf, Ops, Creating,
       Reading, Cleaning, Rescans
  <2>. QED BY <1>7, <2>1, RequestsKept DEF UnmapVolume, Request
<1>8. CASE FlushDevice(p)
  <2>1. w \in Volumes
    BY <1>1, <1>2, <1>8 DEF FlushDevice, CallOK, StepsOf, Ops, Creating
  <2>. QED BY <1>1, <1>8, <2>1, CommandsKept DEF FlushDevice
<1>9. CASE IscsiRescan(p) \/ ScsiRescan(p) \/ MultipathReload(p)
  BY <1>1, <1>9, CommandsKept DEF IscsiRescan, ScsiRescan, MultipathReload
<1>. QED BY <1>3, <1>4, <1>5, <1>6, <1>7, <1>8, <1>9 DEF Step, CheckService,
         ReadServiceId, LookUpVolume, ReadMapping, LookUpDeviceVolume, ReadDeviceMapping,
         FindDevice, FailIfNoPath, ResolveHost

\* What any step of a process leaves, and how far the calls are from their ends.
LEMMA OverlapStep ==
  ASSUME OverlapInv, NEW p \in Procs, Call(p) \/ Step(p) \/ Crash(p)
  PROVE  /\ StorageKept
         /\ call' \in [Procs -> Calls] /\ answer' \in Answers
         /\ OthersWait(p)
         /\ \A q \in Procs : CallOK(q)' /\ ChecksPassed(q)'
         /\ ~Call(p) => RequestsLeft(p)' + Requests(p) <= RequestsLeft(p)
         /\ RequestsLeft(p)' <= 15 + 2 * Retries
<1>1. call \in [Procs -> Calls] /\ call[p] \in Calls /\ RequestsLeft(p) <= 15 + 2 * Retries
  BY DEF OverlapInv, TypeOK
<1>2. CallOK(p) /\ call[p].left \in Nat /\ Retries \in Nat
  BY <1>1, DriverAssumption DEF OverlapInv, Calls
<1>3. CASE Call(p)
  <2>1. /\ CallOfStepOK(p) /\ UNCHANGED <<backendVars, deviceVars>>
        /\ call'[p].pc \in {"service_exists", "lookup", "device_lookup"}
        /\ call'[p].left = 0
    BY <1>1, <1>3, CallBegins
  <2>2. \A q \in Procs : CallOK(q)' /\ ChecksPassed(q)'
    BY <2>1 DEF CallOfStepOK, ProcessOK, OthersWait, OverlapInv, CallOK, ChecksPassed,
       backendVars
  <2>3. HostOf[p] \in Hosts
    BY DriverAssumption
  <2>4. StorageKept
    BY <2>1, <2>3, CommandsKept
  <2>5. RequestsLeft(p)' <= 15 + 2 * Retries
    BY <1>2, <2>1 DEF RequestsLeft, RequestsFrom
  <2>. QED BY <1>3, <2>1, <2>2, <2>4, <2>5 DEF CallOfStepOK
<1>4. CASE ~Call(p)
  <2>1. (EndsNow(p) \/ Advances(p)) /\ StorageKept
    <3>1. CASE Step(p)
      BY <3>1, StepControl, StepLeavesStorage
    <3>2. CASE Crash(p)
      <4>1. HostOf[p] \in Hosts
        BY DriverAssumption
      <4>. QED BY <3>2, <4>1, CommandsKept DEF Crash, EndsNow, Answers
    <3>. QED BY <1>4, <3>1, <3>2
  <2>2. /\ call' \in [Procs -> Calls] /\ answer' \in Answers
        /\ OthersWait(p)
        /\ \A q \in Procs : CallOK(q)' /\ ChecksPassed(q)'
    BY <2>1, CallsKept DEF StorageKept
  <2>3. RequestsLeft(p)' + Requests(p) <= RequestsLeft(p)
    <3>1. CASE EndsNow(p)
      <4>1. call'[p] = NoCall
        BY <1>1, <3>1 DEF EndsNow, Answer
      <4>2. RequestsLeft(p)' = 0
        BY <4>1 DEF RequestsLeft, RequestsFrom, NoCall
      <4>3. call[p].pc \in Steps \ {"idle"}
        BY <1>1, <3>1 DEF EndsNow, Calls
      <4>4. RequestsFrom[call[p].pc] \in Nat /\ Requests(p) <= RequestsFrom[call[p].pc]
        BY <1>2, <4>3 DEF Steps, RequestsFrom, Requests
      <4>. QED BY <1>2, <4>2, <4>4 DEF RequestsLeft, Requests
    <3>2. CASE Advances(p)
      <4>1. PICK s \in Steps \ {"idle"}, n \in 0 .. Retries, h \in Hosts \cup {NoHost} :
              /\ call' = [call EXCEPT ![p] = [call[p] EXCEPT !.pc = s, !.left = n,
                                                             !.seen = h]]
              /\ RequestsFrom[s] + n + Requests(p) <= RequestsLeft(p)
        BY <3>2 DEF Advances
      <4>2. call'[p].pc = s /\ call'[p].left = n
        BY <1>1, <4>1 DEF Calls
      <4>. QED BY <4>1, <4>2 DEF RequestsLeft
    <3>. QED BY <2>1, <3>1, <3>2
  <2>4. RequestsLeft(p) \in Nat /\ RequestsLeft(p)' \in Nat
    <3>1. \A s \in Steps : RequestsFrom[s] \in Nat
      BY <1>2 DEF Steps, RequestsFrom
    <3>2. call'[p] \in Calls
      BY <2>2
    <3>. QED BY <1>1, <1>2, <3>1, <3>2 DEF RequestsLeft, Calls
  <2>5. RequestsLeft(p)' <= 15 + 2 * Retries
    BY <1>1, <1>2, <2>3, <2>4 DEF Requests
  <2>. QED BY <1>4, <2>1, <2>2, <2>3, <2>5
<1>. QED BY <1>3, <1>4

LEMMA OverlapNext == OverlapInv /\ [Next]_vars => OverlapInv'
<1>1. ASSUME OverlapInv, NEW p \in Procs, Call(p) \/ Step(p) \/ Crash(p)
      PROVE  OverlapInv'
  <2>1. \A q \in Procs : RequestsLeft(q)' <= 15 + 2 * Retries
    BY <1>1, OverlapStep DEF OthersWait, OverlapInv, RequestsLeft
  <2>. QED BY <1>1, <2>1, OverlapStep DEF StorageKept, OverlapInv, TypeOK
<1>2. ASSUME OverlapInv, UNCHANGED vars PROVE OverlapInv'
  BY <1>2 DEF vars, OverlapInv, TypeOK, BackendTypeOK, DevicesTypeOK, SoundMappings,
     CallOK, ChecksPassed, RequestsLeft
<1>. QED BY <1>1, <1>2 DEF Next

LEMMA OverlapInit == Init => OverlapInv
<1>. SUFFICES ASSUME Init PROVE OverlapInv
  OBVIOUS
<1>1. \A p \in Procs : RequestsLeft(p) = 0
  BY DEF Init, NoCall, RequestsLeft, RequestsFrom
<1>. QED BY <1>1, InitIInv, DriverAssumption DEF OverlapInv, IInv, ProcessOK

\* The types, the retry bounds and the soundness of the mappings need no order of the
\* calls: they hold whatever the callers do.
THEOREM OverlapInvariance == Spec => [](TypeOK /\ SoundMappings)
<1>1. OverlapInv => TypeOK /\ SoundMappings
  BY DEF OverlapInv
<1>. QED BY <1>1, OverlapInit, OverlapNext, PTL DEF Spec

\* Whatever the callers do, the mapping of a volume of another cluster is left alone.
THEOREM ForeignMappings == Spec => ForeignMappingsKept
<1>1. OverlapInv /\ [Next]_vars => [\A w \in Foreign : mappedTo'[w] = mappedTo[w]]_vars
  BY OverlapStep DEF Next, StorageKept
<1>. QED BY <1>1, OverlapInit, OverlapNext, PTL DEF Spec, ForeignMappingsKept

\* Whatever the callers do, a call makes at most 15 + 2 * Retries requests and commands:
\* each step takes those it makes off what is left, and nobody else adds to it.
THEOREM CallsShrink == Spec => CallsAreBounded
<1>1. ASSUME OverlapInv, [Next]_vars, ~(UNCHANGED vars), NEW p \in Procs
      PROVE  /\ Step(p) => RequestsLeft(p)' + Requests(p) <= RequestsLeft(p)
             /\ \/ call[p].pc = "idle" \/ call'[p] = call[p]
                \/ RequestsLeft(p)' < RequestsLeft(p)
             /\ RequestsLeft(p)' <= 15 + 2 * Retries
  <2>1. PICK q \in Procs : Call(q) \/ Step(q) \/ Crash(q)
    BY <1>1 DEF Next
  <2>2. OthersWait(q) /\ (~Call(q) => RequestsLeft(q)' + Requests(q) <= RequestsLeft(q))
    BY <1>1, <2>1, OverlapStep
  <2>3. ASSUME NEW r \in Procs, Call(r)
        PROVE  call[r].pc = "idle" /\ ~Step(r)
    <3>1. call[r].pc = "idle"
      BY <2>3 DEF Call, CreateVolume, DestroyVolume, DetachVolume, AttachVolume,
         GetDevicePath, Begin
    <3>. QED BY <3>1 DEF Step, CheckService, ReadServiceId, CreateOnStorage, LookUpVolume,
             ReadMapping, DeleteOnStorage, LookUpDeviceVolume, ReadDeviceMapping, FindDevice,
             FailIfNoPath, FlushDevice, ResolveHost, MapVolume, UnmapVolume, IscsiRescan,
             ScsiRescan, MultipathReload
  <2>4. Step(p) => RequestsLeft(p)' + Requests(p) <= RequestsLeft(p)
    BY <1>1, <2>3, OverlapStep
  <2>5. \A r \in Procs : RequestsLeft(r) \in Nat /\ RequestsLeft(r)' \in Nat
    <3>1. OverlapInv'
      BY <1>1, OverlapNext
    <3>2. \A s \in Steps : RequestsFrom[s] \in Nat
      BY DriverAssumption DEF Steps, RequestsFrom
    <3>. QED BY <1>1, <3>1, <3>2, DriverAssumption
             DEF OverlapInv, TypeOK, Calls, RequestsLeft
  <2>6. \/ call[p].pc = "idle" \/ call'[p] = call[p]
        \/ RequestsLeft(p)' < RequestsLeft(p)
    <3>1. CASE p = q
      BY <2>2, <2>3, <2>5, <3>1 DEF Requests
    <3>. QED BY <2>2, <3>1 DEF OthersWait
  <2>7. RequestsLeft(p)' <= 15 + 2 * Retries
    BY <1>1, OverlapNext DEF OverlapInv
  <2>. QED BY <2>4, <2>6, <2>7
<1>2. OverlapInv /\ [Next]_vars =>
        [\A p \in Procs :
           /\ Step(p) => RequestsLeft(p)' + Requests(p) <= RequestsLeft(p)
           /\ \/ call[p].pc = "idle" \/ call'[p] = call[p]
              \/ RequestsLeft(p)' < RequestsLeft(p)
           /\ RequestsLeft(p)' <= 15 + 2 * Retries]_vars
  BY <1>1
<1>. QED BY <1>2, OverlapInit, OverlapNext, PTL DEF Spec, CallsAreBounded

\* A step of a call that has begun keeps what the callers have to keep: DetachesAlone
\* holds back new calls only, and no call waits for another one.
THEOREM NothingBlocks ==
  ASSUME OverlapInv, DetachesAlone, NEW p \in Procs, Step(p) \/ Crash(p)
  PROVE  DetachesAlone'
<1>1. call[p] \in Calls
  BY DEF OverlapInv, TypeOK
<1>2. OthersWait(p)
  BY OverlapStep
<1>3. call'[p].op \in {call[p].op, "none"}
  <2>1. EndsNow(p) \/ Advances(p)
    BY StepControl DEF Crash, EndsNow, Answers
  <2>2. CASE EndsNow(p)
    BY <2>2 DEF EndsNow, Answer, NoCall, OverlapInv, TypeOK
  <2>3. CASE Advances(p)
    BY <1>1, <2>3 DEF Advances, OverlapInv, TypeOK, Calls
  <2>. QED BY <2>1, <2>2, <2>3
<1>. QED BY <1>2, <1>3 DEF OthersWait, DetachesAlone

=============================================================================
