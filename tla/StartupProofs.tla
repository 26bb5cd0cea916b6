---------------------------- MODULE StartupProofs ----------------------------
(***************************************************************************)
(* The invariants of StartupSafety, for any set of services.               *)
(***************************************************************************)
EXTENDS StartupSafety, TLAPS

\* The parts of StartIInv, and what they are made of.
LEMMA NodeInitially == NodeInit => StartIInv
BY DEF NodeInit, StartInit, StartIInv, StartTypeOK, HistoryTypeOK, LoginIsLast,
       RunningIsVerified, RefusedForCause, UnknownOnlyIfTakenBack, ServiceSeen, Nodes,
       Starting, Confs, StartSteps, CreateSteps, Errors, Commands, NodeAt, InCall, Connectable

\* A new start forgets the process and its history.
LEMMA RestartKeeps == StartIInv /\ Restart /\ Remember => StartIInv'
BY DEF Restart, Remember, StartIInv, StartTypeOK, HistoryTypeOK, LoginIsLast,
       RunningIsVerified, RefusedForCause, UnknownOnlyIfTakenBack, ServiceSeen, Nodes,
       Starting, Confs, StartSteps, CreateSteps, Errors, Commands, NodeAt, InCall, Connectable

\* The history of a step that is no restart.
LEMMA History ==
  ASSUME StartIInv, Remember, ~Restart, services' \subseteq Services
  PROVE  HistoryTypeOK' /\ ever \subseteq ever' /\ always' \subseteq always
BY DEF Remember, StartIInv, HistoryTypeOK

\* A check of the start that succeeds.
LEMMA StartGoesOn ==
  ASSUME StartIInv, Remember, ~Restart, UNCHANGED <<installed, services>>,
         node.pc \in StartSteps, NEW step \in StartSteps, GoTo(step),
         step # "connection" => Connectable(node.conf),
         step \in {"login", "service", "commands"} => Acceptable(node.conf),
         step = "commands" => ServiceSeen'
  PROVE  StartIInv'
<1>1. node \in Nodes /\ node.answer = "none" /\ services \subseteq Services
  BY DEF StartIInv, StartTypeOK
<1>2. HistoryTypeOK'
  BY <1>1, History
<1>3. node' = [node EXCEPT !.pc = step]
  BY DEF GoTo
<1>4. node'.pc = step /\ node'.conf = node.conf /\ node'.answer = "none"
  BY <1>1, <1>3 DEF Nodes
<1>5. StartTypeOK'
  BY <1>1, <1>3 DEF StartIInv, StartTypeOK, Nodes
<1>6. /\ LoginIsLast'
      /\ (NodeAt("commands") => ServiceSeen)'
      /\ (NodeAt("client") => Connectable(node.conf))'
  BY <1>4 DEF LoginIsLast, Acceptable, Connectable, NodeAt
<1>7. RunningIsVerified' /\ RefusedForCause' /\ UnknownOnlyIfTakenBack'
  BY <1>4 DEF RunningIsVerified, RefusedForCause, UnknownOnlyIfTakenBack, NodeAt, InCall,
     StartSteps, CreateSteps
<1>8. QED
  BY <1>2, <1>4, <1>5, <1>6, <1>7 DEF StartIInv, StartSteps, NodeAt

\* A check of the start that fails.
LEMMA StartIsRefused ==
  ASSUME StartIInv, Remember, ~Restart, UNCHANGED <<installed, services>>,
         node.pc \in StartSteps, NEW error \in Errors, Refuse(error), RefusedForCause'
  PROVE  StartIInv'
<1>1. node \in Nodes /\ node.answer = "none" /\ services \subseteq Services
  BY DEF StartIInv, StartTypeOK
<1>2. HistoryTypeOK'
  BY <1>1, History
<1>3. node' = [node EXCEPT !.pc = "refused", !.error = error]
  BY DEF Refuse
<1>4. node'.pc = "refused" /\ node'.answer = "none"
  BY <1>1, <1>3 DEF Nodes
<1>5. StartTypeOK'
  BY <1>1, <1>3 DEF StartIInv, StartTypeOK, Nodes
<1>6. LoginIsLast' /\ RunningIsVerified' /\ UnknownOnlyIfTakenBack'
  BY <1>4 DEF LoginIsLast, RunningIsVerified, UnknownOnlyIfTakenBack, NodeAt, InCall,
     CreateSteps
<1>7. QED
  BY <1>2, <1>4, <1>5, <1>6 DEF StartIInv, StartSteps, NodeAt, CreateSteps

\* Each step of the start keeps the invariant.
LEMMA StartKeeps == StartIInv /\ StartStep /\ ~Restart /\ Remember => StartIInv'
<1> SUFFICES ASSUME StartIInv, StartStep, ~Restart, Remember PROVE StartIInv'
  OBVIOUS
<1>1. /\ UNCHANGED <<installed, services>>
      /\ node \in Nodes /\ services \subseteq Services
      /\ node.pc \in StartSteps
      /\ HistoryTypeOK
      /\ NodeAt("client") => Connectable(node.conf)
      /\ LoginIsLast
      /\ NodeAt("commands") => ServiceSeen
  BY DEF StartIInv, StartTypeOK, StartStep, ReadConnection, GetClientClass, LogIn,
         VerifyDefaultService, FindCommands, NodeAt, StartSteps
<1>2. HistoryTypeOK' /\ ever \subseteq ever' /\ always' \subseteq always
  BY <1>1, History
<1>3. \A step : GoTo(step) => node'.pc = step /\ node'.conf = node.conf
  BY <1>1 DEF GoTo, Nodes
<1>4. \A error : Refuse(error) =>
        node'.pc = "refused" /\ node'.error = error /\ node'.conf = node.conf
  BY <1>1 DEF Refuse, Nodes
<1>5. Refuse("request") => RefusedForCause'
  BY <1>4 DEF RefusedForCause
<1>6. CASE ReadConnection
  <2> DEFINE legal == node.conf.log_level = "legal" /\ node.conf.verify_ssl = "boolean"
  <2>1. CASE ~legal /\ Refuse("YMLFileWrongValue")
    <3>1. node.conf.log_level = "illegal" \/ node.conf.verify_ssl = "other"
      BY <1>1, <2>1 DEF Nodes, Confs
    <3>2. RefusedForCause'
      BY <1>4, <2>1, <3>1 DEF RefusedForCause
    <3>3. QED
      BY <1>1, <2>1, <3>2, StartIsRefused DEF Errors
  <2>2. CASE legal /\ ~node.conf.credentials /\ Refuse("KeyError")
    <3>1. RefusedForCause'
      BY <1>4, <2>2 DEF RefusedForCause
    <3>2. QED
      BY <1>1, <2>2, <3>1, StartIsRefused DEF Errors
  <2>3. CASE legal /\ node.conf.credentials /\ GoTo("client")
    BY <1>1, <2>3, StartGoesOn DEF StartSteps, Connectable
  <2>4. QED
    BY <1>6, <2>1, <2>2, <2>3 DEF ReadConnection
<1>7. CASE GetClientClass
  <2> DEFINE type == node.conf.management_type
  <2>1. CASE type = "unknown" /\ Refuse("IBMDriverNoClientModuleFound")
    <3>1. RefusedForCause'
      BY <1>4, <2>1 DEF RefusedForCause
    <3>2. QED
      BY <1>1, <2>1, <3>1, StartIsRefused DEF Errors
  <2>2. CASE type = "plugin" /\ Refuse("AttributeError")
    <3>1. RefusedForCause'
      BY <1>4, <2>2 DEF RefusedForCause
    <3>2. QED
      BY <1>1, <2>2, <3>1, StartIsRefused DEF Errors
  <2>3. CASE type = "scbe" /\ GoTo("login")
    <3>1. Acceptable(node.conf)
      BY <1>1, <1>7, <2>3 DEF Acceptable, GetClientClass
    <3>2. QED
      BY <1>1, <2>3, <3>1, StartGoesOn DEF StartSteps, Acceptable
  <2>4. QED
    BY <1>7, <2>1, <2>2, <2>3 DEF GetClientClass
<1>8. CASE LogIn
  <2>1. Acceptable(node.conf)
    BY <1>1, <1>8 DEF LoginIsLast, LogIn, NodeAt
  <2>2. CASE GoTo("service")
    BY <1>1, <2>1, <2>2, StartGoesOn DEF StartSteps, Acceptable
  <2>3. CASE Refuse("request")
    BY <1>1, <1>5, <2>3, StartIsRefused DEF Errors
  <2>4. QED
    BY <1>8, <2>2, <2>3 DEF LogIn
<1>9. CASE VerifyDefaultService
  <2> DEFINE name == node.conf.default_service
  <2>1. Acceptable(node.conf)
    BY <1>1, <1>9 DEF LoginIsLast, VerifyDefaultService, NodeAt
  <2>2. CASE Refuse("request")
    BY <1>1, <1>5, <2>2, StartIsRefused DEF Errors
  <2>3. CASE /\ IF name = DEFAULT_SERVICE THEN services # {} ELSE name \in services
             /\ GoTo("commands")
    <3>1. ServiceSeen'
      BY <1>1, <1>2, <1>3, <2>3 DEF ServiceSeen, HistoryTypeOK
    <3>2. QED
      BY <1>1, <2>1, <2>3, <3>1, StartGoesOn DEF StartSteps, Acceptable
  <2>4. CASE name = DEFAULT_SERVICE /\ services = {} /\ Refuse("SCBENoServicesExist")
    <3>1. RefusedForCause'
      BY <1>1, <1>2, <1>4, <2>4 DEF RefusedForCause, HistoryTypeOK
    <3>2. QED
      BY <1>1, <2>4, <3>1, StartIsRefused DEF Errors
  <2>5. CASE /\ name # DEFAULT_SERVICE /\ name \notin services
             /\ Refuse("StoragePoolNotExist")
    <3>1. RefusedForCause'
      BY <1>1, <1>2, <1>4, <2>5 DEF RefusedForCause, HistoryTypeOK
    <3>2. QED
      BY <1>1, <2>5, <3>1, StartIsRefused DEF Errors
  <2>6. QED
    BY <1>9, <2>2, <2>3, <2>4, <2>5 DEF VerifyDefaultService
<1>10. CASE FindCommands
  <2>1. CASE RescanCmd = {} /\ Refuse("RescanCmdNotFound")
    <3>1. RefusedForCause'
      BY <1>1, <1>4, <2>1 DEF RefusedForCause, RescanCmd
    <3>2. QED
      BY <1>1, <2>1, <3>1, StartIsRefused DEF Errors
  <2>2. CASE "multipath" \notin installed /\ Refuse("MultipathCmdNotFound")
    <3>1. RefusedForCause'
      BY <1>1, <1>4, <2>2 DEF RefusedForCause
    <3>2. QED
      BY <1>1, <2>2, <3>1, StartIsRefused DEF Errors
  <2>3. CASE /\ RescanCmd # {} /\ "multipath" \in installed
             /\ node' = [node EXCEPT !.pc = "running",
                   !.cmds = RescanCmd \cup (installed \cap {"iscsiadm", "multipath"})]
    <3> DEFINE cmds == RescanCmd \cup (installed \cap {"iscsiadm", "multipath"})
    <3>1. /\ node'.pc = "running" /\ node'.conf = node.conf
          /\ node'.answer = "none" /\ node'.cmds = cmds
      BY <1>1, <2>3 DEF Nodes, StartIInv
    <3>2. \E c \in installed \ {"iscsiadm", "multipath"} : RescanCmd = {c}
      BY <2>3 DEF RescanCmd
    <3>3. cmds \subseteq installed /\ "multipath" \in cmds
      BY <2>3, <3>2
    <3>4. \E c \in cmds : cmds \ {"iscsiadm", "multipath"} = {c}
      BY <3>2
    <3>5. Acceptable(node.conf)
      BY <1>1, <1>10 DEF LoginIsLast, FindCommands, NodeAt
    <3>6. ServiceSeen'
      BY <1>1, <1>2, <1>10, <3>1 DEF ServiceSeen, FindCommands
    <3>7. RunningIsVerified'
      BY <1>1, <3>1, <3>3, <3>4, <3>5, <3>6 DEF RunningIsVerified, Acceptable, Connectable
    <3>8. StartTypeOK'
      BY <1>1, <2>3, <3>3 DEF StartIInv, StartTypeOK, Nodes
    <3>9. QED
      BY <1>2, <3>1, <3>7, <3>8 DEF StartIInv, LoginIsLast, RefusedForCause,
         UnknownOnlyIfTakenBack, NodeAt, StartSteps
  <2>4. QED
    BY <1>10, <2>1, <2>2, <2>3 DEF FindCommands
<1>11. QED
  BY <1>6, <1>7, <1>8, <1>9, <1>10 DEF StartStep

\* Each step of create_volume keeps the invariant.
LEMMA CreateKeeps ==
  StartIInv /\ (BeginCreate \/ CreateStep) /\ ~Restart /\ Remember => StartIInv'
<1> SUFFICES ASSUME StartIInv, BeginCreate \/ CreateStep, ~Restart, Remember
             PROVE  StartIInv'
  OBVIOUS
<1>1. /\ UNCHANGED <<installed, services>>
      /\ node \in Nodes /\ services \subseteq Services /\ installed \subseteq Commands
      /\ HistoryTypeOK
  BY DEF StartIInv, StartTypeOK, BeginCreate, CreateStep, CheckProfile, ReadProfileId,
         PostInService
<1>2. HistoryTypeOK' /\ ever \subseteq ever' /\ always' \subseteq always
  BY <1>1, History
<1>3. RunningIsVerified /\ node.pc \in {"running"} \cup CreateSteps
  BY DEF StartIInv, BeginCreate, CreateStep, CheckProfile, ReadProfileId, PostInService,
         NodeAt, CreateSteps
<1>4. CASE BeginCreate
  BY <1>1, <1>2, <1>3, <1>4
  DEF StartIInv, StartTypeOK, LoginIsLast, RunningIsVerified, RefusedForCause,
      UnknownOnlyIfTakenBack, ServiceSeen, Nodes, StartSteps, CreateSteps, NodeAt, InCall,
      BeginCreate, DefaultProfile, Confs
<1>5. CASE CreateStep
  <2>1. /\ UnknownOnlyIfTakenBack
        /\ node.pc \in {"read_id", "post"} => node.profile \in ever
    BY DEF StartIInv
  <2>2. CASE \E step \in {"read_id", "post"} : GoTo(step) /\ node.profile \in services
    <3>1. /\ node'.pc \in {"read_id", "post"}
          /\ node'.conf = node.conf /\ node'.answer = node.answer
          /\ node'.cmds = node.cmds /\ node'.profile = node.profile
      BY <1>1, <2>2 DEF GoTo, Nodes
    <3>2. StartTypeOK'
      BY <1>1, <2>2 DEF GoTo, StartTypeOK, Nodes, CreateSteps
    <3>3. UnknownOnlyIfTakenBack' /\ node'.profile \in ever'
      BY <1>1, <1>2, <2>1, <2>2, <3>1 DEF UnknownOnlyIfTakenBack, HistoryTypeOK
    <3>4. RunningIsVerified'
      BY <1>1, <1>2, <1>3, <3>1 DEF RunningIsVerified, ServiceSeen, InCall, NodeAt
    <3>5. QED
      BY <1>2, <3>1, <3>2, <3>3, <3>4
      DEF StartIInv, LoginIsLast, RefusedForCause, NodeAt, StartSteps
  <2>3. CASE \E answer \in {"ok", "error", "CreateVolumeError", "IndexError"} :
               /\ Return(answer)
               /\ answer \in {"CreateVolumeError", "IndexError"}
                    => node.profile \notin services
               /\ answer = "IndexError" => NodeAt("read_id")
    <3>1. PICK answer \in {"ok", "error", "CreateVolumeError", "IndexError"} :
               /\ Return(answer)
               /\ answer \in {"CreateVolumeError", "IndexError"}
                    => node.profile \notin services
               /\ answer = "IndexError" => NodeAt("read_id")
      BY <2>3
    <3>2. /\ node'.pc = "running" /\ node'.answer = answer
          /\ node'.conf = node.conf
          /\ node'.cmds = node.cmds /\ node'.profile = node.profile
      BY <1>1, <3>1 DEF Return, Nodes
    <3>3. StartTypeOK'
      BY <1>1, <3>1 DEF Return, StartTypeOK, Nodes
    <3>4. UnknownOnlyIfTakenBack'
      BY <1>1, <1>2, <1>3, <2>1, <3>1, <3>2
      DEF UnknownOnlyIfTakenBack, HistoryTypeOK, RunningIsVerified, ServiceSeen, InCall,
          NodeAt
    <3>5. RunningIsVerified'
      BY <1>1, <1>2, <1>3, <3>2 DEF RunningIsVerified, ServiceSeen, InCall, NodeAt
    <3>6. QED
      BY <1>2, <3>2, <3>3, <3>4, <3>5
      DEF StartIInv, LoginIsLast, RefusedForCause, NodeAt, StartSteps
  <2>4. QED
    BY <1>5, <2>2, <2>3 DEF CreateStep, CheckProfile, ReadProfileId, PostInService
<1>6. QED
  BY <1>4, <1>5

\* The services may change at any moment.
LEMMA ServicesKeep ==
  StartIInv /\ (DelegateService \/ TakeServiceBack) /\ ~Restart /\ Remember => StartIInv'
<1> SUFFICES ASSUME StartIInv, DelegateService \/ TakeServiceBack, ~Restart, Remember
             PROVE  StartIInv'
  OBVIOUS
<1>1. UNCHANGED <<installed, node>> /\ services' \subseteq Services
  BY DEF StartIInv, StartTypeOK, DelegateService, TakeServiceBack
<1>2. HistoryTypeOK' /\ ever \subseteq ever' /\ always' \subseteq always
  BY <1>1, History
<1>3. QED
  BY <1>1, <1>2 DEF StartIInv, StartTypeOK, LoginIsLast, RunningIsVerified,
     RefusedForCause, UnknownOnlyIfTakenBack, ServiceSeen, NodeAt, InCall

\* StartIInv is an invariant: of a node that starts and creates volumes while its
\* services are delegated and taken back.
THEOREM NodeInvariance == NodeSpec => []StartIInv
<1>1. NodeInit => StartIInv
  BY NodeInitially
<1>2. StartIInv /\ [NodeNext]_nodeVars => StartIInv'
  <2>1. CASE UNCHANGED nodeVars
    BY <2>1 DEF nodeVars, startVars, StartIInv, StartTypeOK, HistoryTypeOK, LoginIsLast,
       RunningIsVerified, RefusedForCause, UnknownOnlyIfTakenBack, ServiceSeen, NodeAt,
       InCall
  <2>2. CASE NodeNext
    BY <2>2, RestartKeeps, StartKeeps, CreateKeeps, ServicesKeep
    DEF NodeNext, StartNext, Administer
  <2>3. QED
    BY <2>1, <2>2
<1>3. QED
  BY <1>1, <1>2, PTL DEF NodeSpec

\* A node that runs has been started as get_ibm_storage_backend_by_conf promises.
THEOREM RunningNodes == NodeSpec => []RunningIsVerified
<1>1. StartIInv => RunningIsVerified
  BY DEF StartIInv
<1>2. QED
  BY <1>1, NodeInvariance, PTL

\* No login is tried with a configuration that get_connection_info_from_conf or the
\* factory refuses.
THEOREM NoRashLogin == NodeSpec => []LoginIsLast
<1>1. StartIInv => LoginIsLast
  BY DEF StartIInv
<1>2. QED
  BY <1>1, NodeInvariance, PTL

\* Each exception of a start names a mistake that is there.
THEOREM RefusalsAreTrue == NodeSpec => []RefusedForCause
<1>1. StartIInv => RefusedForCause
  BY DEF StartIInv
<1>2. QED
  BY <1>1, NodeInvariance, PTL

\* create_volume loses a service that it has seen only when the service is taken back.
THEOREM ServicesStayKnown == NodeSpec => []UnknownOnlyIfTakenBack
<1>1. StartIInv => UnknownOnlyIfTakenBack
  BY DEF StartIInv
<1>2. QED
  BY <1>1, NodeInvariance, PTL

=============================================================================
