------------------------------- MODULE Startup -------------------------------
(***************************************************************************)
(* A node of the cluster from its start to its calls of create_volume:     *)
(* get_ibm_storage_backend_by_conf, which reads agent.yml, logs in to      *)
(* SCBE, verifies the default service and looks for the commands it will   *)
(* run; then create_volume and create_volume_with_profile, as far as they  *)
(* choose the service of the new volume.                                   *)
(*                                                                         *)
(* The administrator may delegate services to the Flocker interface of     *)
(* SCBE, or take them back, at any time.                                   *)
(***************************************************************************)
EXTENDS Naturals

CONSTANTS Services,          \* names of SCBE services
          DEFAULT_SERVICE,   \* "-DEFAULT-", the name of no service
          NoService          \* None

ASSUME ServiceAssumption ==
  /\ DEFAULT_SERVICE \notin Services \cup {NoService}
  /\ NoService \notin Services

VARIABLES installed,   \* the commands on the PATH of the host
          services,    \* the services delegated to the Flocker interface
          node         \* the process of the node

startVars == <<installed, services, node>>

Commands == {"rescan-scsi-bus", "rescan-scsi-bus.sh", "iscsiadm", "multipath"}

\* What agent.yml says, as far as the driver distinguishes it.  A value that may be
\* left out counts as legal when it is.
Confs == [log_level       : {"legal", "illegal"},
          verify_ssl      : {"boolean", "other"},
          credentials     : BOOLEAN,    \* management_ip, username and password
          management_type : {"scbe",      \* in small or capital letters
                             "plugin",    \* its module has a class of another name
                             "unknown"},  \* it has no module
          default_service : Services \cup {DEFAULT_SERVICE, NoService}]

StartSteps  == {"connection", "client", "login", "service", "commands"}
CreateSteps == {"check", "read_id", "post"}

Errors == {"none", "request", "YMLFileWrongValue", "KeyError",
           "IBMDriverNoClientModuleFound", "AttributeError", "SCBENoServicesExist",
           "StoragePoolNotExist", "RescanCmdNotFound", "MultipathCmdNotFound"}

Nodes == [pc      : StartSteps \cup CreateSteps \cup {"refused", "running"},
          conf    : Confs,
          error   : Errors,               \* why the start was refused
          cmds    : SUBSET Commands,      \* the commands the node will run
          profile : Services \cup {DEFAULT_SERVICE, NoService},
          answer  : {"none", "ok", "error", "CreateVolumeError", "IndexError"}]

StartTypeOK ==
  /\ installed \subseteq Commands
  /\ services \subseteq Services
  /\ node \in Nodes

Starting(conf) == [pc |-> "connection", conf |-> conf, error |-> "none", cmds |-> {},
                   profile |-> NoService, answer |-> "none"]

\* api_factory gets what agent.yml says; Flocker is told the mandatory parameters
\* (FLOCKER_BACKEND), but the tests call without it, so that they may be missing.
StartInit ==
  /\ installed \in SUBSET Commands
  /\ services \in SUBSET Services
  /\ \E conf \in Confs : node = Starting(conf)

-----------------------------------------------------------------------------
(* The start                                                                *)

NodeAt(step) == node.pc = step

GoTo(step)    == node' = [node EXCEPT !.pc = step]
Refuse(error) == node' = [node EXCEPT !.pc = "refused", !.error = error]

\* Mutant: a verify_ssl_certificate that is no Boolean is taken as it is.
ReadConnectionUntyped ==
  /\ NodeAt("connection")
  /\ \/ node.conf.log_level = "illegal" /\ Refuse("YMLFileWrongValue")
     \/ /\ node.conf.log_level = "legal"
        /\ IF node.conf.credentials THEN GoTo("client") ELSE Refuse("KeyError")
  /\ UNCHANGED <<installed, services>>

\* get_connection_info_from_conf
ReadConnection ==
  /\ NodeAt("connection")
  /\ LET legal == node.conf.log_level = "legal" /\ node.conf.verify_ssl = "boolean" IN
       \/ ~legal /\ Refuse("YMLFileWrongValue")
       \/ legal /\ ~node.conf.credentials /\ Refuse("KeyError")
       \/ legal /\ node.conf.credentials /\ GoTo("client")
  /\ UNCHANGED <<installed, services>>

\* The factory: get_module, and get_class_dynamic, which looks for the class
\* IBM<TYPE>ClientAPI.
GetClientClass ==
  /\ NodeAt("client")
  /\ LET type == node.conf.management_type IN
       \/ type = "unknown" /\ Refuse("IBMDriverNoClientModuleFound")
       \/ type = "plugin" /\ Refuse("AttributeError")
       \/ type = "scbe" /\ GoTo("login")
  /\ UNCHANGED <<installed, services>>

\* Mutant: a start whose login fails begins again.
LogInAgain ==
  /\ NodeAt("login")
  /\ GoTo("service") \/ GoTo("connection")
  /\ UNCHANGED <<installed, services>>

\* The constructor of the client, which logs in.
LogIn ==
  /\ NodeAt("login")
  /\ GoTo("service") \/ Refuse("request")
  /\ UNCHANGED <<installed, services>>

\* Mutant: any default service will do if there is a service at all.
VerifySomeService ==
  /\ NodeAt("service")
  /\ \/ Refuse("request")
     \/ services # {} /\ GoTo("commands")
     \/ services = {} /\ Refuse("SCBENoServicesExist")
  /\ UNCHANGED <<installed, services>>

\* verify_default_service_exists
VerifyDefaultService ==
  /\ NodeAt("service")
  /\ LET name == node.conf.default_service IN
       \/ Refuse("request")
       \/ name = DEFAULT_SERVICE /\ services # {} /\ GoTo("commands")
       \/ name = DEFAULT_SERVICE /\ services = {} /\ Refuse("SCBENoServicesExist")
       \/ name # DEFAULT_SERVICE /\ name \in services /\ GoTo("commands")
       \/ name # DEFAULT_SERVICE /\ name \notin services /\ Refuse("StoragePoolNotExist")
  /\ UNCHANGED <<installed, services>>

\* _find_rescan_cmd: the first of RESCAN_CMDS that is installed.
RescanCmd ==
  IF "rescan-scsi-bus" \in installed THEN {"rescan-scsi-bus"}
  ELSE installed \cap {"rescan-scsi-bus.sh"}

\* Mutant: a missing multipath command is only logged, like a missing iscsiadm.
FindCommandsAndWarn ==
  /\ NodeAt("commands")
  /\ \/ RescanCmd = {} /\ Refuse("RescanCmdNotFound")
     \/ /\ RescanCmd # {}
        /\ node' = [node EXCEPT !.pc = "running",
              !.cmds = RescanCmd \cup (installed \cap {"iscsiadm", "multipath"})]
  /\ UNCHANGED <<installed, services>>

\* Mutant: iscsiadm is required, like multipath.
FindAllCommands ==
  /\ NodeAt("commands")
  /\ \/ RescanCmd = {} /\ Refuse("RescanCmdNotFound")
     \/ /\ RescanCmd # {} /\ ~({"iscsiadm", "multipath"} \subseteq installed)
        /\ Refuse("MultipathCmdNotFound")
     \/ /\ RescanCmd # {} /\ {"iscsiadm", "multipath"} \subseteq installed
        /\ node' = [node EXCEPT !.pc = "running",
                                !.cmds = RescanCmd \cup {"iscsiadm", "multipath"}]
  /\ UNCHANGED <<installed, services>>

\* The constructor of HostActions; without iscsiadm it only warns.
FindCommands ==
  /\ NodeAt("commands")
  /\ \/ RescanCmd = {} /\ Refuse("RescanCmdNotFound")
     \/ RescanCmd # {} /\ "multipath" \notin installed /\ Refuse("MultipathCmdNotFound")
     \/ /\ RescanCmd # {} /\ "multipath" \in installed
        /\ node' = [node EXCEPT !.pc = "running",
              !.cmds = RescanCmd \cup (installed \cap {"iscsiadm", "multipath"})]
  /\ UNCHANGED <<installed, services>>

-----------------------------------------------------------------------------
(* create_volume                                                            *)

\* handle_default_profile compares with `is`: a value read from agent.yml is never
\* the object DEFAULT_SERVICE, so it returns what agent.yml says.
DefaultProfile == node.conf.default_service

\* create_volume and, with any profile, create_volume_with_profile.
BeginCreate ==
  /\ NodeAt("running")
  /\ \E profile \in Services \cup {DefaultProfile} :
       node' = [node EXCEPT !.pc = "check", !.profile = profile, !.answer = "none"]
  /\ UNCHANGED <<installed, services>>

Return(answer) == node' = [node EXCEPT !.pc = "running", !.answer = answer]

\* Mutant: the name of the service is compared without its case, or in part.
CheckServiceLoosely ==
  /\ NodeAt("check")
  /\ \/ Return("error")
     \/ services # {} /\ GoTo("read_id")
     \/ services = {} /\ Return("CreateVolumeError")
  /\ UNCHANGED <<installed, services>>

\* resource_exists
CheckProfile ==
  /\ NodeAt("check")
  /\ \/ Return("error")
     \/ node.profile \in services /\ GoTo("read_id")
     \/ node.profile \notin services /\ Return("CreateVolumeError")
  /\ UNCHANGED <<installed, services>>

\* _service_list(name=resource)[0]['id']
ReadProfileId ==
  /\ NodeAt("read_id")
  /\ \/ Return("error")
     \/ node.profile \in services /\ GoTo("post")
     \/ node.profile \notin services /\ Return("IndexError")
  /\ UNCHANGED <<installed, services>>

\* The POST: SCBE creates no volume in a service that was taken back.
PostInService ==
  /\ NodeAt("post")
  /\ \/ Return("error")
     \/ node.profile \in services /\ Return("ok")
  /\ UNCHANGED <<installed, services>>

-----------------------------------------------------------------------------
(* The administrator                                                        *)

\* The agent is started again.  Nothing outlives the process: the start of one that
\* died in a call, or after agent.yml was edited, is one of the initial states.
Restart ==
  /\ node.pc \in {"refused", "running"}
  /\ node' = Starting(node.conf)
  /\ UNCHANGED <<installed, services>>

DelegateService ==
  /\ \E s \in Services \ services : services' = services \cup {s}
  /\ UNCHANGED <<installed, node>>

TakeServiceBack ==
  /\ \E s \in services : services' = services \ {s}
  /\ UNCHANGED <<installed, node>>

-----------------------------------------------------------------------------

StartStep ==
  \/ ReadConnection \/ GetClientClass \/ LogIn \/ VerifyDefaultService \/ FindCommands

CreateStep == CheckProfile \/ ReadProfileId \/ PostInService

Administer == Restart \/ DelegateService \/ TakeServiceBack

StartNext == StartStep \/ BeginCreate \/ CreateStep \/ Administer

=============================================================================
