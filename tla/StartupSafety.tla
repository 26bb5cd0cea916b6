---------------------------- MODULE StartupSafety ----------------------------
(***************************************************************************)
(* What a start that succeeds guarantees to later calls, and what a start  *)
(* that is refused tells.  Two history variables remember which services   *)
(* were delegated since the start.                                         *)
(***************************************************************************)
EXTENDS Startup

VARIABLES ever,     \* the services delegated at some moment since the start
          always    \* the services delegated at every moment since the start

nodeVars == <<startVars, ever, always>>

Remember ==
  IF Restart THEN ever' = services' /\ always' = services'
  ELSE ever' = ever \cup services' /\ always' = always \cap services'

NodeInit == StartInit /\ ever = services /\ always = services
NodeNext == StartNext /\ Remember
NodeSpec == NodeInit /\ [][NodeNext]_nodeVars

\* The requests of the driver return (RestClient), so the node takes its next step.
FairNodeSpec == NodeSpec /\ WF_nodeVars((StartStep \/ CreateStep) /\ Remember)

-----------------------------------------------------------------------------

Connectable(conf) ==
  conf.log_level = "legal" /\ conf.verify_ssl = "boolean" /\ conf.credentials

Acceptable(conf) == Connectable(conf) /\ conf.management_type = "scbe"

InCall == node.pc \in CreateSteps

\* The default service (or, for -DEFAULT-, some service) was delegated.
ServiceSeen ==
  IF node.conf.default_service = DEFAULT_SERVICE THEN ever # {}
  ELSE node.conf.default_service \in ever

\* A node that runs has read a configuration without a mistake, has seen its default
\* service since its start, and can rescan: it has
\* one command for the SCSI bus and multipath.
RunningIsVerified ==
  NodeAt("running") \/ InCall =>
    /\ Acceptable(node.conf)
    /\ ServiceSeen
    /\ node.cmds \subseteq installed
    /\ "multipath" \in node.cmds
    /\ \E c \in node.cmds : node.cmds \ {"iscsiadm", "multipath"} = {c}

\* The password is sent to no server before all that can be checked without a server has
\* been found right: the log level, the test of the server's certificate, the
\* credentials and the kind of management.  (The default service is verified after the
\* login, since the list of services takes one.)
LoginIsLast ==
  node.pc \in {"login", "service", "commands"} => Acceptable(node.conf)

\* A start that is refused tells what is wrong: a good configuration is refused for
\* no mistake of its own, and for no service that was there all the time.
RefusedForCause ==
  NodeAt("refused") =>
    CASE node.error = "YMLFileWrongValue" ->
           node.conf.log_level = "illegal" \/ node.conf.verify_ssl = "other"
      [] node.error = "KeyError" -> ~node.conf.credentials
      [] node.error \in {"IBMDriverNoClientModuleFound", "AttributeError"} ->
           node.conf.management_type # "scbe"
      [] node.error = "SCBENoServicesExist" -> always = {}
      [] node.error = "StoragePoolNotExist" -> node.conf.default_service \notin always
      [] node.error = "RescanCmdNotFound" ->
           installed \cap {"rescan-scsi-bus", "rescan-scsi-bus.sh"} = {}
      [] node.error = "MultipathCmdNotFound" -> "multipath" \notin installed
      [] OTHER -> node.error = "request"

\* create_volume finds the default service of a node that has started, unless it was
\* taken back since; and the list of services is found empty at its second reading
\* (which no code expects) only if the service was taken back between the two.
UnknownOnlyIfTakenBack ==
  (\/ node.answer = "IndexError"
   \/ /\ node.answer = "CreateVolumeError"
      /\ node.profile = node.conf.default_service
      /\ node.profile # DEFAULT_SERVICE)
  => node.profile \in ever \ always

\* Every start and every call of create_volume ends.
NodeSettles == node.pc \in StartSteps \cup CreateSteps ~> node.pc \in {"refused", "running"}

-----------------------------------------------------------------------------
(* What the documentation says                                              *)

\* verify_default_service_exists accepts -DEFAULT- if a service is available, so
\* create_volume does not fail for want of a service while all stay available.
DefaultServiceServes ==
  node.answer = "CreateVolumeError" /\ node.profile = DEFAULT_SERVICE => ever # always

-----------------------------------------------------------------------------
(* The inductive invariant                                                  *)

HistoryTypeOK ==
  /\ always \subseteq services
  /\ services \subseteq ever
  /\ ever \subseteq Services

\* The inductive invariant: what holds on the way to RunningIsVerified and to the
\* answers of UnknownOnlyIfTakenBack.
StartIInv ==
  /\ StartTypeOK
  /\ HistoryTypeOK
  /\ NodeAt("client") => Connectable(node.conf)
  /\ LoginIsLast
  /\ NodeAt("commands") => ServiceSeen
  /\ RunningIsVerified
  /\ node.pc \in {"read_id", "post"} => node.profile \in ever
  /\ RefusedForCause
  /\ UnknownOnlyIfTakenBack
  /\ node.pc \in StartSteps => node.answer = "none"

=============================================================================
