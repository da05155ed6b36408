------------------------------ MODULE Controllers ------------------------------
(***************************************************************************)
(* The 25 generated zz_controller.go, the provider config controllers and  *)
(* the two lists in zz_setup.go that start them. A controller is the kinds *)
(* its gate waits for and the kinds it watches; the text of the generated  *)
(* files differs in the kind only.                                         *)
(***************************************************************************)

\* Setup and SetupGated of one kind.
Manages(kind) == [gate |-> {kind}, watches |-> {kind}]

BackupController == Manages("Backup")
BlockstorageController == Manages("Blockstorage")
CloudserverController == Manages("Cloudserver")
ContainerregistryController == Manages("Containerregistry")
DatabaseController == Manages("Database")
DatabasebackupController == Manages("Databasebackup")
DatabasegrantController == Manages("Databasegrant")
DbaasController == Manages("Dbaas")
DbaasuserController == Manages("Dbaasuser")
ElasticipController == Manages("Elasticip")
KaasController == Manages("Kaas")
KeypairController == Manages("Keypair")
KMSController == Manages("KMS")
ProjectController == Manages("Project")
RestoreController == Manages("Restore")
SchedulejobController == Manages("Schedulejob")
SecuritygroupController == Manages("Securitygroup")
SecurityruleController == Manages("Securityrule")
SnapshotController == Manages("Snapshot")
SubnetController == Manages("Subnet")
VPCController == Manages("VPC")
VpcpeeringController == Manages("Vpcpeering")
VpcpeeringrouteController == Manages("Vpcpeeringroute")
VpnrouteController == Manages("Vpnroute")
VpntunnelController == Manages("Vpntunnel")

ConfigKinds == {"ClusterProviderConfig", "ProviderConfig"}

\* Mutant of ProviderConfigController: the gate forgets the usages.
ProviderConfigController_gate ==
  [gate |-> ConfigKinds, watches |-> ConfigKinds \cup {"ProviderConfigUsage"}]

\* Two controllers that are set up together: one per kind of config, and both
\* watch the usages.
ProviderConfigController ==
  [gate |-> ConfigKinds \cup {"ProviderConfigUsage"},
   watches |-> ConfigKinds \cup {"ProviderConfigUsage"}]

Controller ==
  [backup |-> BackupController, blockstorage |-> BlockstorageController,
   cloudserver |-> CloudserverController,
   containerregistry |-> ContainerregistryController,
   database |-> DatabaseController,
   databasebackup |-> DatabasebackupController,
   databasegrant |-> DatabasegrantController, dbaas |-> DbaasController,
   dbaasuser |-> DbaasuserController, elasticip |-> ElasticipController,
   kaas |-> KaasController, keypair |-> KeypairController,
   kms |-> KMSController, project |-> ProjectController,
   restore |-> RestoreController, schedulejob |-> SchedulejobController,
   securitygroup |-> SecuritygroupController,
   securityrule |-> SecurityruleController, snapshot |-> SnapshotController,
   subnet |-> SubnetController, vpc |-> VPCController,
   vpcpeering |-> VpcpeeringController,
   vpcpeeringroute |-> VpcpeeringrouteController,
   vpnroute |-> VpnrouteController, vpntunnel |-> VpntunnelController,
   providerconfig |-> ProviderConfigController]

-------------------------------------------------------------------------------
(* zz_setup.go *)

Setup ==
  {"backup", "blockstorage", "cloudserver", "containerregistry", "database",
   "databasebackup", "databasegrant", "dbaas", "dbaasuser", "elasticip",
   "kaas", "keypair", "kms", "project", "restore", "schedulejob",
   "securitygroup", "securityrule", "snapshot", "subnet", "vpc", "vpcpeering",
   "vpcpeeringroute", "vpnroute", "vpntunnel", "providerconfig"}

\* Mutant of SetupGated: the provider config controllers are not in the list.
SetupGated_managed == Setup \ {"providerconfig"}

SetupGated ==
  {"backup", "blockstorage", "cloudserver", "containerregistry", "database",
   "databasebackup", "databasegrant", "dbaas", "dbaasuser", "elasticip",
   "kaas", "keypair", "kms", "project", "restore", "schedulejob",
   "securitygroup", "securityrule", "snapshot", "subnet", "vpc", "vpcpeering",
   "vpcpeeringroute", "vpnroute", "vpntunnel", "providerconfig"}
===============================================================================
