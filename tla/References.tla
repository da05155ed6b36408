------------------------------- MODULE References -------------------------------
(***************************************************************************)
(* Which fields of which kinds are references, twice: as                   *)
(* config/namespaced/arubacloud/configure.go declares them, and as the     *)
(* ResolveReferences methods generated from it resolve them, in that order *)
(* (first for spec.forProvider, then all over again for spec.initProvider).*)
(* A reference is <<field, kind, extractor>>: the Terraform field, the     *)
(* kind it refers to, and what of the referenced object the field gets,    *)
(* its external name ("id"), its status.atProvider.uri ("uri") or its      *)
(* spec.forProvider.name ("name").                                         *)
(***************************************************************************)
EXTENDS ExternalName

ByID(field, kind)   == <<field, kind, "id">>
ByURI(field, kind)  == <<field, kind, "uri">>
ByName(field, kind) == <<field, kind, "name">>

Project == ByID("project_id", "project")
Vpc     == ByID("vpc_id", "vpc")
Dbaas   == ByID("dbaas_id", "dbaas")

-------------------------------------------------------------------------------
(* configure.go *)

CloudserverConfigured ==
  {Project,
   ByURI("network.vpc_uri_ref", "vpc"),
   ByURI("network.subnet_uri_refs", "subnet"),
   ByURI("network.securitygroup_uri_refs", "securitygroup"),
   ByURI("network.elastic_ip_uri_ref", "elasticip"),
   ByURI("settings.key_pair_uri_ref", "keypair"),
   ByURI("storage.boot_volume_uri_ref", "blockstorage")}

KaasConfigured ==
  {Project,
   ByURI("network.vpc_uri_ref", "vpc"),
   ByURI("network.subnet_uri_ref", "subnet"),
   ByName("network.security_group_name", "securitygroup")}

ContainerregistryConfigured ==
  {Project,
   ByURI("network.public_ip_uri_ref", "elasticip"),
   ByURI("network.vpc_uri_ref", "vpc"),
   ByURI("network.subnet_uri_ref", "subnet"),
   ByURI("network.security_group_uri_ref", "securitygroup"),
   ByURI("storage.block_storage_uri_ref", "blockstorage")}

DbaasConfigured ==
  {Project,
   ByURI("network.vpc_uri_ref", "vpc"),
   ByURI("network.subnet_uri_ref", "subnet"),
   ByURI("network.security_group_uri_ref", "securitygroup"),
   ByURI("network.elastic_ip_uri_ref", "elasticip")}

VpntunnelConfigured ==
  {Project,
   ByID("properties.ip_configurations.vpc.id", "vpc"),
   ByID("properties.ip_configurations.subnet.id", "subnet"),
   ByID("properties.ip_configurations.public_ip.id", "elasticip")}

Configured ==
  [project       |-> {},
   vpc           |-> {Project},
   subnet        |-> {Project, Vpc},
   keypair       |-> {Project},
   elasticip     |-> {Project},
   blockstorage  |-> {Project},
   cloudserver   |-> CloudserverConfigured,
   snapshot      |-> {Project, ByURI("volume_uri", "blockstorage")},
   backup        |-> {Project, ByID("volume_id", "blockstorage")},
   restore       |-> {Project, ByID("backup_id", "backup"),
                      ByID("volume_id", "blockstorage")},
   securitygroup |-> {Project, Vpc},
   securityrule  |-> {Project, Vpc, ByID("security_group_id", "securitygroup")},
   vpcpeering    |-> {Project, Vpc, ByID("peer_vpc", "vpc")},
   vpcpeeringroute |-> {Project, Vpc, ByID("vpc_peering_id", "vpcpeering")},
   vpntunnel     |-> VpntunnelConfigured,
   vpnroute      |-> {Project, ByID("vpn_tunnel_id", "vpntunnel")},
   kaas          |-> KaasConfigured,
   containerregistry |-> ContainerregistryConfigured,
   dbaas         |-> DbaasConfigured,
   database      |-> {Project, Dbaas},
   dbaasuser     |-> {Project, Dbaas},
   databasegrant |-> {Project, Dbaas, ByID("database", "database"),
                      ByID("user_id", "dbaasuser")},
   databasebackup |-> {Project, Dbaas, ByID("database", "database")},
   kms           |-> {Project},
   schedulejob   |-> {Project}]

-------------------------------------------------------------------------------
(* zz_generated.resolvers.go: the calls in their order *)

\* Mutants: generated before the extractor of a field was declared; the extractor
\* of a URI on a path parent.
KaasRefs_stale ==
  <<ByName("network.security_group_name", "securitygroup"),
    ByID("network.subnet_uri_ref", "subnet"),
    ByURI("network.vpc_uri_ref", "vpc"),
    Project>>
SubnetRefs_uri == <<Project, ByURI("vpc_id", "vpc")>>

BackupRefs        == <<Project, ByID("volume_id", "blockstorage")>>
BlockstorageRefs  == <<Project>>
CloudserverRefs ==
  <<ByURI("network.elastic_ip_uri_ref", "elasticip"),
    ByURI("network.securitygroup_uri_refs", "securitygroup"),
    ByURI("network.subnet_uri_refs", "subnet"),
    ByURI("network.vpc_uri_ref", "vpc"),
    Project,
    ByURI("settings.key_pair_uri_ref", "keypair"),
    ByURI("storage.boot_volume_uri_ref", "blockstorage")>>
ContainerregistryRefs ==
  <<ByURI("network.public_ip_uri_ref", "elasticip"),
    ByURI("network.security_group_uri_ref", "securitygroup"),
    ByURI("network.subnet_uri_ref", "subnet"),
    ByURI("network.vpc_uri_ref", "vpc"),
    Project,
    ByURI("storage.block_storage_uri_ref", "blockstorage")>>
DatabaseRefs       == <<Dbaas, Project>>
DatabasebackupRefs == <<ByID("database", "database"), Dbaas, Project>>
DatabasegrantRefs ==
  <<ByID("database", "database"), Dbaas, Project, ByID("user_id", "dbaasuser")>>
DbaasRefs ==
  <<ByURI("network.elastic_ip_uri_ref", "elasticip"),
    ByURI("network.security_group_uri_ref", "securitygroup"),
    ByURI("network.subnet_uri_ref", "subnet"),
    ByURI("network.vpc_uri_ref", "vpc"),
    Project>>
DbaasuserRefs     == <<Dbaas, Project>>
ElasticipRefs     == <<Project>>
KmsRefs           == <<Project>>
KaasRefs ==
  <<ByName("network.security_group_name", "securitygroup"),
    ByURI("network.subnet_uri_ref", "subnet"),
    ByURI("network.vpc_uri_ref", "vpc"),
    Project>>
KeypairRefs       == <<Project>>
RestoreRefs ==
  <<ByID("backup_id", "backup"), Project, ByID("volume_id", "blockstorage")>>
SchedulejobRefs   == <<Project>>
SecuritygroupRefs == <<Project, Vpc>>
SecurityruleRefs ==
  <<Project, ByID("security_group_id", "securitygroup"), Vpc>>
SnapshotRefs      == <<Project, ByURI("volume_uri", "blockstorage")>>
SubnetRefs        == <<Project, Vpc>>
VpcRefs           == <<Project>>
VpcpeeringRefs    == <<ByID("peer_vpc", "vpc"), Project, Vpc>>
VpcpeeringrouteRefs ==
  <<Project, Vpc, ByID("vpc_peering_id", "vpcpeering")>>
VpnrouteRefs      == <<Project, ByID("vpn_tunnel_id", "vpntunnel")>>
VpntunnelRefs ==
  <<Project,
    ByID("properties.ip_configurations.public_ip.id", "elasticip"),
    ByID("properties.ip_configurations.subnet.id", "subnet"),
    ByID("properties.ip_configurations.vpc.id", "vpc")>>

\* A project refers to nothing and has no such method.
Resolver ==
  [project       |-> <<>>,
   vpc           |-> VpcRefs,           subnet          |-> SubnetRefs,
   keypair       |-> KeypairRefs,       elasticip       |-> ElasticipRefs,
   blockstorage  |-> BlockstorageRefs,  cloudserver     |-> CloudserverRefs,
   snapshot      |-> SnapshotRefs,      backup          |-> BackupRefs,
   restore       |-> RestoreRefs,       securitygroup   |-> SecuritygroupRefs,
   securityrule  |-> SecurityruleRefs,  vpcpeering      |-> VpcpeeringRefs,
   vpntunnel     |-> VpntunnelRefs,     vpcpeeringroute |-> VpcpeeringrouteRefs,
   vpnroute      |-> VpnrouteRefs,      kaas            |-> KaasRefs,
   dbaas         |-> DbaasRefs,         containerregistry |-> ContainerregistryRefs,
   database      |-> DatabaseRefs,      dbaasuser       |-> DbaasuserRefs,
   databasegrant |-> DatabasegrantRefs, databasebackup  |-> DatabasebackupRefs,
   kms           |-> KmsRefs,           schedulejob     |-> SchedulejobRefs]

RefsOf(kind) == {Resolver[kind][i] : i \in DOMAIN Resolver[kind]}

-------------------------------------------------------------------------------
(* Facts about the tables, for all kinds. TLC evaluates them before each run of *)
(* MCIdentityCycle.                                                             *)

\* The generated methods resolve exactly the references configure.go declares,
\* each against the kind and with the extractor it names, for every kind that
\* external_name.go configures: the generator was run after the last edit.
GeneratedAsConfigured ==
  /\ DOMAIN Configured = Kinds /\ DOMAIN Resolver = Kinds
  /\ \A k \in Kinds : RefsOf(k) = Configured[k]

\* Every parent GetIDFn puts into a Terraform id is a reference the resolver
\* fills in with the external name of an object (a URI or a display name there
\* would give an id no import understands). The billing period of a snapshot is
\* no parent.
ParentsAreReferences ==
  \A k \in Kinds :
    LET c == ExternalNameConfigs[k] IN
    \A i \in DOMAIN c.parents :
      \E r \in RefsOf(k) : r[1] = c.parents[i] /\ r[3] = "id"

\* How far a kind is from the project at the root of every reference.
Rank ==
  [project |-> 0, vpc |-> 1, keypair |-> 1, elasticip |-> 1, blockstorage |-> 1,
   kms |-> 1, schedulejob |-> 1, subnet |-> 2, securitygroup |-> 2,
   vpcpeering |-> 2, snapshot |-> 2, backup |-> 2, securityrule |-> 3,
   vpcpeeringroute |-> 3, restore |-> 3, vpntunnel |-> 3, cloudserver |-> 3,
   kaas |-> 3, containerregistry |-> 3, dbaas |-> 3, vpnroute |-> 4,
   database |-> 4, dbaasuser |-> 4, databasegrant |-> 5, databasebackup |-> 5]

\* References only lead towards the project, so that objects never wait for each
\* other in a circle.
ReferencesDescend ==
  \A k \in Kinds : \A r \in RefsOf(k) : Rank[r[2]] < Rank[k]
===============================================================================
