----------------------------- MODULE ComputeTypes ------------------------------
(* The kinds that compute, and the projects that hold them all. One set of *)
(* fields per Go struct of zz_<kind>_types.go, and one object per kind.    *)
EXTENDS Fields

-------------------------------------------------------------------------------
(* zz_cloudserver_types.go *)

NetworkInitParameters ==
  FixedRefs({"elastic_ip_uri_ref", "securitygroup_uri_refs",
          "subnet_uri_refs", "vpc_uri_ref"})
SettingsInitParameters ==
  Fixed({"flavor_name"}) \cup FixedRefs({"key_pair_uri_ref"})
  \cup FixedSecrets({"user_data"})
StorageInitParameters == FixedRefs({"boot_volume_uri_ref"})
CloudserverInitParameters ==
  Plain({"timeout"}) \cup Fixed({"location", "name", "tags", "zone"})
  \cup FixedRefs({"project_id"}) \cup Nest("network", NetworkInitParameters)
  \cup Nest("settings", SettingsInitParameters)
  \cup Nest("storage", StorageInitParameters)
NetworkObservation ==
  Fixed({"elastic_ip_uri_ref", "securitygroup_uri_refs", "subnet_uri_refs",
          "vpc_uri_ref"})
SettingsObservation == Fixed({"flavor_name", "key_pair_uri_ref"})
StorageObservation == Fixed({"boot_volume_uri_ref"})
CloudserverObservation ==
  Plain({"id", "private_ip", "public_ip", "timeout", "uri"})
  \cup Fixed({"location", "name", "project_id", "tags", "zone"})
  \cup Nest("network", NetworkObservation)
  \cup Nest("settings", SettingsObservation)
  \cup Nest("storage", StorageObservation)
NetworkParameters ==
  FixedRefs({"elastic_ip_uri_ref", "securitygroup_uri_refs",
          "subnet_uri_refs", "vpc_uri_ref"})
SettingsParameters ==
  Always(Fixed({"flavor_name"})) \cup FixedRefs({"key_pair_uri_ref"})
  \cup FixedSecrets({"user_data"})
StorageParameters == FixedRefs({"boot_volume_uri_ref"})
CloudserverParameters ==
  Plain({"timeout"}) \cup Fixed({"location", "name", "tags", "zone"})
  \cup FixedRefs({"project_id"}) \cup Nest("network", NetworkParameters)
  \cup Nest("settings", SettingsParameters)
  \cup Nest("storage", StorageParameters)

Cloudserver ==
  Object(CloudserverParameters, CloudserverInitParameters,
         CloudserverObservation, {"location", "name", "network", "settings",
         "storage", "zone"})

-------------------------------------------------------------------------------
(* zz_keypair_types.go *)

KeypairInitParameters ==
  Plain({"tags", "timeout"}) \cup Fixed({"location", "name"})
  \cup FixedRefs({"project_id"}) \cup FixedSecrets({"value"})
KeypairObservation ==
  Plain({"id", "tags", "timeout", "uri"})
  \cup Fixed({"location", "name", "project_id"})
KeypairParameters ==
  Plain({"tags", "timeout"}) \cup Fixed({"location", "name"})
  \cup FixedRefs({"project_id"}) \cup FixedSecrets({"value"})

Keypair ==
  Object(KeypairParameters, KeypairInitParameters, KeypairObservation,
         {"location", "name", "value"})

-------------------------------------------------------------------------------
(* zz_elasticip_types.go *)

ElasticipInitParameters ==
  Plain({"billing_period", "name", "tags", "timeout"})
  \cup Fixed({"location"}) \cup FixedRefs({"project_id"})
ElasticipObservation ==
  Plain({"address", "billing_period", "id", "name", "tags", "timeout", "uri"})
  \cup Fixed({"location", "project_id"})
ElasticipParameters ==
  Plain({"billing_period", "name", "tags", "timeout"})
  \cup Fixed({"location"}) \cup FixedRefs({"project_id"})

Elasticip ==
  Object(ElasticipParameters, ElasticipInitParameters,
         ElasticipObservation, {"location", "name"})

-------------------------------------------------------------------------------
(* zz_kaas_types.go *)

NodeCidrInitParameters == Plain({"address", "name"})
KaasNetworkInitParameters ==
  Plain({"pod_cidr"}) \cup Refs({"security_group_name"})
  \cup FixedRefs({"subnet_uri_ref", "vpc_uri_ref"})
  \cup Nest("node_cidr", NodeCidrInitParameters)
NodePoolsInitParameters ==
  Plain({"autoscaling", "instance", "max_count", "min_count", "name", "nodes",
          "zone"})
KaasSettingsInitParameters ==
  Plain({"ha", "kubernetes_version"})
  \cup NestList("node_pools", NodePoolsInitParameters)
KaasInitParameters ==
  Plain({"billing_period", "name", "tags", "timeout"})
  \cup Fixed({"location"}) \cup FixedRefs({"project_id"})
  \cup Nest("network", KaasNetworkInitParameters)
  \cup Nest("settings", KaasSettingsInitParameters)
NodeCidrObservation == Plain({"address", "name"})
KaasNetworkObservation ==
  Plain({"pod_cidr", "security_group_id", "security_group_name"})
  \cup Fixed({"subnet_uri_ref", "vpc_uri_ref"})
  \cup Nest("node_cidr", NodeCidrObservation)
NodeCidrParameters == Always(Plain({"address", "name"}))
KaasNetworkParameters ==
  Plain({"pod_cidr"}) \cup Refs({"security_group_name"})
  \cup FixedRefs({"subnet_uri_ref", "vpc_uri_ref"})
  \cup Nest("node_cidr", NodeCidrParameters)
NodePoolsObservation ==
  Plain({"autoscaling", "instance", "max_count", "min_count", "name", "nodes",
          "zone"})
KaasSettingsObservation ==
  Plain({"ha", "kubernetes_version"})
  \cup NestList("node_pools", NodePoolsObservation)
KaasObservation ==
  Plain({"billing_period", "id", "management_ip", "name", "tags", "timeout",
          "uri"})
  \cup Fixed({"location", "project_id"})
  \cup Nest("network", KaasNetworkObservation)
  \cup Nest("settings", KaasSettingsObservation)
NodePoolsParameters ==
  Plain({"autoscaling", "max_count", "min_count"})
  \cup Always(Plain({"instance", "name", "nodes", "zone"}))
KaasSettingsParameters ==
  Plain({"ha"}) \cup Always(Plain({"kubernetes_version"}))
  \cup NestList("node_pools", NodePoolsParameters)
KaasParameters ==
  Plain({"billing_period", "name", "tags", "timeout"})
  \cup Fixed({"location"}) \cup FixedRefs({"project_id"})
  \cup Nest("network", KaasNetworkParameters)
  \cup Nest("settings", KaasSettingsParameters)

Kaas ==
  Object(KaasParameters, KaasInitParameters, KaasObservation,
         {"location", "name", "network", "settings"})

-------------------------------------------------------------------------------
(* zz_containerregistry_types.go *)

ContainerregistryNetworkInitParameters ==
  Refs({"public_ip_uri_ref", "security_group_uri_ref", "subnet_uri_ref",
          "vpc_uri_ref"})
ContainerregistrySettingsInitParameters ==
  Plain({"admin_user", "concurrent_users_flavor"})
ContainerregistryStorageInitParameters == Refs({"block_storage_uri_ref"})
ContainerregistryInitParameters ==
  Plain({"billing_period", "location", "name", "tags", "timeout"})
  \cup Refs({"project_id"})
  \cup Nest("network", ContainerregistryNetworkInitParameters)
  \cup Nest("settings", ContainerregistrySettingsInitParameters)
  \cup Nest("storage", ContainerregistryStorageInitParameters)
ContainerregistryNetworkObservation ==
  Plain({"public_ip_uri_ref", "security_group_uri_ref", "subnet_uri_ref",
          "vpc_uri_ref"})
ContainerregistryNetworkParameters ==
  Refs({"public_ip_uri_ref", "security_group_uri_ref", "subnet_uri_ref",
          "vpc_uri_ref"})
ContainerregistrySettingsObservation ==
  Plain({"admin_user", "concurrent_users_flavor"})
ContainerregistryStorageObservation == Plain({"block_storage_uri_ref"})
ContainerregistryObservation ==
  Plain({"billing_period", "id", "location", "name", "project_id", "tags",
          "timeout", "uri"})
  \cup Nest("network", ContainerregistryNetworkObservation)
  \cup Nest("settings", ContainerregistrySettingsObservation)
  \cup Nest("storage", ContainerregistryStorageObservation)
ContainerregistrySettingsParameters ==
  Always(Plain({"admin_user"})) \cup Plain({"concurrent_users_flavor"})
ContainerregistryStorageParameters == Refs({"block_storage_uri_ref"})
ContainerregistryParameters ==
  Plain({"billing_period", "location", "name", "tags", "timeout"})
  \cup Refs({"project_id"})
  \cup Nest("network", ContainerregistryNetworkParameters)
  \cup Nest("settings", ContainerregistrySettingsParameters)
  \cup Nest("storage", ContainerregistryStorageParameters)

Containerregistry ==
  Object(ContainerregistryParameters, ContainerregistryInitParameters,
         ContainerregistryObservation, {"location", "name", "network",
         "settings", "storage"})

-------------------------------------------------------------------------------
(* zz_project_types.go *)

ProjectInitParameters == Plain({"description", "name", "tags", "timeout"})
ProjectObservation == Plain({"description", "id", "name", "tags", "timeout"})
ProjectParameters == Plain({"description", "name", "tags", "timeout"})

Project ==
  Object(ProjectParameters, ProjectInitParameters, ProjectObservation,
         {"name"})

-------------------------------------------------------------------------------
(* zz_kms_types.go *)

KMSInitParameters ==
  Plain({"billing_period", "location", "name", "tags", "timeout"})
  \cup Refs({"project_id"})
KMSObservation ==
  Plain({"billing_period", "id", "location", "name", "project_id", "tags",
          "timeout", "uri"})
KMSParameters ==
  Plain({"billing_period", "location", "name", "tags", "timeout"})
  \cup Refs({"project_id"})

KMS ==
  Object(KMSParameters, KMSInitParameters, KMSObservation, {"name"})

-------------------------------------------------------------------------------
(* zz_schedulejob_types.go *)

StepsInitParameters ==
  Plain({"action_uri", "body", "http_verb", "name", "resource_uri"})
PropertiesInitParameters ==
  Plain({"cron", "enabled", "execute_until", "schedule_at",
          "schedule_job_type"})
  \cup NestList("steps", StepsInitParameters)
StepsObservation ==
  Plain({"action_uri", "body", "http_verb", "name", "resource_uri"})
PropertiesObservation ==
  Plain({"cron", "enabled", "execute_until", "schedule_at",
          "schedule_job_type"})
  \cup NestList("steps", StepsObservation)
StepsParameters ==
  Plain({"body", "name"})
  \cup Always(Plain({"action_uri", "http_verb", "resource_uri"}))
PropertiesParameters ==
  Plain({"cron", "enabled", "execute_until", "schedule_at"})
  \cup Always(Plain({"schedule_job_type"}))
  \cup NestList("steps", StepsParameters)
SchedulejobInitParameters ==
  Plain({"location", "name", "tags", "timeout"}) \cup Refs({"project_id"})
  \cup Nest("properties", PropertiesInitParameters)
SchedulejobObservation ==
  Plain({"id", "location", "name", "project_id", "tags", "timeout", "uri"})
  \cup Nest("properties", PropertiesObservation)
SchedulejobParameters ==
  Plain({"location", "name", "tags", "timeout"}) \cup Refs({"project_id"})
  \cup Nest("properties", PropertiesParameters)

Schedulejob ==
  Object(SchedulejobParameters, SchedulejobInitParameters,
         SchedulejobObservation, {"location", "name", "properties"})

===============================================================================
