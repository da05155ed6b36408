----------------------------- MODULE DatabaseTypes -----------------------------
(* The kinds of databases. One set of fields per Go struct of              *)
(* zz_<kind>_types.go, and one object per kind.                            *)
EXTENDS Fields

-------------------------------------------------------------------------------
(* zz_dbaas_types.go *)

AutoscalingInitParameters == Plain({"available_space", "enabled", "step_size"})
AutoscalingObservation == Plain({"available_space", "enabled", "step_size"})
AutoscalingParameters ==
  Always(Plain({"available_space", "enabled", "step_size"}))
DbaasNetworkInitParameters ==
  Refs({"elastic_ip_uri_ref", "security_group_uri_ref", "subnet_uri_ref",
          "vpc_uri_ref"})
DbaasStorageInitParameters ==
  Plain({"size_gb"}) \cup Nest("autoscaling", AutoscalingInitParameters)
DbaasInitParameters ==
  Plain({"billing_period", "flavor", "name", "tags", "timeout"})
  \cup Fixed({"engine_id", "location", "zone"}) \cup FixedRefs({"project_id"})
  \cup Nest("network", DbaasNetworkInitParameters)
  \cup Nest("storage", DbaasStorageInitParameters)
DbaasNetworkObservation ==
  Plain({"elastic_ip_uri_ref", "security_group_uri_ref", "subnet_uri_ref",
          "vpc_uri_ref"})
DbaasNetworkParameters ==
  Refs({"elastic_ip_uri_ref", "security_group_uri_ref", "subnet_uri_ref",
          "vpc_uri_ref"})
DbaasStorageObservation ==
  Plain({"size_gb"}) \cup Nest("autoscaling", AutoscalingObservation)
DbaasObservation ==
  Plain({"billing_period", "flavor", "id", "name", "tags", "timeout", "uri"})
  \cup Fixed({"engine_id", "location", "project_id", "zone"})
  \cup Nest("network", DbaasNetworkObservation)
  \cup Nest("storage", DbaasStorageObservation)
DbaasStorageParameters ==
  Always(Plain({"size_gb"})) \cup Nest("autoscaling", AutoscalingParameters)
DbaasParameters ==
  Plain({"billing_period", "flavor", "name", "tags", "timeout"})
  \cup Fixed({"engine_id", "location", "zone"}) \cup FixedRefs({"project_id"})
  \cup Nest("network", DbaasNetworkParameters)
  \cup Nest("storage", DbaasStorageParameters)

Dbaas ==
  Object(DbaasParameters, DbaasInitParameters, DbaasObservation,
         {"engine_id", "flavor", "location", "name", "network", "storage",
         "zone"})

-------------------------------------------------------------------------------
(* zz_database_types.go *)

DatabaseInitParameters ==
  Plain({"timeout"}) \cup Fixed({"name"})
  \cup Refs({"dbaas_id", "project_id"})
DatabaseObservation ==
  Plain({"dbaas_id", "id", "project_id", "timeout", "uri"})
  \cup Fixed({"name"})
DatabaseParameters ==
  Plain({"timeout"}) \cup Fixed({"name"})
  \cup Refs({"dbaas_id", "project_id"})

Database ==
  Object(DatabaseParameters, DatabaseInitParameters,
         DatabaseObservation, {"name"})

-------------------------------------------------------------------------------
(* zz_dbaasuser_types.go *)

DbaasuserInitParameters ==
  Plain({"timeout"}) \cup Fixed({"username"})
  \cup FixedRefs({"dbaas_id", "project_id"}) \cup FixedSecrets({"password"})
DbaasuserObservation ==
  Plain({"id", "timeout", "uri"})
  \cup Fixed({"dbaas_id", "project_id", "username"})
DbaasuserParameters ==
  Plain({"timeout"}) \cup Fixed({"username"})
  \cup FixedRefs({"dbaas_id", "project_id"}) \cup FixedSecrets({"password"})

Dbaasuser ==
  Object(DbaasuserParameters, DbaasuserInitParameters,
         DbaasuserObservation, {"password", "username"})

-------------------------------------------------------------------------------
(* zz_databasegrant_types.go *)

DatabasegrantInitParameters ==
  Plain({"timeout"}) \cup Fixed({"role"})
  \cup FixedRefs({"database", "dbaas_id", "project_id", "user_id"})
DatabasegrantObservation ==
  Plain({"id", "timeout", "uri"})
  \cup Fixed({"database", "dbaas_id", "project_id", "role", "user_id"})
DatabasegrantParameters ==
  Plain({"timeout"}) \cup Fixed({"role"})
  \cup FixedRefs({"database", "dbaas_id", "project_id", "user_id"})

Databasegrant ==
  Object(DatabasegrantParameters, DatabasegrantInitParameters,
         DatabasegrantObservation, {"role"})

-------------------------------------------------------------------------------
(* zz_databasebackup_types.go *)

DatabasebackupInitParameters ==
  Plain({"billing_period", "location", "tags", "timeout", "zone"})
  \cup Refs({"database", "dbaas_id", "project_id"})
DatabasebackupObservation ==
  Plain({"billing_period", "database", "dbaas_id", "id", "location", "name",
          "project_id", "tags", "timeout", "uri", "zone"})
DatabasebackupParameters ==
  Plain({"billing_period", "location", "tags", "timeout", "zone"})
  \cup Refs({"database", "dbaas_id", "project_id"})

Databasebackup ==
  Object(DatabasebackupParameters, DatabasebackupInitParameters,
         DatabasebackupObservation, {"billing_period", "location", "zone"})

===============================================================================
