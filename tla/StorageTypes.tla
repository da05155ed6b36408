----------------------------- MODULE StorageTypes ------------------------------
(* The kinds of storage. One set of fields per Go struct of                *)
(* zz_<kind>_types.go, and one object per kind.                            *)
EXTENDS Fields

-------------------------------------------------------------------------------
(* zz_blockstorage_types.go *)

BlockstorageInitParameters ==
  Plain({"billing_period", "bootable", "image", "name", "tags", "timeout",
          "zone"})
  \cup Fixed({"location", "size_gb", "type"}) \cup FixedRefs({"project_id"})
BlockstorageObservation ==
  Plain({"billing_period", "bootable", "id", "image", "name", "tags",
          "timeout", "uri", "zone"})
  \cup Fixed({"location", "project_id", "size_gb", "type"})
BlockstorageParameters ==
  Plain({"billing_period", "bootable", "image", "name", "tags", "timeout",
          "zone"})
  \cup Fixed({"location", "size_gb", "type"}) \cup FixedRefs({"project_id"})

Blockstorage ==
  Object(BlockstorageParameters, BlockstorageInitParameters,
         BlockstorageObservation, {"billing_period", "location", "name",
         "size_gb", "type"})

-------------------------------------------------------------------------------
(* zz_snapshot_types.go *)

SnapshotInitParameters ==
  Plain({"billing_period", "name", "tags", "timeout"})
  \cup Fixed({"location"}) \cup FixedRefs({"project_id", "volume_uri"})
SnapshotObservation ==
  Plain({"billing_period", "id", "name", "tags", "timeout", "uri"})
  \cup Fixed({"location", "project_id", "volume_uri"})
SnapshotParameters ==
  Plain({"billing_period", "name", "tags", "timeout"})
  \cup Fixed({"location"}) \cup FixedRefs({"project_id", "volume_uri"})

Snapshot ==
  Object(SnapshotParameters, SnapshotInitParameters,
         SnapshotObservation, {"billing_period", "location", "name"})

-------------------------------------------------------------------------------
(* zz_backup_types.go *)

BackupInitParameters ==
  Plain({"billing_period", "name", "tags", "timeout"})
  \cup Fixed({"location", "retention_days", "type"})
  \cup FixedRefs({"project_id", "volume_id"})
BackupObservation ==
  Plain({"billing_period", "id", "name", "tags", "timeout", "uri"})
  \cup Fixed({"location", "project_id", "retention_days", "type", "volume_id"})
BackupParameters ==
  Plain({"billing_period", "name", "tags", "timeout"})
  \cup Fixed({"location", "retention_days", "type"})
  \cup FixedRefs({"project_id", "volume_id"})

Backup ==
  Object(BackupParameters, BackupInitParameters, BackupObservation,
         {"location", "name", "type"})

-------------------------------------------------------------------------------
(* zz_restore_types.go *)

RestoreInitParameters ==
  Plain({"name", "tags", "timeout"}) \cup Fixed({"location"})
  \cup FixedRefs({"backup_id", "project_id", "volume_id"})
RestoreObservation ==
  Plain({"id", "name", "tags", "timeout", "uri"})
  \cup Fixed({"backup_id", "location", "project_id", "volume_id"})
RestoreParameters ==
  Plain({"name", "tags", "timeout"}) \cup Fixed({"location"})
  \cup FixedRefs({"backup_id", "project_id", "volume_id"})

Restore ==
  Object(RestoreParameters, RestoreInitParameters, RestoreObservation,
         {"location", "name"})

===============================================================================
