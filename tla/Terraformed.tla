------------------------------ MODULE Terraformed ------------------------------
(***************************************************************************)
(* The generated zz_<kind>_terraformed.go: how the three blocks of an      *)
(* object become Terraform parameters and how what Terraform observed      *)
(* comes back, attribute by attribute. The methods are the same text in    *)
(* all 25 files and are the operators below; a file differs from another   *)
(* in its type and in the record that stands for it here.                  *)
(***************************************************************************)
EXTENDS ComputeTypes, NetworkTypes, StorageTypes, DatabaseTypes

CONSTANTS
  Unset,     \* an attribute that is not there (a nil pointer)
  Zero       \* "", 0 or false

-------------------------------------------------------------------------------
(* The files *)

\* An object with the attributes GetConnectionDetailsMapping calls sensitive and
\* those its LateInitialize filters by name.
Terraformed(object, sensitive, filtered) ==
  [object |-> object, sensitive |-> sensitive, filtered |-> filtered]

\* Mutant of KaasTF: generated without the exception for pod_cidr.
KaasTF_unfiltered == Terraformed(Kaas, {<<"kubeconfig">>}, {})

BackupTF == Terraformed(Backup, {}, {})
BlockstorageTF == Terraformed(Blockstorage, {}, {})
CloudserverTF == Terraformed(Cloudserver, {<<"settings", "user_data">>}, {})
ContainerregistryTF == Terraformed(Containerregistry, {}, {})
DatabaseTF == Terraformed(Database, {}, {})
DatabasebackupTF == Terraformed(Databasebackup, {}, {})
DatabasegrantTF == Terraformed(Databasegrant, {}, {})
DbaasTF == Terraformed(Dbaas, {}, {})
DbaasuserTF == Terraformed(Dbaasuser, {<<"password">>}, {})
ElasticipTF == Terraformed(Elasticip, {}, {})
KaasTF == Terraformed(Kaas, {<<"kubeconfig">>}, {<<"network", "pod_cidr">>})
KeypairTF == Terraformed(Keypair, {<<"value">>}, {})
KMSTF == Terraformed(KMS, {}, {})
ProjectTF == Terraformed(Project, {}, {})
RestoreTF == Terraformed(Restore, {}, {})
SchedulejobTF == Terraformed(Schedulejob, {}, {})
SecuritygroupTF == Terraformed(Securitygroup, {}, {})
SecurityruleTF == Terraformed(Securityrule, {}, {})
SnapshotTF == Terraformed(Snapshot, {}, {})
SubnetTF == Terraformed(Subnet, {}, {})
VPCTF == Terraformed(VPC, {}, {})
VpcpeeringTF == Terraformed(Vpcpeering, {}, {})
VpcpeeringrouteTF == Terraformed(Vpcpeeringroute, {}, {})
VpnrouteTF == Terraformed(Vpnroute, {}, {})
VpntunnelTF == Terraformed(Vpntunnel, {}, {})

Kind ==
  [backup |-> BackupTF, blockstorage |-> BlockstorageTF,
   cloudserver |-> CloudserverTF, containerregistry |-> ContainerregistryTF,
   database |-> DatabaseTF, databasebackup |-> DatabasebackupTF,
   databasegrant |-> DatabasegrantTF, dbaas |-> DbaasTF,
   dbaasuser |-> DbaasuserTF, elasticip |-> ElasticipTF, kaas |-> KaasTF,
   keypair |-> KeypairTF, kms |-> KMSTF, project |-> ProjectTF,
   restore |-> RestoreTF, schedulejob |-> SchedulejobTF,
   securitygroup |-> SecuritygroupTF, securityrule |-> SecurityruleTF,
   snapshot |-> SnapshotTF, subnet |-> SubnetTF, vpc |-> VPCTF,
   vpcpeering |-> VpcpeeringTF, vpcpeeringroute |-> VpcpeeringrouteTF,
   vpnroute |-> VpnrouteTF, vpntunnel |-> VpntunnelTF]

-------------------------------------------------------------------------------
(* Their methods, for one attribute *)

\* Mutant of GetMergedParameters: the merge keeps the overwrite that the deep copy
\* of slices turns on.
GetMergedParameters_overwrite(for, init, shouldMergeInitProvider) ==
  IF shouldMergeInitProvider /\ init # Unset THEN init ELSE for

\* forProvider, and what initProvider adds to it when asked to: the merge does not
\* overwrite, but takes a zero value in forProvider for one that is not there.
GetMergedParameters(for, init, shouldMergeInitProvider) ==
  IF shouldMergeInitProvider /\ for \in {Unset, Zero} /\ init # Unset
  THEN init ELSE for

Parameter(kind, path) ==
  {f \in Kind[kind].object.forProvider : f.path = path /\ ~f.listed}

\* LateInitialize knows the fields of forProvider that hold a value themselves,
\* except those it filters by name ...
LateInitializable(kind, path) ==
  path \notin Kind[kind].filtered /\ \E f \in Parameter(kind, path) : ~f.secret

\* ... and fills one that is nil with the observed value. A zero stays out, but for
\* a field that is always written.
LateInitializes(for, observed, always) ==
  for = Unset /\ observed # Unset /\ (observed = Zero => always)

\* SetObservation keeps what the Go type of status.atProvider has a field for.
Observable(kind, path) == path \in Paths(Kind[kind].object.atProvider)

-------------------------------------------------------------------------------
(* The connection details that configure.go adds *)

ElasticIPDetails == {<<"address">>}
CloudServerDetails == {<<"private_ip">>, <<"public_ip">>}
KaaSDetails == {<<"kubeconfig">>, <<"management_ip">>}

ConnectionAttributes(kind) ==
  CASE kind = "elasticip" -> ElasticIPDetails
    [] kind = "cloudserver" -> CloudServerDetails
    [] kind = "kaas" -> KaaSDetails
    [] OTHER -> {}

\* Mutant of Published: without what configure.go adds.
Published_sensitive(kind, path) == path \in Kind[kind].sensitive

\* The attributes that reach the connection secret.
Published(kind, path) ==
  path \in ConnectionAttributes(kind) \cup Kind[kind].sensitive

\* Mutant of ConnectionDetail: the empty string is a value as well.
ConnectionDetail_any(observed) == observed

\* A published attribute gives a detail when it is a string that is not empty.
ConnectionDetail(observed) == IF observed = Zero THEN Unset ELSE observed
===============================================================================
