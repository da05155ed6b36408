---------------------------- MODULE MCProviderSetup ----------------------------
(* Small instances of ProviderSetup: the resources of one tenant, resources on  *)
(* a shared cluster-scoped config, and one of each.                            *)
EXTENDS ProviderSetup, TLC

MCHome == [m \in Managed |-> IF m = "vpc" THEN "east" ELSE "west"]

\* Two resources of one tenant on one namespaced config whose secretRef may name
\* another namespace, and one whose reference is of a kind that does not exist.
TenantHome == [m \in Managed |-> "east"]
Tenant == [m \in Managed |-> IF m = "kms" THEN "Unknown" ELSE Namespaced]
TenantConfig == {<<Namespaced, "east">>}

\* Resources on a cluster-scoped config.
Shared == [m \in Managed |-> Clustered]
SharedConfig == {<<Clustered, None>>}

\* A resource of a tenant and one that uses the cluster-scoped config.
Mixed == [m \in Managed |-> IF m = "vpc" THEN Namespaced ELSE Clustered]
MixedConfigs == {<<Namespaced, "east">>, <<Clustered, None>>}
===============================================================================
