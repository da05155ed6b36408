----------------------------- MODULE ExternalName -----------------------------
(***************************************************************************)
(* The identity bridge of config/external_name.go: how the annotation      *)
(* crossplane.io/external-name of a managed resource is turned into the id *)
(* Terraform works with (GetIDFn), and how an id found in the Terraform    *)
(* state is turned back into the annotation (GetExternalNameFn).           *)
(*                                                                         *)
(* A string is the sequence of its segments between slashes, that is, what *)
(* strings.Split(s, "/") returns: "proj/vpc" is <<proj, vpc>>, the empty   *)
(* string is <<Blank>>, and s + "/" + t is s \o t.                         *)
(***************************************************************************)
EXTENDS Naturals, Sequences

CONSTANTS
  Name,     \* the non-empty strings without a slash
  Blank     \* the empty segment

ASSUME BlankIsNoName == Blank \notin Name

Str == Seq(Name \cup {Blank}) \ {<<>>}
EmptyStr == <<Blank>>

\* What the Terraform configuration of a resource may pass to GetIDFn: its
\* forProvider fields, after reference resolution ("" when unset).
Param == {"project_id", "vpc_id", "vpc_peering_id", "security_group_id",
          "dbaas_id", "database", "billing_period"}

-------------------------------------------------------------------------------
(* The configurations. "parents" are the parameters GetIDFn puts before the *)
(* external name, "suffix" those it puts after it; "extract" is how         *)
(* GetExternalNameFn reads an id: the whole id ("id", upjet's               *)
(* IDAsExternalName), the segment at index "leaf" when there is one         *)
(* ("leaf"), or the middle segment of exactly three ("middle").             *)

IdentifierFromProvider ==
  [parents |-> <<>>, suffix |-> <<>>, extract |-> "id", leaf |-> 0]

Leaf(parents, index) ==
  [IdentifierFromProvider EXCEPT !.parents = parents,
                                 !.extract = "leaf", !.leaf = index]

\* Overrides GetIDFn only: GetExternalNameFn stays IDAsExternalName.
WithProjectID == [IdentifierFromProvider EXCEPT !.parents = <<"project_id">>]

Subnet          == Leaf(<<"project_id", "vpc_id">>, 2)
SecurityGroup   == Leaf(<<"project_id", "vpc_id">>, 2)
VpcPeering      == Leaf(<<"project_id", "vpc_id">>, 2)
VpcPeeringRoute == Leaf(<<"project_id", "vpc_id", "vpc_peering_id">>, 3)
SecurityRule    == Leaf(<<"project_id", "vpc_id", "security_group_id">>, 3)
Snapshot ==
  [IdentifierFromProvider EXCEPT !.parents = <<"project_id">>,
                                 !.suffix = <<"billing_period">>,
                                 !.extract = "middle", !.leaf = 1]
Database        == Leaf(<<"project_id", "dbaas_id">>, 2)
DbaasUser       == Leaf(<<"project_id", "dbaas_id">>, 2)
DatabaseGrant   == Leaf(<<"project_id", "dbaas_id", "database">>, 3)
DatabaseBackup  == Leaf(<<"project_id", "dbaas_id">>, 2)

ExternalNameConfigs ==
  [project         |-> IdentifierFromProvider,
   vpc             |-> WithProjectID, keypair           |-> WithProjectID,
   elasticip       |-> WithProjectID, blockstorage      |-> WithProjectID,
   backup          |-> WithProjectID, restore           |-> WithProjectID,
   kaas            |-> WithProjectID, containerregistry |-> WithProjectID,
   dbaas           |-> WithProjectID, vpntunnel         |-> WithProjectID,
   vpnroute        |-> WithProjectID, schedulejob       |-> WithProjectID,
   kms             |-> WithProjectID, cloudserver       |-> WithProjectID,
   subnet          |-> Subnet,          securitygroup   |-> SecurityGroup,
   vpcpeering      |-> VpcPeering,      vpcpeeringroute |-> VpcPeeringRoute,
   securityrule    |-> SecurityRule,    snapshot        |-> Snapshot,
   database        |-> Database,        dbaasuser       |-> DbaasUser,
   databasegrant   |-> DatabaseGrant,   databasebackup  |-> DatabaseBackup]

Kinds == DOMAIN ExternalNameConfigs

\* The kinds whose GetExternalNameFn can undo what GetIDFn adds: it takes a segment
\* out of the id, or nothing was added.
ReversibleKinds ==
  {k \in Kinds :
     LET c == ExternalNameConfigs[k]
     IN c.extract # "id" \/ (c.parents = <<>> /\ c.suffix = <<>>)}

-------------------------------------------------------------------------------
(* GetIDFn *)

Required(c) == {c.parents[i] : i \in DOMAIN c.parents}
                 \cup {c.suffix[i] : i \in DOMAIN c.suffix}

\* GetIDFn returns an error when a parameter it needs is missing or empty.
CanGetID(c, params) == \A q \in Required(c) : params[q] # EmptyStr

\* a, a/b or a/b/c for the parameters named a, b, c; nothing for none.
Joined(names, params) ==
  CASE Len(names) = 0 -> <<>>
    [] Len(names) = 1 -> params[names[1]]
    [] Len(names) = 2 -> params[names[1]] \o params[names[2]]
    [] OTHER -> params[names[1]] \o params[names[2]] \o params[names[3]]

\* The external name is not looked at: an empty one gives "proj/vpc/".
GetID(c, externalName, params) ==
  Joined(c.parents, params) \o externalName \o Joined(c.suffix, params)

-------------------------------------------------------------------------------
(* GetExternalNameFn *)

\* IDAsExternalName returns an error for a state without an id. The other two
\* drop that error and go on with the empty name.
CanGetExternalName(c, id) == c.extract = "id" => id # EmptyStr

\* Mutants: a bound one too high, the segment before the leaf, all that follows
\* it; for the middle of three, the last segment and a bound one too high.
LeafIDFromSlash_strict(index, id) ==
  IF Len(id) > index + 1 THEN <<id[index + 1]>> ELSE id
LeafIDFromSlash_before(index, id) == IF Len(id) > index THEN <<id[index]>> ELSE id
LeafIDFromSlash_after(index, id) ==
  IF Len(id) > index THEN SubSeq(id, index + 2, Len(id)) ELSE id
MiddleOfThree_last(id) == IF Len(id) = 3 THEN <<id[3]>> ELSE id
MiddleOfThree_four(id) == IF Len(id) = 4 THEN <<id[2]>> ELSE id

LeafIDFromSlash(index, id) == IF Len(id) > index THEN <<id[index + 1]>> ELSE id

MiddleOfThree(id) == IF Len(id) = 3 THEN <<id[2]>> ELSE id

GetExternalName(c, id) ==
  CASE c.extract = "id"     -> id
    [] c.extract = "leaf"   -> LeafIDFromSlash(c.leaf, id)
    [] c.extract = "middle" -> MiddleOfThree(id)
===============================================================================
