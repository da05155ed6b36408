--------------------------- MODULE ExternalNameProofs ---------------------------
(***************************************************************************)
(* Facts about the operators of ExternalName that hold for every set of    *)
(* names and every parameter value.                                        *)
(***************************************************************************)
EXTENDS ExternalName, SequenceTheorems, TLAPS

Segment == Name \cup {Blank}

\* The parameter values that hold no slash, as the leaf ids of the parents do.
Flat(p) == p \in [Param -> {<<s>> : s \in Segment}]

-------------------------------------------------------------------------------
(* The table (config/external_name.go:16-51). *)

LEMMA KindList ==
  Kinds = {"project", "vpc", "keypair", "elasticip", "blockstorage", "backup",
           "restore", "kaas", "containerregistry", "dbaas", "vpntunnel",
           "vpnroute", "schedulejob", "kms", "cloudserver", "subnet",
           "securitygroup", "vpcpeering", "vpcpeeringroute", "securityrule",
           "snapshot", "database", "dbaasuser", "databasegrant",
           "databasebackup"}
BY DEF Kinds, ExternalNameConfigs

\* The table has two configurations that read the whole id, and others that read one
\* segment out of it. What these look like:
SegmentConfig(c) ==
  /\ c.parents \in Seq(Param) /\ Len(c.parents) \in 1..3
  /\ \/ c.extract = "leaf" /\ c.leaf = Len(c.parents) /\ c.suffix = <<>>
     \/ /\ c.extract = "middle" /\ Len(c.parents) = 1
        /\ c.suffix = <<"billing_period">>

LEMMA Configs ==
  ASSUME NEW k \in Kinds
  PROVE  LET c == ExternalNameConfigs[k]
         IN c \in {IdentifierFromProvider, WithProjectID} \/ SegmentConfig(c)
<1> DEFINE c == ExternalNameConfigs[k]
<1>1. c \in {IdentifierFromProvider, WithProjectID, Subnet, SecurityGroup,
             VpcPeering, VpcPeeringRoute, SecurityRule, Snapshot, Database,
             DbaasUser, DatabaseGrant, DatabaseBackup}
  BY KindList DEF ExternalNameConfigs
<1>2. ASSUME NEW q \in Param
      PROVE  SegmentConfig(Leaf(<<"project_id", q>>, 2))
  BY DEF SegmentConfig, Leaf, IdentifierFromProvider, Param
<1>3. ASSUME NEW q \in Param, NEW r \in Param
      PROVE  SegmentConfig(Leaf(<<"project_id", q, r>>, 3))
  BY DEF SegmentConfig, Leaf, IdentifierFromProvider, Param
<1>4. SegmentConfig(Snapshot)
  BY DEF SegmentConfig, Snapshot, IdentifierFromProvider, Param
<1>5. CASE c \in {Subnet, SecurityGroup, VpcPeering, Database, DbaasUser,
                  DatabaseBackup}
  BY <1>5, <1>2 DEF Subnet, SecurityGroup, VpcPeering, Database, DbaasUser,
                    DatabaseBackup, Param
<1>6. CASE c \in {VpcPeeringRoute, SecurityRule, DatabaseGrant}
  BY <1>6, <1>3 DEF VpcPeeringRoute, SecurityRule, DatabaseGrant, Param
<1>7. QED
  BY <1>1, <1>4, <1>5, <1>6

LEMMA ReversibleConfigs ==
  ASSUME NEW k \in Kinds
  PROVE  LET c == ExternalNameConfigs[k]
         IN /\ k \in ReversibleKinds <=> c = IdentifierFromProvider \/ SegmentConfig(c)
            /\ k \notin ReversibleKinds => c = WithProjectID
<1> DEFINE c == ExternalNameConfigs[k]
<1>1. k \in ReversibleKinds <=> c.extract # "id" \/ (c.parents = <<>> /\ c.suffix = <<>>)
  BY DEF ReversibleKinds
<1>2. SegmentConfig(c) => c.extract # "id"
  BY DEF SegmentConfig
<1>3. /\ IdentifierFromProvider.parents = <<>> /\ IdentifierFromProvider.suffix = <<>>
      /\ WithProjectID.extract = "id" /\ WithProjectID.parents # <<>>
  BY DEF WithProjectID, IdentifierFromProvider
<1>4. QED
  BY <1>1, <1>2, <1>3, Configs

-------------------------------------------------------------------------------
(* GetIDFn *)

LEMMA ConcatLength ==
  ASSUME NEW S, NEW s \in Seq(S), NEW t \in Seq(S)
  PROVE  s \o t \in Seq(S) /\ Len(s \o t) = Len(s) + Len(t)
BY ConcatProperties

LEMMA ConcatThree ==
  ASSUME NEW S, NEW s \in Seq(S), NEW t \in Seq(S), NEW u \in Seq(S)
  PROVE  /\ (s \o t) \o u \in Seq(S)
         /\ Len((s \o t) \o u) = (Len(s) + Len(t)) + Len(u)
<1>1. s \o t \in Seq(S) /\ Len(s \o t) = Len(s) + Len(t)
  BY ConcatLength
<1> DEFINE v == s \o t
<1> HIDE DEF v
<1>2. v \in Seq(S) /\ Len(v) = Len(s) + Len(t)
  BY <1>1 DEF v
<1>3. v \o u \in Seq(S) /\ Len(v \o u) = Len(v) + Len(u)
  BY <1>2, ConcatLength, Zenon
<1>4. QED
  BY <1>2, <1>3 DEF v

\* The parameters put before or after the name, when they hold no slash, take
\* one segment each.
LEMMA JoinedLength ==
  ASSUME NEW names \in Seq(Param), Len(names) \in 0..3,
         NEW p, Flat(p)
  PROVE  /\ Joined(names, p) \in Seq(Segment)
         /\ Len(Joined(names, p)) = Len(names)
<1>1. ASSUME NEW i \in 1..Len(names)
      PROVE  p[names[i]] \in Seq(Segment) /\ Len(p[names[i]]) = 1
  <2>1. names[i] \in Param
    BY ElementOfSeq
  <2>2. PICK s \in Segment : p[names[i]] = <<s>>
    BY <2>1 DEF Flat
  <2>3. QED
    BY <2>2
<1>2. CASE Len(names) = 0
  BY <1>2 DEF Joined
<1>3. CASE Len(names) = 1
  <2>1. Joined(names, p) = p[names[1]]
    BY <1>3 DEF Joined
  <2>2. QED
    BY <2>1, <1>1, <1>3
<1>4. CASE Len(names) = 2
  <2>1. Len(names) # 0 /\ Len(names) # 1
    BY <1>4
  <2>2. Joined(names, p) = p[names[1]] \o p[names[2]]
    BY <2>1, <1>4, Zenon DEF Joined
  <2>3. /\ p[names[1]] \in Seq(Segment) /\ Len(p[names[1]]) = 1
        /\ p[names[2]] \in Seq(Segment) /\ Len(p[names[2]]) = 1
    BY <1>1, <1>4
  <2>4. /\ Joined(names, p) \in Seq(Segment)
        /\ Len(Joined(names, p)) = Len(p[names[1]]) + Len(p[names[2]])
    BY <2>2, <2>3, ConcatLength, Zenon
  <2>5. QED
    BY <2>4, <2>3, <1>4
<1>5. CASE Len(names) = 3
  <2> DEFINE front == p[names[1]] \o p[names[2]]
  <2>1. Len(names) # 0 /\ Len(names) # 1 /\ Len(names) # 2
    BY <1>5
  <2>2. Joined(names, p) = front \o p[names[3]]
    BY <2>1, Zenon DEF Joined
  <2>3. /\ p[names[1]] \in Seq(Segment) /\ Len(p[names[1]]) = 1
        /\ p[names[2]] \in Seq(Segment) /\ Len(p[names[2]]) = 1
        /\ p[names[3]] \in Seq(Segment) /\ Len(p[names[3]]) = 1
    BY <1>1, <1>5
  <2>4. /\ front \in Seq(Segment)
        /\ Len(front) = Len(p[names[1]]) + Len(p[names[2]])
    BY <2>3, ConcatLength, Zenon
  <2> HIDE DEF front
  <2>5. /\ Joined(names, p) \in Seq(Segment)
        /\ Len(Joined(names, p)) = Len(front) + Len(p[names[3]])
    BY <2>2, <2>3, <2>4, ConcatLength, Zenon
  <2>6. QED
    BY <2>5, <2>4, <2>3, <1>5
<1>6. QED
  BY <1>2, <1>3, <1>4, <1>5

-------------------------------------------------------------------------------
(* Ids are strings. *)

\* What every configuration in the table looks like.
AnyConfig(c) ==
  /\ c.parents \in Seq(Param) /\ Len(c.parents) \in 0..3
  /\ c.suffix \in Seq(Param) /\ Len(c.suffix) \in 0..3
  /\ c.leaf \in Nat
  /\ c.extract \in {"id", "leaf", "middle"}

LEMMA ConfigShapes ==
  ASSUME NEW k \in Kinds
  PROVE  AnyConfig(ExternalNameConfigs[k])
<1> DEFINE c == ExternalNameConfigs[k]
<1>1. c \in {IdentifierFromProvider, WithProjectID, Subnet, SecurityGroup,
             VpcPeering, VpcPeeringRoute, SecurityRule, Snapshot, Database,
             DbaasUser, DatabaseGrant, DatabaseBackup}
  BY KindList DEF ExternalNameConfigs
<1>2. ASSUME NEW q \in Param
      PROVE  AnyConfig(Leaf(<<"project_id", q>>, 2))
  BY DEF AnyConfig, Leaf, IdentifierFromProvider, Param
<1>3. ASSUME NEW q \in Param, NEW r \in Param
      PROVE  AnyConfig(Leaf(<<"project_id", q, r>>, 3))
  BY DEF AnyConfig, Leaf, IdentifierFromProvider, Param
<1>4. /\ AnyConfig(Snapshot) /\ AnyConfig(WithProjectID)
      /\ AnyConfig(IdentifierFromProvider)
  BY DEF AnyConfig, Snapshot, WithProjectID, IdentifierFromProvider, Param
<1>5. CASE c \in {Subnet, SecurityGroup, VpcPeering, Database, DbaasUser,
                  DatabaseBackup}
  BY <1>5, <1>2 DEF Subnet, SecurityGroup, VpcPeering, Database, DbaasUser,
                    DatabaseBackup, Param
<1>6. CASE c \in {VpcPeeringRoute, SecurityRule, DatabaseGrant}
  BY <1>6, <1>3 DEF VpcPeeringRoute, SecurityRule, DatabaseGrant, Param
<1>7. QED
  BY <1>1, <1>4, <1>5, <1>6

LEMMA StrAsSeq == Str = {s \in Seq(Segment) : Len(s) > 0}
<1>1. ASSUME NEW s \in Seq(Segment) PROVE s # <<>> <=> Len(s) > 0
  OBVIOUS
<1>2. QED
  BY <1>1 DEF Str, Segment

\* The parameters put before or after the name hold at least a segment each, and
\* more than their number when one of them holds a slash.
LEMMA JoinedSegments ==
  ASSUME NEW S, NEW names \in Seq(Param), Len(names) \in 0..3,
         NEW p \in [Param -> {s \in Seq(S) : Len(s) > 0}]
  PROVE  /\ Joined(names, p) \in Seq(S)
         /\ Len(Joined(names, p)) >= Len(names)
         /\ \A i \in 1..Len(names) :
              Len(p[names[i]]) > 1 => Len(Joined(names, p)) > Len(names)
<1>1. ASSUME NEW i \in 1..Len(names)
      PROVE  /\ p[names[i]] \in Seq(S) /\ Len(p[names[i]]) > 0
             /\ Len(p[names[i]]) \in Nat
  <2>1. names[i] \in Param
    BY ElementOfSeq
  <2>2. p[names[i]] \in Seq(S) /\ Len(p[names[i]]) > 0
    BY <2>1
  <2>3. QED
    BY <2>2, LenProperties
<1>2. CASE Len(names) = 0
  BY <1>2 DEF Joined
<1>3. CASE Len(names) = 1
  <2>1. Joined(names, p) = p[names[1]]
    BY <1>3 DEF Joined
  <2>2. QED
    BY <2>1, <1>1, <1>3
<1>4. CASE Len(names) = 2
  <2>1. Len(names) # 0 /\ Len(names) # 1
    BY <1>4
  <2>2. Joined(names, p) = p[names[1]] \o p[names[2]]
    BY <2>1, <1>4, Zenon DEF Joined
  <2>3. p[names[1]] \in Seq(S) /\ p[names[2]] \in Seq(S)
    BY <1>1, <1>4
  <2> DEFINE j == Len(Joined(names, p))
             l1 == Len(p[names[1]])
             l2 == Len(p[names[2]])
  <2>4. Joined(names, p) \in Seq(S) /\ j = l1 + l2
    BY <2>2, <2>3, ConcatLength, Zenon
  <2>5. l1 \in Nat /\ l1 > 0 /\ l2 \in Nat /\ l2 > 0
    BY <1>1, <1>4
  <2>6. \A i \in 1..Len(names) : Len(p[names[i]]) > 1 => l1 > 1 \/ l2 > 1
    <3>1. \A i \in 1..Len(names) : i = 1 \/ i = 2
      BY <1>4
    <3>2. QED
      BY <3>1
  <2> HIDE DEF j, l1, l2
  <2>7. j >= 2 /\ (l1 > 1 \/ l2 > 1 => j > 2)
    BY <2>4, <2>5
  <2>8. QED
    BY <1>4, <2>4, <2>6, <2>7 DEF j
<1>5. CASE Len(names) = 3
  <2>1. Len(names) # 0 /\ Len(names) # 1 /\ Len(names) # 2
    BY <1>5
  <2>2. Joined(names, p) = (p[names[1]] \o p[names[2]]) \o p[names[3]]
    BY <2>1, Zenon DEF Joined
  <2>3. /\ p[names[1]] \in Seq(S) /\ p[names[2]] \in Seq(S)
        /\ p[names[3]] \in Seq(S)
    BY <1>1, <1>5
  <2> DEFINE j == Len(Joined(names, p))
             l1 == Len(p[names[1]])
             l2 == Len(p[names[2]])
             l3 == Len(p[names[3]])
  <2>4. Joined(names, p) \in Seq(S) /\ j = (l1 + l2) + l3
    <3>1. /\ (p[names[1]] \o p[names[2]]) \o p[names[3]] \in Seq(S)
          /\ Len((p[names[1]] \o p[names[2]]) \o p[names[3]])
               = (Len(p[names[1]]) + Len(p[names[2]])) + Len(p[names[3]])
      BY <2>3, ConcatThree
    <3>2. QED
      BY <2>2, <3>1, Zenon
  <2>5. l1 \in Nat /\ l1 > 0 /\ l2 \in Nat /\ l2 > 0 /\ l3 \in Nat /\ l3 > 0
    BY <1>1, <1>5
  <2>6. \A i \in 1..Len(names) : Len(p[names[i]]) > 1 => l1 > 1 \/ l2 > 1 \/ l3 > 1
    <3>1. \A i \in 1..Len(names) : i = 1 \/ i = 2 \/ i = 3
      BY <1>5
    <3>2. QED
      BY <3>1
  <2> HIDE DEF j, l1, l2, l3
  <2>7. j >= 3 /\ (l1 > 1 \/ l2 > 1 \/ l3 > 1 => j > 3)
    BY <2>4, <2>5
  <2>8. QED
    BY <1>5, <2>4, <2>6, <2>7 DEF j
<1>6. QED
  BY <1>2, <1>3, <1>4, <1>5

\* GetIDFn looks at the parameters it needs and at no others.
LEMMA IdFromRequired ==
  ASSUME NEW k \in Kinds, NEW s, NEW p, NEW t,
         \A q \in Required(ExternalNameConfigs[k]) : p[q] = t[q]
  PROVE  GetID(ExternalNameConfigs[k], s, p) = GetID(ExternalNameConfigs[k], s, t)
<1> DEFINE c == ExternalNameConfigs[k]
<1>1. AnyConfig(c)
  BY ConfigShapes
<1> HIDE DEF c
<1>2. ASSUME NEW names \in Seq(Param), Len(names) \in 0..3,
             \A i \in DOMAIN names : p[names[i]] = t[names[i]]
      PROVE  Joined(names, p) = Joined(names, t)
  <2>1. \A i \in 1..Len(names) : p[names[i]] = t[names[i]]
    BY <1>2
  <2>2. QED
    BY <1>2, <2>1 DEF Joined
<1>3. /\ \A i \in DOMAIN c.parents : p[c.parents[i]] = t[c.parents[i]]
      /\ \A i \in DOMAIN c.suffix : p[c.suffix[i]] = t[c.suffix[i]]
  BY DEF Required, c
<1>4. Joined(c.parents, p) = Joined(c.parents, t) /\ Joined(c.suffix, p) = Joined(c.suffix, t)
  BY <1>1, <1>2, <1>3 DEF AnyConfig
<1>5. QED
  BY <1>4 DEF GetID, c

LEMMA FlatIsStr ==
  ASSUME NEW p, Flat(p)
  PROVE  p \in [Param -> Str]
<1>1. ASSUME NEW s \in Segment PROVE <<s>> \in Str
  BY DEF Str, Segment
<1>2. QED
  BY <1>1 DEF Flat

\* GetIDFn makes a string of strings.
LEMMA GetIDIsStr ==
  ASSUME NEW k \in Kinds, NEW s \in Str, NEW p \in [Param -> Str]
  PROVE  GetID(ExternalNameConfigs[k], s, p) \in Str
<1> DEFINE c == ExternalNameConfigs[k]
           pre == Joined(c.parents, p)
           suf == Joined(c.suffix, p)
<1>1. pre \in Seq(Segment) /\ suf \in Seq(Segment)
  BY ConfigShapes, JoinedSegments, StrAsSeq DEF AnyConfig
<1>2. s \in Seq(Segment) /\ Len(s) > 0
  BY StrAsSeq
<1>3. GetID(c, s, p) = (pre \o s) \o suf
  BY DEF GetID
<1> HIDE DEF pre, suf
<1>4. /\ pre \o s \in Seq(Segment)
      /\ Len(pre \o s) = Len(pre) + Len(s)
  BY <1>1, <1>2, ConcatLength, Zenon
<1>5. /\ (pre \o s) \o suf \in Seq(Segment)
      /\ Len((pre \o s) \o suf) = Len(pre \o s) + Len(suf)
  BY <1>1, <1>4, ConcatLength, Zenon
<1>6. Len(pre) \in Nat /\ Len(s) \in Nat /\ Len(suf) \in Nat
  BY <1>1, <1>2, LenProperties
<1>7. QED
  BY <1>2, <1>3, <1>4, <1>5, <1>6, StrAsSeq

\* GetExternalNameFn makes a string of a string.
LEMMA GetExternalNameIsStr ==
  ASSUME NEW k \in Kinds, NEW s \in Str
  PROVE  GetExternalName(ExternalNameConfigs[k], s) \in Str
<1> DEFINE c == ExternalNameConfigs[k]
<1>1. s \in Seq(Segment) /\ Len(s) > 0
  BY StrAsSeq
<1>2. ASSUME NEW i \in Nat, i < Len(s) PROVE <<s[i + 1]>> \in Str
  BY <1>1, <1>2, StrAsSeq
<1>3. AnyConfig(c)
  BY ConfigShapes
<1> HIDE DEF c
<1>4. LeafIDFromSlash(c.leaf, s) \in Str
  BY <1>1, <1>2, <1>3 DEF LeafIDFromSlash, AnyConfig
<1>5. MiddleOfThree(s) \in Str
  BY <1>1, StrAsSeq DEF MiddleOfThree
<1>6. QED
  BY <1>3, <1>4, <1>5 DEF GetExternalName, AnyConfig, c

-------------------------------------------------------------------------------
(* The round trip. *)

LEMMA MiddleSegment ==
  ASSUME NEW S, NEW s \in Seq(S), NEW x \in S, NEW t \in Seq(S)
  PROVE  /\ (s \o <<x>>) \o t \in Seq(S)
         /\ Len((s \o <<x>>) \o t) = Len(s) + 1 + Len(t)
         /\ ((s \o <<x>>) \o t)[Len(s) + 1] = x
<1>1. <<x>> \in Seq(S) /\ Len(<<x>>) = 1 /\ <<x>>[1] = x
  OBVIOUS
<1>2. /\ s \o <<x>> \in Seq(S) /\ Len(s \o <<x>>) = Len(s) + 1
      /\ (s \o <<x>>)[Len(s) + 1] = x
  BY <1>1, ConcatProperties, LenProperties
<1> DEFINE u == s \o <<x>>
<1> HIDE DEF u
<1>3. u \in Seq(S) /\ Len(u) = Len(s) + 1 /\ u[Len(s) + 1] = x
  BY <1>2 DEF u
<1>4. u \o t \in Seq(S) /\ Len(u \o t) = Len(u) + Len(t)
  BY <1>3, ConcatLength, Zenon
<1>5. Len(s) \in Nat /\ Len(t) \in Nat
  BY LenProperties
<1>6. Len(s) + 1 \in 1 .. Len(u) + Len(t) /\ Len(s) + 1 <= Len(u)
  BY <1>3, <1>5
<1>7. (u \o t)[Len(s) + 1] = u[Len(s) + 1]
  BY <1>3, <1>6, ConcatProperties
<1>8. QED
  BY <1>3, <1>4, <1>7 DEF u

\* For a kind that reads a segment out of the id, what is read from an import path
\* is what the path was made from, also when that is empty.
LEMMA SegmentIsRead ==
  ASSUME NEW c, SegmentConfig(c), NEW x \in Segment, NEW p, Flat(p)
  PROVE  GetExternalName(c, GetID(c, <<x>>, p)) = <<x>>
<1> DEFINE pre == Joined(c.parents, p)
           suf == Joined(c.suffix, p)
           id == (pre \o <<x>>) \o suf
<1>1. pre \in Seq(Segment) /\ Len(pre) = Len(c.parents)
  <2>1. c.parents \in Seq(Param) /\ Len(c.parents) \in 0..3
    BY DEF SegmentConfig
  <2>2. QED
    BY <2>1, JoinedLength
<1>2. suf \in Seq(Segment) /\ Len(suf) = Len(c.suffix)
  <2>1. c.suffix \in Seq(Param) /\ Len(c.suffix) \in 0..3
    <3>1. <<>> \in Seq(Param) /\ Len(<<>>) = 0
      OBVIOUS
    <3>2. <<"billing_period">> \in Seq(Param) /\ Len(<<"billing_period">>) = 1
      BY DEF Param
    <3>3. c.suffix = <<>> \/ c.suffix = <<"billing_period">>
      BY DEF SegmentConfig
    <3>4. 0 \in 0..3 /\ 1 \in 0..3
      OBVIOUS
    <3>5. QED
      BY <3>1, <3>2, <3>3, <3>4, Zenon
  <2>2. QED
    BY <2>1, JoinedLength
<1>3. GetID(c, <<x>>, p) = id
  BY DEF GetID
<1> HIDE DEF pre, suf
<1>4. id \in Seq(Segment) /\ Len(id) = Len(pre) + 1 + Len(suf)
      /\ id[Len(pre) + 1] = x
  <2>1. pre \in Seq(Segment) /\ suf \in Seq(Segment)
    BY <1>1, <1>2
  <2>2. /\ (pre \o <<x>>) \o suf \in Seq(Segment)
        /\ Len((pre \o <<x>>) \o suf) = Len(pre) + 1 + Len(suf)
        /\ ((pre \o <<x>>) \o suf)[Len(pre) + 1] = x
    BY <2>1, MiddleSegment
  <2>3. QED
    BY <2>2
<1> HIDE DEF id
<1>5. CASE c.extract = "leaf" /\ c.leaf = Len(c.parents) /\ c.suffix = <<>>
  <2>1. Len(id) > c.leaf /\ id[c.leaf + 1] = x
    BY <1>5, <1>4, <1>1, <1>2
  <2>2. GetExternalName(c, id) = LeafIDFromSlash(c.leaf, id)
    BY <1>5 DEF GetExternalName
  <2>3. QED
    BY <2>1, <2>2, <1>3 DEF LeafIDFromSlash
<1>6. CASE /\ c.extract = "middle" /\ Len(c.parents) = 1
           /\ c.suffix = <<"billing_period">>
  <2>1. Len(id) = 3 /\ id[2] = x
    BY <1>6, <1>4, <1>1, <1>2
  <2>2. GetExternalName(c, id) = MiddleOfThree(id)
    BY <1>6 DEF GetExternalName
  <2>3. QED
    BY <2>1, <2>2, <1>3 DEF MiddleOfThree
<1>7. QED
  BY <1>5, <1>6 DEF SegmentConfig

\* What WithProjectID adds stays in the name.
LEMMA ProjectStays ==
  ASSUME NEW x \in Segment, NEW p, Flat(p)
  PROVE  Len(GetExternalName(WithProjectID, GetID(WithProjectID, <<x>>, p))) = 2
<1> DEFINE pre == Joined(WithProjectID.parents, p)
<1>1. /\ WithProjectID.parents \in Seq(Param) /\ Len(WithProjectID.parents) = 1
      /\ WithProjectID.suffix = <<>> /\ WithProjectID.extract = "id"
  BY DEF WithProjectID, IdentifierFromProvider, Param
<1>2. pre \in Seq(Segment) /\ Len(pre) = 1
  BY <1>1, JoinedLength
<1>3. Joined(<<>>, p) = <<>>
  BY DEF Joined
<1>4. GetID(WithProjectID, <<x>>, p) = (pre \o <<x>>) \o <<>>
  BY <1>1, <1>3 DEF GetID
<1> HIDE DEF pre
<1>5. <<>> \in Seq(Segment) /\ Len(<<>>) = 0
  OBVIOUS
<1>6. Len((pre \o <<x>>) \o <<>>) = 2
  <2>1. ASSUME NEW t \in Seq(Segment), Len(t) = 0
        PROVE  Len((pre \o <<x>>) \o t) = 2
    BY <1>2, <2>1, MiddleSegment
  <2>2. QED
    BY <1>5, <2>1
<1>7. QED
  BY <1>1, <1>4, <1>6 DEF GetExternalName

LEMMA NothingAdded ==
  ASSUME NEW x, NEW p
  PROVE  GetID(IdentifierFromProvider, <<x>>, p) = <<x>>
<1>1. Joined(<<>>, p) = <<>>
  BY DEF Joined
<1>2. GetID(IdentifierFromProvider, <<x>>, p) = (<<>> \o <<x>>) \o <<>>
  BY <1>1 DEF GetID, IdentifierFromProvider
<1>3. QED
  BY <1>2, EmptySeq, ConcatEmptySeq

\* For every kind that reads a segment out of the id, and for the one to whose id
\* nothing is added, the name read from an import path is the name the path was made
\* from: GetExternalNameFn undoes GetIDFn (config/external_name.go), whatever the ids
\* of the parents are, and also when the name is empty.
THEOREM RoundTrip ==
  ASSUME NEW k \in ReversibleKinds, NEW x \in Segment, NEW p, Flat(p)
  PROVE  GetExternalName(ExternalNameConfigs[k],
                         GetID(ExternalNameConfigs[k], <<x>>, p)) = <<x>>
<1> DEFINE c == ExternalNameConfigs[k]
<1>1. c = IdentifierFromProvider \/ SegmentConfig(c)
  BY ReversibleConfigs DEF ReversibleKinds
<1>2. CASE c = IdentifierFromProvider
  BY <1>2, NothingAdded DEF GetExternalName, IdentifierFromProvider
<1>3. CASE SegmentConfig(c)
  BY <1>3, SegmentIsRead
<1>4. QED
  BY <1>1, <1>2, <1>3

\* For all the others it never is: the fourteen kinds configured with WithProjectID
\* read back the project along with the leaf, whatever project and leaf are.
THEOREM NoOtherRoundTrip ==
  ASSUME NEW k \in Kinds \ ReversibleKinds, NEW x \in Segment, NEW p, Flat(p)
  PROVE  GetExternalName(ExternalNameConfigs[k],
                         GetID(ExternalNameConfigs[k], <<x>>, p)) # <<x>>
<1>1. ExternalNameConfigs[k] = WithProjectID
  BY ReversibleConfigs
<1>2. Len(<<x>>) # 2
  OBVIOUS
<1>3. QED
  BY <1>1, <1>2, ProjectStays

\* An id that already is a leaf is left alone, so it does not matter which of
\* the two forms the Terraform provider stores.
THEOREM LeafStaysLeaf ==
  ASSUME NEW k \in Kinds, NEW x \in Segment
  PROVE  GetExternalName(ExternalNameConfigs[k], <<x>>) = <<x>>
<1> DEFINE c == ExternalNameConfigs[k]
<1>1. c \in {IdentifierFromProvider, WithProjectID} \/ SegmentConfig(c)
  BY Configs
<1> HIDE DEF c
<1>2. CASE c.extract = "leaf" /\ c.leaf = Len(c.parents) /\ Len(c.parents) \in 1..3
  BY <1>2 DEF GetExternalName, LeafIDFromSlash, c
<1>3. CASE c.extract = "middle"
  BY <1>3 DEF GetExternalName, MiddleOfThree, c
<1>4. CASE c.extract = "id"
  BY <1>4 DEF GetExternalName, c
<1>5. c \in {IdentifierFromProvider, WithProjectID} => c.extract = "id"
  BY DEF IdentifierFromProvider, WithProjectID
<1>6. QED
  BY <1>1, <1>2, <1>3, <1>4, <1>5 DEF SegmentConfig
\* A parameter that holds a slash, as the import path of a parent does, moves every
\* segment behind it: what is read is not the leaf any more, whichever index the kind
\* reads, unless the leaf happens to occur among the parameters.
THEOREM PathMovesSegments ==
  ASSUME NEW c, SegmentConfig(c), NEW x \in Segment,
         NEW p \in [Param -> {s \in Seq(Segment \ {x}) : Len(s) > 0}],
         \E q \in Required(c) : Len(p[q]) > 1
  PROVE  GetExternalName(c, GetID(c, <<x>>, p)) # <<x>>
<1> DEFINE S   == Segment \ {x}
           pre == Joined(c.parents, p)
           suf == Joined(c.suffix, p)
           id  == (pre \o <<x>>) \o suf
<1>1. /\ c.parents \in Seq(Param) /\ Len(c.parents) \in 0..3
      /\ c.suffix \in Seq(Param) /\ Len(c.suffix) \in 0..1
  <2>1. <<>> \in Seq(Param) /\ Len(<<>>) = 0
    OBVIOUS
  <2>2. <<"billing_period">> \in Seq(Param) /\ Len(<<"billing_period">>) = 1
    BY DEF Param
  <2>3. c.suffix = <<>> \/ c.suffix = <<"billing_period">>
    BY DEF SegmentConfig
  <2>4. c.parents \in Seq(Param) /\ Len(c.parents) \in 1..3
    BY DEF SegmentConfig
  <2>5. c.suffix \in Seq(Param) /\ Len(c.suffix) \in 0..1
    <3>1. 0 \in 0..1 /\ 1 \in 0..1
      OBVIOUS
    <3>2. QED
      BY <2>1, <2>2, <2>3, <3>1, Zenon
  <2>6. QED
    BY <2>4, <2>5
<1>2. /\ pre \in Seq(S) /\ Len(pre) >= Len(c.parents)
      /\ \A i \in 1..Len(c.parents) : Len(p[c.parents[i]]) > 1 => Len(pre) > Len(c.parents)
  BY <1>1, JoinedSegments
<1>3. /\ suf \in Seq(S) /\ Len(suf) >= Len(c.suffix)
      /\ \A i \in 1..Len(c.suffix) : Len(p[c.suffix[i]]) > 1 => Len(suf) > Len(c.suffix)
  <2>1. Len(c.suffix) \in 0..3
    BY <1>1
  <2>2. QED
    BY <1>1, <2>1, JoinedSegments
<1>4. GetID(c, <<x>>, p) = id
  BY DEF GetID
<1>5. Len(pre) > Len(c.parents) \/ Len(suf) > Len(c.suffix)
  <2>1. PICK q \in Required(c) : Len(p[q]) > 1
    OBVIOUS
  <2>2. \/ \E i \in 1..Len(c.parents) : q = c.parents[i]
        \/ \E i \in 1..Len(c.suffix) : q = c.suffix[i]
    BY <1>1 DEF Required
  <2>3. QED
    BY <1>2, <1>3, <2>1, <2>2
<1> HIDE DEF pre, suf
<1>6. Len(pre) \in Nat /\ Len(suf) \in Nat /\ pre \in Seq(Segment) /\ suf \in Seq(Segment)
  BY <1>2, <1>3, LenProperties, SeqMonotonic
<1>7. id \in Seq(Segment) /\ Len(id) = Len(pre) + 1 + Len(suf)
  BY <1>6, MiddleSegment
<1> HIDE DEF id
<1>8. CASE c.extract = "leaf" /\ c.leaf = Len(c.parents) /\ c.suffix = <<>>
  <2> DEFINE m == Len(c.parents)
  <2>1. Len(pre) > m /\ m \in 0..3
    <3>1. CASE Len(pre) > m
      BY <1>1, <3>1
    <3>2. CASE Len(suf) > Len(c.suffix)
      <4>1. suf = <<>>
        BY <1>8 DEF suf, Joined
      <4>2. QED
        BY <1>8, <3>2, <4>1
    <3>3. QED
      BY <1>5, <3>1, <3>2
  <2> HIDE DEF m
  <2>2. m + 1 \in 1..Len(pre) /\ m + 1 \in 1..Len(pre \o <<x>>)
    <3>1. Len(pre \o <<x>>) = Len(pre) + 1
      BY <1>6, ConcatLength
    <3>2. QED
      BY <1>6, <2>1, <3>1
  <2>3. id[m + 1] = pre[m + 1]
    <3>1. (pre \o <<x>>)[m + 1] = pre[m + 1]
      BY <1>6, <2>2, ConcatProperties
    <3>2. pre \o <<x>> \in Seq(Segment)
      BY <1>6, ConcatLength
    <3>3. ((pre \o <<x>>) \o suf)[m + 1] = (pre \o <<x>>)[m + 1]
      BY <1>6, <2>2, <3>2, ConcatProperties
    <3>4. QED
      BY <3>1, <3>3 DEF id
  <2>4. pre[m + 1] # x
    BY <1>2, <2>2, ElementOfSeq
  <2>5. GetExternalName(c, id) = <<id[m + 1]>>
    BY <1>6, <1>7, <1>8, <2>1 DEF GetExternalName, LeafIDFromSlash, m
  <2>6. <<id[m + 1]>> # <<x>>
    BY <2>3, <2>4
  <2>7. QED
    BY <1>4, <2>5, <2>6
<1>9. CASE /\ c.extract = "middle" /\ Len(c.parents) = 1
           /\ c.suffix = <<"billing_period">>
  <2>1. Len(c.suffix) = 1
    BY <1>9
  <2>2. Len(id) > 3 /\ Len(id) \in Nat
    BY <1>2, <1>3, <1>5, <1>6, <1>7, <1>9, <2>1
  <2>3. GetExternalName(c, id) = MiddleOfThree(id)
    BY <1>9 DEF GetExternalName
  <2>4. MiddleOfThree(id) = id
    BY <1>7, <2>2 DEF MiddleOfThree
  <2>5. ASSUME id = <<x>> PROVE FALSE
    <3>1. Len(id) = 1
      BY <2>5
    <3>2. QED
      BY <2>2, <3>1
  <2>6. QED
    BY <1>4, <2>3, <2>4, <2>5
<1>10. QED
  BY <1>8, <1>9 DEF SegmentConfig
===============================================================================
