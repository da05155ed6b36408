-------------------------- MODULE IdentityCycleProofs --------------------------
(***************************************************************************)
(* The identity of a resource survives every cycle, for every kind whose   *)
(* GetExternalNameFn undoes its GetIDFn and every value of the constants.  *)
(***************************************************************************)
EXTENDS IdentityCycle, ExternalNameProofs

\* NameIsLeaf is not inductive: what Record writes depends on the state, so the
\* invariant must also say that the state names the resource.
IInv ==
  /\ kind \in CheckedKinds
  /\ params \in [Param -> Value]
  /\ resource \in Resource
  /\ IdNamesResource
  /\ NameIsLeaf

-------------------------------------------------------------------------------
\* The parameters of a cycle hold no slash.
LEMMA ParamsFlat ==
  ASSUME params \in [Param -> Value]
  PROVE  Flat(params)
<1>1. Value \subseteq {<<s>> : s \in Segment}
  BY ValueIsFlat DEF Segment
<1>2. QED
  BY <1>1 DEF Flat

\* Whichever id Terraform stores for the resource, its leaf is read from it.
LEMMA StoredIdsAreRead ==
  ASSUME CheckedKinds \subseteq ReversibleKinds, IInv, NEW id \in StoredIds(resource)
  PROVE  GetExternalName(Config, id) = <<resource>>
<1>1. kind \in ReversibleKinds /\ resource \in Name /\ Flat(params)
  BY ResourceIsName, ParamsFlat DEF IInv
<1>2. CASE id = <<resource>>
  BY <1>1, <1>2, LeafStaysLeaf DEF Config, Segment, ReversibleKinds
<1>3. CASE id = GetID(Config, <<resource>>, params)
  BY <1>1, <1>3, RoundTrip DEF Config, Segment
<1>4. QED
  BY <1>2, <1>3 DEF StoredIds

LEMMA InitIInv == Init => IInv
BY DEF Init, IInv, IdNamesResource, NameIsLeaf

LEMMA NextIInv ==
  ASSUME CheckedKinds \subseteq ReversibleKinds, IInv, [Next]_vars
  PROVE  IInv'
<1>1. CASE Create
  <2>1. tfid' \in StoredIds(resource)'
    BY <1>1 DEF Create, StoredIds, Config
  <2>2. QED
    BY <1>1, <2>1 DEF Create, IInv, IdNamesResource, NameIsLeaf
<1>2. CASE Record
  <2>1. tfid \in StoredIds(resource)
    BY <1>2 DEF Record, IInv, IdNamesResource
  <2>2. annotation' = <<resource>>
    BY <1>2, <2>1, StoredIdsAreRead DEF Record
  <2>3. tfid' \in StoredIds(resource)'
    BY <1>2, <2>1 DEF Record, StoredIds, Config
  <2>4. QED
    BY <1>2, <2>2, <2>3 DEF Record, IInv, IdNamesResource, NameIsLeaf
<1>3. CASE Rebuild
  <2>1. annotation = <<resource>>
    BY <1>3 DEF Rebuild, IInv, NameIsLeaf
  <2>2. tfid' \in StoredIds(resource)'
    BY <1>3, <2>1 DEF Rebuild, StoredIds, Config
  <2>3. QED
    BY <1>3, <2>2 DEF Rebuild, IInv, IdNamesResource, NameIsLeaf
<1>4. CASE LoseWorkspace
  BY <1>4 DEF LoseWorkspace, IInv, IdNamesResource, NameIsLeaf
<1>5. CASE UNCHANGED vars
  BY <1>5 DEF vars, IInv, IdNamesResource, NameIsLeaf, StoredIds, Config
<1>6. QED
  BY <1>1, <1>2, <1>3, <1>4, <1>5 DEF Next

-------------------------------------------------------------------------------
\* The external name is always the leaf resource id (docs/external-names.md),
\* for every kind whose GetExternalNameFn takes a segment out of the id.
THEOREM NameIsAlwaysLeaf ==
  ASSUME CheckedKinds \subseteq ReversibleKinds
  PROVE  Spec => []NameIsLeaf
<1>1. IInv /\ [Next]_vars => IInv'
  BY NextIInv
<1>2. IInv => NameIsLeaf
  BY DEF IInv
<1>3. QED
  BY <1>1, <1>2, InitIInv, PTL DEF Spec

\* Terraform's state never names anything but this resource, so that a refresh
\* after a restart looks at the resource the object stands for.
THEOREM IdAlwaysNamesResource ==
  ASSUME CheckedKinds \subseteq ReversibleKinds
  PROVE  Spec => []IdNamesResource
<1>1. IInv /\ [Next]_vars => IInv'
  BY NextIInv
<1>2. IInv => IdNamesResource
  BY DEF IInv
<1>3. QED
  BY <1>1, <1>2, InitIInv, PTL DEF Spec

\* Type correctness, for every kind: ids and names stay strings, however often they
\* are rebuilt from each other and however long they grow.
THEOREM CycleTypeOK == Spec => []TypeOK
<1>1. EmptyStr \in Str /\ \A x \in Resource : <<x>> \in Str
  BY ResourceIsName, StrAsSeq DEF EmptyStr, Segment
<1>2. Init => TypeOK
  BY <1>1 DEF Init, TypeOK
<1>3. TypeOK /\ [Next]_vars => TypeOK'
  <2> SUFFICES ASSUME TypeOK, [Next]_vars PROVE TypeOK'
    OBVIOUS
  <2>1. kind \in Kinds /\ Flat(params)
    BY CheckedKindsAreKinds, ParamsFlat DEF TypeOK
  <2>2. \A s \in Str : GetID(Config, s, params) \in Str /\ GetExternalName(Config, s) \in Str
    BY <2>1, GetIDIsStr, FlatIsStr, GetExternalNameIsStr DEF Config
  <2>3. CASE Create
    BY <1>1, <2>2, <2>3 DEF Create, StoredIds, TypeOK
  <2>4. CASE Record
    BY <2>2, <2>4 DEF Record, TypeOK
  <2>5. CASE Rebuild
    BY <2>2, <2>5 DEF Rebuild, TypeOK
  <2>6. CASE LoseWorkspace
    BY <2>6 DEF LoseWorkspace, TypeOK
  <2>7. CASE UNCHANGED vars
    BY <2>7 DEF vars, TypeOK
  <2>8. QED
    BY <2>3, <2>4, <2>5, <2>6, <2>7 DEF Next
<1>4. QED
  BY <1>2, <1>3, PTL DEF Spec
===============================================================================
