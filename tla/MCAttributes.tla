------------------------------ MODULE MCAttributes ------------------------------
(* Small instances of Attributes: promised connection details, a field that is *)
(* never late-initialised, one that is, is required and cannot be changed, and *)
(* one that is late-initialised even with a zero.                              *)
(* What the generated files have to agree on is evaluated for all 25 kinds.    *)
EXTENDS Attributes, SequencesExt

MCCase ==
  {[kind |-> "elasticip", path |-> <<"address">>],
   [kind |-> "cloudserver", path |-> <<"public_ip">>],
   [kind |-> "kaas", path |-> <<"kubeconfig">>],
   [kind |-> "kaas", path |-> <<"management_ip">>],
   [kind |-> "kaas", path |-> <<"network", "pod_cidr">>],
   [kind |-> "subnet", path |-> <<"type">>],
   [kind |-> "dbaas", path |-> <<"storage", "size_gb">>]}

MCPolicySets == {{"*"}, {"Observe"}, {"Observe", "Create", "Update", "Delete"}}

\* The field an autoscaler changes, under the default policies.
Scaled == {[kind |-> "dbaas", path |-> <<"storage", "size_gb">>]}
FullControl == {{"*"}}

-------------------------------------------------------------------------------
(* The generated files agree with each other                                   *)

R == INSTANCE References WITH Name <- {"name"}, Blank <- ""

Dotted(path) == FoldLeft(LAMBDA s, n : s \o "." \o n, Head(path), Tail(path))

References(F) == {Dotted(f.path) : f \in {g \in F : g.ref}}

\* The fields with a reference beside them are those the resolvers fill.
ASSUME ReferencesAreResolved ==
  \A k \in DOMAIN Kind :
    LET resolved == {r[1] : r \in R!RefsOf(k)}
    IN References(Kind[k].object.forProvider) = resolved
       /\ References(Kind[k].object.initProvider) = resolved

\* A reference by URI names a kind that reports its URI.
ASSUME UrisAreReported ==
  \A k \in DOMAIN Kind : \A r \in R!RefsOf(k) :
    r[3] = "uri" => Observable(r[2], <<"uri">>)

\* initProvider has the fields of forProvider, as references or values alike.
ASSUME InitMirrorsFor ==
  \A k \in DOMAIN Kind :
    Paths(Kind[k].object.initProvider) = Paths(Kind[k].object.forProvider)

\* What configure.go publishes is observed, in the status or as a sensitive value.
ASSUME DetailsAreObserved ==
  \A k \in DOMAIN Kind :
    ConnectionAttributes(k) \subseteq
      Paths(Kind[k].object.atProvider) \cup Kind[k].sensitive

\* A field that comes from a secret is sensitive, and nothing sensitive is shown
\* in the status.
ASSUME SensitiveStaysSecret ==
  \A k \in DOMAIN Kind :
    LET o == Kind[k].object
        secrets == Paths({f \in o.forProvider : f.secret})
    IN /\ secrets \subseteq Kind[k].sensitive
       /\ Kind[k].sensitive \cap Paths(o.atProvider) = {}
===============================================================================
