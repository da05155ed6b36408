-------------------------------- MODULE Fields ---------------------------------
(***************************************************************************)
(* The fields of a generated API type. A field is the path of the          *)
(* Terraform attribute its tf tag names (a secret is named by the          *)
(* attribute its reference fills), with what the type says of it: a change *)
(* may replace the resource (fixed), a resolver fills it (ref), its value  *)
(* comes from a secret (secret), it is written even when it is zero        *)
(* (always), it belongs to the elements of a list (listed). A list of      *)
(* plain values is one field.                                              *)
(***************************************************************************)
EXTENDS Sequences

LOCAL Field(n, fixed, ref, secret) ==
  [path |-> <<n>>, fixed |-> fixed, ref |-> ref, secret |-> secret,
   always |-> FALSE, listed |-> FALSE]

Plain(S) == {Field(n, FALSE, FALSE, FALSE) : n \in S}
Fixed(S) == {Field(n, TRUE, FALSE, FALSE) : n \in S}
Refs(S) == {Field(n, FALSE, TRUE, FALSE) : n \in S}
FixedRefs(S) == {Field(n, TRUE, TRUE, FALSE) : n \in S}
FixedSecrets(S) == {Field(n, TRUE, FALSE, TRUE) : n \in S}

\* A field that a nested struct requires goes without omitempty.
Always(F) == {[f EXCEPT !.always = TRUE] : f \in F}

Nest(n, F) == {[f EXCEPT !.path = <<n>> \o f.path] : f \in F}
NestList(n, F) == {[f EXCEPT !.listed = TRUE] : f \in Nest(n, F)}

\* The three blocks of an object, and the fields that the admission rules on its
\* spec ask for in forProvider or initProvider.
Object(forProvider, initProvider, atProvider, required) ==
  [forProvider |-> forProvider, initProvider |-> initProvider,
   atProvider |-> atProvider, required |-> required]

Paths(F) == {f.path : f \in F}
===============================================================================
