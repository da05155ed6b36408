---------------------------- MODULE MCIdentityCycle ----------------------------
(* IdentityCycle on every reversible kind (ExternalName), two resources and   *)
(* every combination of missing and present parameters; and what the reference *)
(* tables, which fill in these parameters, say of all kinds.                   *)
EXTENDS IdentityCycle, References, TLC

MCName == {"proj", "x1", "x2"}
MCValue == {<<"">>, <<"proj">>}

ASSUME ResolversAreCurrent == GeneratedAsConfigured
ASSUME ParentsAreResolved == ParentsAreReferences
ASSUME NoCircles == ReferencesDescend
===============================================================================
