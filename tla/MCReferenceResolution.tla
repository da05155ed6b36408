------------------------- MODULE MCReferenceResolution -------------------------
(* Small instances of ReferenceResolution: a VPC, a subnet in it and a kaas   *)
(* cluster on both, all in a project given by its id.                         *)
EXTENDS ReferenceResolution, TLC

MCKindOf == [o \in Object |-> o]
MCTarget ==
  [o \in Object |->
     CASE o = "vpc"    -> <<None>>
       [] o = "subnet" -> <<None, "vpc">>
       [] o = "kaas"   -> <<None, "subnet", "vpc", None>>]
MCName == (Object \cup {None}) \X (0..MaxChanges)
MCBlank == <<"", 0>>
===============================================================================
