--------------------------- MODULE MCManagedResource ---------------------------
(* Small instances of ManagedResource: three resources, of which at most one  *)
(* exists at the start, parents that are all called "p".                      *)
EXTENDS ManagedResource, TLC

MCName == {"p", "a", "b", "c"}
MCResource == {"a", "b", "c"}
MCParams == [q \in Param |-> <<"p">>]

FullControl == {"Observe", "Create", "Update", "Delete", "LateInitialize"}
NoLateInit == {"Observe", "Create", "Update", "Delete"}

OnlyFull == {FullControl}
ImportPolicies == {{"Observe"}, NoLateInit}
OneShot == {{"Create", "Observe"}}
===============================================================================
