----------------------------- MODULE BindingContract -----------------------------
(***************************************************************************)
(* What references promise to the users who write them, however a          *)
(* controller finds out what they refer to: all the references of an       *)
(* object are bound in one step, each to something the object it refers to *)
(* has had, and stay as they are until the object goes; nothing is created *)
(* for an object with a reference left open, nor twice for one object.     *)
(* ReferenceResolution implements this.                                    *)
(***************************************************************************)
EXTENDS Naturals

CONSTANTS
  Object,    \* the names of the objects
  Target,    \* the object each reference of an object names
  Fresh,     \* the references of a new object: what its user gave, or Open
  Open,      \* the value of a reference that is not bound
  Offers     \* Offers[o][i][n]: what reference i of o may be bound to when its
             \* target has had n resources

VARIABLES
  phase,     \* absent, present or deleting, for each object
  bound,     \* what its references are bound to
  named,     \* does it have a resource?
  issued     \* how many resources each object has had

binding == <<phase, bound, named, issued>>

Init ==
  /\ phase = [o \in Object |-> "absent"] /\ bound = Fresh
  /\ named = [o \in Object |-> FALSE] /\ issued = [o \in Object |-> 0]

IsOpen(o) == \E i \in DOMAIN bound[o] : bound[o][i] = Open

Appear(o) ==
  /\ phase[o] = "absent" /\ phase' = [phase EXCEPT ![o] = "present"]
  /\ UNCHANGED <<bound, named, issued>>

\* What is bound is kept. The rest is bound together, to what the targets have
\* had by now; it is not said that they still exist.
Bind(o) ==
  /\ phase[o] = "present" /\ IsOpen(o)
  /\ bound' = [bound EXCEPT ![o] = bound'[o]]
  /\ DOMAIN bound'[o] = DOMAIN bound[o]
  /\ \A i \in DOMAIN bound[o] :
       IF bound[o][i] # Open THEN bound'[o][i] = bound[o][i]
       ELSE bound'[o][i] \in Offers[o][i][issued[Target[o][i]]] \ {Open}
  /\ UNCHANGED <<phase, named, issued>>

Provide(o) ==
  /\ phase[o] = "present" /\ ~IsOpen(o) /\ ~named[o]
  /\ named' = [named EXCEPT ![o] = TRUE]
  /\ issued' = [issued EXCEPT ![o] = @ + 1]
  /\ UNCHANGED <<phase, bound>>

Delete(o) ==
  /\ phase[o] = "present" /\ phase' = [phase EXCEPT ![o] = "deleting"]
  /\ UNCHANGED <<bound, named, issued>>

Go(o) ==
  /\ phase[o] # "absent" /\ phase' = [phase EXCEPT ![o] = "absent"]
  /\ bound' = [bound EXCEPT ![o] = Fresh[o]]
  /\ named' = [named EXCEPT ![o] = FALSE]
  /\ UNCHANGED issued

Next == \E o \in Object : Appear(o) \/ Bind(o) \/ Provide(o) \/ Delete(o) \/ Go(o)

Spec == Init /\ [][Next]_binding
===============================================================================
