------------------------------- MODULE MCStartup --------------------------------
(* A small instance of Startup: two pods, the controller of one kind and those *)
(* of the provider configs, with and without leader election.                  *)
EXTENDS Startup, TLC

MCUnit == {"vpc", "providerconfig"}
===============================================================================
