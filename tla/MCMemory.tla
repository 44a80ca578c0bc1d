------------------------------ MODULE MCMemory ------------------------------
(***************************************************************************)
(* Memory with the requests a .cfg cannot write down: the negative ones.   *)
(***************************************************************************)
EXTENDS Memory

SmallRequests == {-1, 1, 2}

=============================================================================
