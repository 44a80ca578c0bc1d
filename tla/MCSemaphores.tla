---------------------------- MODULE MCSemaphores ----------------------------
(***************************************************************************)
(* Semaphores with the initial values a .cfg cannot write down.            *)
(***************************************************************************)
EXTENDS Semaphores

NegativeValues == {-1, 0}

=============================================================================
