--------------------------- MODULE FifoSemaphore ---------------------------
(***************************************************************************)
(* What one semaphore of sys.c promises: a permit for each signal, handed  *)
(* to the waiters in the order of their arrival; a semaphore that is being *)
(* destroyed lets its waiters go one by one and then is no more.           *)
(***************************************************************************)
EXTENDS Naturals, Sequences

CONSTANT Task

VARIABLES status, permits, waiting

fsvars == <<status, permits, waiting>>

Init == status = "none" /\ permits = 0 /\ waiting = <<>>

Create ==
  /\ status = "none"
  /\ status' = "live" /\ permits' \in Nat /\ waiting' = <<>>

Acquire ==
  /\ status = "live" /\ permits > 0
  /\ permits' = permits - 1
  /\ UNCHANGED <<status, waiting>>

Enqueue(t) ==
  /\ (status = "live" /\ permits = 0) \/ status = "dying"
  /\ waiting' = Append(waiting, t)
  /\ UNCHANGED <<status, permits>>

Signal ==
  /\ status \in {"live", "dying"}
  /\ IF waiting # <<>> THEN waiting' = Tail(waiting) /\ UNCHANGED permits
                       ELSE permits' = permits + 1   /\ UNCHANGED waiting
  /\ UNCHANGED status

Destroy == status = "live" /\ status' = "dying" /\ UNCHANGED <<permits, waiting>>

LetGo ==
  /\ status = "dying" /\ waiting # <<>>
  /\ waiting' = Tail(waiting)
  /\ UNCHANGED <<status, permits>>

End ==
  /\ status = "dying" /\ waiting = <<>>
  /\ status' = "none" /\ permits' = 0
  /\ UNCHANGED waiting

Next ==
  \/ Create
  \/ Acquire
  \/ \E t \in Task : Enqueue(t)
  \/ Signal
  \/ Destroy
  \/ LetGo
  \/ End

Spec == Init /\ [][Next]_fsvars /\ WF_fsvars(LetGo)

=============================================================================
