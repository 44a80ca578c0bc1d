---------------------------- MODULE RoundRobin -----------------------------
(***************************************************************************)
(* What sched.c promises: one CPU and one queue, served in order.          *)
(*                                                                         *)
(* A step lets at most one task into the queue, at its tail, and may give  *)
(* the CPU away: then the head of the queue gets it, and the task that had *)
(* it goes to the tail or leaves.  A task that yields to an empty queue    *)
(* hands the CPU to the idle task, and is next.                            *)
(***************************************************************************)
EXTENDS Sequences

CONSTANTS Task, Idle

VARIABLES running, runq

rrvars == <<running, runq>>

Requeued(stays) == IF stays /\ running # Idle THEN <<running>> ELSE <<>>

Init == running \in Task \ {Idle} /\ runq = <<>>

\* A task is created, or one that sleeps is woken.
Admit(t) == 
  /\ t # Idle
  /\ \A i \in DOMAIN runq : runq[i] # t
  /\ runq' = Append(runq, t)
  /\ UNCHANGED running

\* The CPU is given away, by a task that stays in the game or one that leaves.
Yield(q, stays) ==
  IF q = <<>> THEN /\ running' = Idle
                   /\ runq' = Requeued(stays)
              ELSE /\ running' = Head(q)
                   /\ runq' = Tail(q) \o Requeued(stays)

\* unblock lets a task in and yields in one step.
AdmitAndYield(t) ==
  /\ t \notin {Idle, running}
  /\ \A i \in DOMAIN runq : runq[i] # t
  /\ Yield(Append(runq, t), TRUE)

Next ==
  \/ \E t \in Task : Admit(t) \/ AdmitAndYield(t)
  \/ \E stays \in BOOLEAN : Yield(runq, stays)

Spec == /\ Init
        /\ [][Next]_rrvars
        /\ WF_rrvars(\E stays \in BOOLEAN : Yield(runq, stays))

=============================================================================
