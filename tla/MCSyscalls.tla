----------------------------- MODULE MCSyscalls -----------------------------
(***************************************************************************)
(* Syscalls with buffers about every border: page 0, the data's page 1,    *)
(* the code's page 2, the heap's page 3, of two bytes each; and the        *)
(* characters, one of which a .cfg cannot write down.                      *)
(***************************************************************************)
EXTENDS Syscalls, TLC

BorderBuffers ==
  {<<0, 1>>, <<2, -1>>, <<2, 3>>, <<4, 2>>, <<5, 2>>, <<6, 1>>, <<7, 2>>}

SomePaints == {<<1, 0>>, <<0, 1>>, <<2, 0>>, <<3, 0>>}

Characters == {"a", "\n"}

ThreadSymmetry == Permutations(Thread)

=============================================================================
