---------------------------- MODULE MCLoopbackPool ----------------------------
(***************************************************************************)
(* Instances of LoopbackPool for TLC.  A loopback is named after the       *)
(* camera it is made for: Card is Camera.                                  *)
(***************************************************************************)
EXTENDS LoopbackPool, TLC

OwnCards == [c \in Camera |-> c]

(* A camera's loopback is found by its own name, and by one of the names   *)
(* other programs use where there are such, which begins all of them.      *)
Alike == {CHOOSE k \in OtherCard : TRUE}
OwnAndAlike == [c \in Camera |-> {CardOf[c]} \cup Alike]
OwnOnly == [c \in Camera |-> {CardOf[c]}]

(* Camera keys and processes are interchangeable; numbers are not. *)
CameraProcessSymmetry == Permutations(Camera) \cup Permutations(Process)
=============================================================================
